-------------------------------- MODULE PipeIo ---------------------------------
(***************************************************************************)
(* The two loops every message of the server goes through, pipe_print and  *)
(* pipe_parse (src/p2/common/io.c), on one pipe: a writer that prints      *)
(* messages and a reader that parses them field by field, with what the    *)
(* kernel may do in between: transfer a part, interrupt a call that        *)
(* sleeps, fail a write that nobody reads.  A failed call is -1 in both    *)
(* loops, and is added to an unsigned total: the totals are modulo SIZE.   *)
(*                                                                         *)
(* A byte is its number in the stream, so that the pipe is two counters.   *)
(***************************************************************************)
EXTENDS Naturals, Sequences

CONSTANTS
  Messages,     \* the messages of each kind: the offsets where their fields end
  PIPE_BUF,     \* the longest write that is not split
  Capacity,     \* the bytes a pipe holds
  SIZE,         \* the values of a size_t, 2^w
  MaxMessages,  \* bound: how many messages the writer prints
  MaxSignals    \* bound: how often each side is interrupted

(* A connection goes from a client to the host, a request from a client to *)
(* a worker, an answer from a worker to a client.  What clients write is   *)
(* never longer than PIPE_BUF: a RESERVE has at most 255 seats.            *)
Kinds == {"connection", "request", "answer"}

Length(m) == m[Len(m)]

(* create_message puts a field behind the one before it.                   *)
Offset(m, k) == IF k = 1 THEN 0 ELSE m[k - 1]

Width(m, k) == m[k] - Offset(m, k)

ASSUME SizesAssumption ==
  /\ PIPE_BUF \in Nat /\ Capacity \in Nat /\ SIZE \in Nat
  /\ PIPE_BUF <= Capacity /\ Capacity < SIZE
  /\ MaxMessages \in Nat /\ MaxSignals \in Nat
ASSUME MessagesAssumption ==
  \A type \in Kinds : \A m \in Messages[type] :
    /\ m \in Seq(Nat) /\ m # <<>>
    /\ \A j, k \in 1 .. Len(m) : m[k] > 0 /\ (j < k => m[j] < m[k])
    /\ type # "answer" => Length(m) <= PIPE_BUF
    /\ Length(m) < SIZE - 1

VARIABLES
  kind, message,    \* what this pipe carries
  printed,          \* how many calls of pipe_print there were
  print,            \* the writer: "out" of pipe_print, in its "loop", or it "closed" the pipe
  print_result,     \* what its last call returned
  total_written,
  written,          \* the bytes put into the pipe
  begun,            \* history: written when this call of pipe_print began
  taken,            \* the bytes read from it
  field,            \* the reader's field
  parse,            \* the reader: in the "loop", just returned "ok" or "failed", or "gone"
  total_read,
  buf,
  start,            \* history: taken when this call of pipe_parse began
  torn,             \* history: an interruption met a field of which a part was read
  signals           \* how often each side was interrupted

writer == <<printed, print, print_result, total_written, written, begun>>
reader == <<taken, field, parse, total_read, buf, start, torn>>
vars   == <<kind, message, writer, reader, signals>>

Empty(n) == [i \in 1 .. n |-> 0]

Init ==
  /\ kind \in Kinds
  /\ message \in Messages[kind]
  /\ printed = 0 /\ print = "out" /\ print_result = 0 /\ total_written = 0 /\ written = 0
  /\ begun = 0
  /\ taken = 0 /\ field = 1 /\ parse = "loop" /\ total_read = 0 /\ buf = Empty(Width(message, 1))
  /\ start = 0 /\ torn = FALSE
  /\ signals = [side \in {"writer", "reader"} |-> 0]

\* Mutant: the sum is wider than the totals.
AddWide(total, n) == total + n

Add(total, n) == (total + n) % SIZE

MinusOne == SIZE - 1

Interrupt(side) ==
  /\ signals[side] < MaxSignals
  /\ signals' = [signals EXCEPT ![side] = @ + 1]

------------------------------------------------------------------------------
\* pipe_print

Call ==
  /\ print = "out" /\ printed < MaxMessages
  /\ print' = "loop" /\ printed' = printed + 1 /\ total_written' = 0
  /\ begun' = written
  /\ UNCHANGED <<kind, message, print_result, written, reader, signals>>

Left == Length(message) - total_written

Room == Capacity - (written - taken)

Printing == print = "loop" /\ total_written < Length(message)

(* What write transfers: all, if that is at most PIPE_BUF; any part of a   *)
(* longer rest.                                                            *)
Written == IF Left <= PIPE_BUF THEN {Left} \cap 0 .. Room ELSE 1 .. (IF Left < Room THEN Left ELSE Room)

Write ==
  /\ Printing /\ parse # "gone"
  /\ \E n \in Written :
       /\ written' = written + n
       /\ total_written' = Add(total_written, n)
  /\ UNCHANGED <<kind, message, printed, print, print_result, begun, reader, signals>>

\* Mutant: the failure is tried again.
WriteFailsRetried ==
  /\ Printing /\ parse = "gone"
  /\ UNCHANGED vars

(* EPIPE: SIGPIPE is ignored, and the loop counts the -1.                  *)
WriteFails ==
  /\ Printing /\ parse = "gone"
  /\ total_written' = Add(total_written, MinusOne)
  /\ UNCHANGED <<kind, message, printed, print, print_result, written, begun, reader, signals>>

Return(result) ==
  /\ print' = "out" /\ print_result' = result
  /\ UNCHANGED <<kind, message, printed, total_written, written, begun, reader>>

\* Mutant: an interruption counts as a failure that the loop survives.
WriteInterruptedCounted ==
  /\ Printing /\ parse # "gone" /\ Written = {}
  /\ kind # "answer"
  /\ Interrupt("writer")
  /\ total_written' = Add(total_written, MinusOne)
  /\ UNCHANGED <<kind, message, printed, print, print_result, written, begun, reader>>

(* EINTR: a handler ran while write slept.  Workers block SIGUSR1.         *)
WriteInterrupted ==
  /\ Printing /\ parse # "gone" /\ Written = {}
  /\ kind # "answer"
  /\ Interrupt("writer")
  /\ Return(1)

PrintReturns ==
  /\ print = "loop" /\ ~ Printing
  /\ Return(0)
  /\ UNCHANGED signals

Close ==
  /\ print = "out" /\ print' = "closed"
  /\ UNCHANGED <<kind, message, printed, print_result, total_written, written, begun, reader, signals>>

------------------------------------------------------------------------------
\* pipe_parse

Parsing == parse = "loop" /\ total_read < Width(message, field)

Available == written - taken

(* read returns what is there, up to what is asked for.                    *)
Read ==
  /\ Parsing /\ Available > 0
  /\ LET want == Width(message, field) - total_read
         n    == IF want < Available THEN want ELSE Available
     IN /\ buf' = [i \in DOMAIN buf |->
                     IF i \in total_read + 1 .. total_read + n THEN taken + i - total_read ELSE buf[i]]
        /\ total_read' = Add(total_read, n)
        /\ taken' = taken + n
  /\ UNCHANGED <<kind, message, writer, field, parse, start, torn, signals>>

\* Mutant: an interruption is taken for the end of what was to be read.
ReadInterruptedEnds ==
  /\ Parsing /\ Available = 0 /\ print # "closed"
  /\ kind # "request"
  /\ Interrupt("reader")
  /\ total_read' = Width(message, field)
  /\ torn' = (torn \/ total_read > 0)
  /\ UNCHANGED <<kind, message, writer, taken, field, parse, buf, start>>

(* EINTR: the loop goes on, but with the -1 added to its total.            *)
ReadInterrupted ==
  /\ Parsing /\ Available = 0 /\ print # "closed"
  /\ kind # "request"
  /\ Interrupt("reader")
  /\ total_read' = Add(total_read, MinusOne)
  /\ torn' = (torn \/ total_read > 0)
  /\ UNCHANGED <<kind, message, writer, taken, field, parse, buf, start>>

(* The end of the file.  The host has the write end of its own pipe open   *)
(* and never sees it.                                                      *)
AtEof == Parsing /\ Available = 0 /\ print = "closed" /\ kind # "connection"

ParseReturns ==
  /\ AtEof \/ (parse = "loop" /\ ~ Parsing)
  /\ parse' = IF total_read = Width(message, field) THEN "ok" ELSE "failed"
  /\ UNCHANGED <<kind, message, writer, taken, field, total_read, buf, start, torn, signals>>

AfterField == IF parse = "ok" THEN (field % Len(message)) + 1 ELSE field

(* The reader goes on with the next field after a success.  After a        *)
(* failure only the host does, if it was waiting for an op code.           *)
NextField ==
  /\ parse = "ok" \/ (parse = "failed" /\ kind = "connection" /\ field = 1)
  /\ field' = AfterField /\ buf' = Empty(Width(message, field'))
  /\ parse' = "loop" /\ total_read' = 0 /\ start' = taken
  /\ UNCHANGED <<kind, message, writer, taken, torn, signals>>

(* Or it closes the pipe, after any field.                                 *)
Leave ==
  /\ parse \in {"ok", "failed"}
  /\ parse' = "gone"
  /\ UNCHANGED <<kind, message, writer, taken, field, total_read, buf, start, torn, signals>>

------------------------------------------------------------------------------
PipePrint == Write \/ WriteFails \/ PrintReturns

PipeParse == Read \/ ParseReturns

Next == \/ Call \/ PipePrint \/ WriteInterrupted \/ Close
        \/ PipeParse \/ ReadInterrupted \/ NextField \/ Leave

Spec == Init /\ [][Next]_vars

(* A thread inside a call is scheduled, and a reader that has returned     *)
(* reads on or leaves.  Nobody has to print or to interrupt.               *)
FairSpec == Spec /\ WF_vars(PipePrint) /\ WF_vars(PipeParse) /\ WF_vars(NextField \/ Leave)

------------------------------------------------------------------------------
(* Every variable has its type, and the totals stay in the buffers or at   *)
(* the largest size_t.                                                     *)
TypeOK ==
  /\ kind \in Kinds /\ message \in Messages[kind]
  /\ printed \in 0 .. MaxMessages
  /\ print \in {"out", "loop", "closed"} /\ print_result \in {0, 1}
  /\ total_written \in 0 .. Length(message) \cup {MinusOne}
  /\ written - taken \in 0 .. Capacity /\ begun \in 0 .. written
  /\ field \in DOMAIN message
  /\ parse \in {"loop", "ok", "failed", "gone"}
  /\ total_read \in 0 .. Width(message, field) \cup {MinusOne}
  /\ buf \in [1 .. Width(message, field) -> 0 .. taken]
  /\ start \in 0 .. taken
  /\ torn \in BOOLEAN
  /\ signals \in [{"writer", "reader"} -> 0 .. MaxSignals]

(* A pipe_parse that succeeds has the next bytes of the stream in their    *)
(* order, and one that fails before the end of the file, as the host's     *)
(* does when SIGUSR1 interrupts it, has taken nothing: the next call       *)
(* begins where it began.  The exception is a field of which a part was    *)
(* there when an interruption came; only an answer longer than PIPE_BUF    *)
(* has such fields.                                                        *)
ParseIsWhole ==
  /\ ~ torn => /\ parse = "ok" => taken = start + Width(message, field)
                                  /\ \A i \in DOMAIN buf : buf[i] = start + i
               /\ parse = "failed" => taken = start \/ print = "closed"
  /\ torn => Length(message) > PIPE_BUF

(* pipe_print returns 0 when the whole message is in the pipe or nobody    *)
(* reads it any more, although it counts failures as progress, and 1 when  *)
(* nothing of it is in the pipe: never for half a message.                 *)
PrintIsWhole ==
  [][print = "loop" /\ print' = "out" =>
       \/ print_result' = 0 /\ (parse = "gone" \/ written = begun + Length(message))
       \/ print_result' = 1 /\ written = begun]_vars

(* It returns once its reader reads on or is gone: the -1 that it counts   *)
(* takes its total down to 0 and then beyond every length.                 *)
PrintEnds == print = "loop" ~> print # "loop"
===============================================================================
