----------------------------- MODULE PipeIo_proofs -----------------------------
(***************************************************************************)
(* Theorems about PipeIo, for any messages, any PIPE_BUF and capacity of a *)
(* pipe, any width of the totals and any number of interruptions: type     *)
(* correctness, that a parse has its bytes or took none, and that a print  *)
(* is whole or nothing.                                                    *)
(***************************************************************************)
EXTENDS PipeIo, TLAPS

------------------------------------------------------------------------------
(* The fields of a message follow each other and end where it ends.        *)
LEMMA MessageFacts ==
  ASSUME NEW type \in Kinds, NEW m \in Messages[type]
  PROVE  /\ Len(m) \in Nat /\ Len(m) >= 1 /\ DOMAIN m = 1 .. Len(m)
         /\ Length(m) \in Nat /\ Length(m) >= 1 /\ Length(m) < SIZE - 1
         /\ \A k \in 1 .. Len(m) :
              /\ m[k] \in Nat /\ m[k] <= Length(m)
              /\ Offset(m, k) \in Nat /\ Width(m, k) \in Nat /\ Width(m, k) >= 1
              /\ Offset(m, k) + Width(m, k) = m[k]
         /\ Offset(m, 1) = 0
         /\ \A k \in 1 .. Len(m) - 1 : Offset(m, k + 1) = m[k]
         /\ type # "answer" => Length(m) <= PIPE_BUF
<1>1. /\ m \in Seq(Nat) /\ m # <<>>
      /\ \A j, k \in 1 .. Len(m) : m[k] > 0 /\ (j < k => m[j] < m[k])
      /\ type # "answer" => Length(m) <= PIPE_BUF
      /\ Length(m) < SIZE - 1
  BY MessagesAssumption
<1>2. Len(m) \in Nat /\ Len(m) >= 1 /\ DOMAIN m = 1 .. Len(m)
  BY <1>1
<1>3. \A k \in 1 .. Len(m) : m[k] \in Nat /\ m[k] > 0 /\ m[k] <= m[Len(m)]
  BY <1>1, <1>2
<1>4. ASSUME NEW k \in 1 .. Len(m)
      PROVE  /\ Offset(m, k) \in Nat /\ Width(m, k) \in Nat /\ Width(m, k) >= 1
             /\ Offset(m, k) + Width(m, k) = m[k]
  <2>1. CASE k = 1
    BY <2>1, <1>3 DEF Offset, Width
  <2>2. CASE k # 1
    <3>1. k - 1 \in 1 .. Len(m) /\ k - 1 < k
      BY <2>2, <1>2
    <3>2. m[k - 1] < m[k] /\ m[k - 1] \in Nat /\ m[k] \in Nat
      BY <3>1, <1>1, <1>3
    <3>3. QED
      BY <2>2, <3>2 DEF Offset, Width
  <2>3. QED
    BY <2>1, <2>2
<1>5. ASSUME NEW k \in 1 .. Len(m) - 1 PROVE Offset(m, k + 1) = m[k]
  BY <1>2 DEF Offset
<1>6. QED
  BY <1>1, <1>2, <1>3, <1>4, <1>5 DEF Length, Offset

(* The sum of a total and what a call returned: a -1 takes one off, or is  *)
(* the largest size_t.                                                     *)
LEMMA AddFacts ==
  ASSUME NEW t \in Nat, t < SIZE
  PROVE  /\ \A n \in Nat : t + n < SIZE => Add(t, n) = t + n
         /\ t > 0 => Add(t, MinusOne) = t - 1
         /\ t = 0 => Add(t, MinusOne) = MinusOne
<1>1. SIZE \in Nat /\ SIZE >= 1
  BY SizesAssumption
<1>2. ASSUME NEW x \in 0 .. SIZE - 1 PROVE x % SIZE = x
  BY <1>1
<1>3. ASSUME NEW x \in SIZE .. 2 * SIZE - 1 PROVE x % SIZE = x - SIZE
  BY <1>1
<1>4. ASSUME NEW n \in Nat, t + n < SIZE PROVE Add(t, n) = t + n
  BY <1>1, <1>2, <1>4 DEF Add
<1>5. ASSUME t > 0 PROVE Add(t, MinusOne) = t - 1
  <2>1. PICK x \in SIZE .. 2 * SIZE - 1 : x = t + (SIZE - 1) /\ x - SIZE = t - 1
    BY <1>1, <1>5
  <2>2. x % SIZE = t - 1
    BY <1>3, <2>1
  <2>3. QED
    BY <2>1, <2>2, Zenon DEF Add, MinusOne
<1>6. ASSUME t = 0 PROVE Add(t, MinusOne) = MinusOne
  <2>1. t + (SIZE - 1) \in 0 .. SIZE - 1 /\ t + (SIZE - 1) = SIZE - 1
    BY <1>1, <1>6
  <2>2. QED
    BY <1>2, <2>1 DEF Add, MinusOne
<1>7. QED
  BY <1>4, <1>5, <1>6

------------------------------------------------------------------------------
(* The invariant, but for the types.  A total that is not -1 is what this  *)
(* call has transferred; messages that PIPE_BUF holds are in the pipe      *)
(* whole, and their reader is in one field of one of them.                 *)
Small == Length(message) <= PIPE_BUF

FieldRead == IF total_read = MinusOne THEN 0 ELSE total_read

PrintCounts ==
  print = "loop" /\ parse # "gone" =>
    total_written # MinusOne /\ written = begun + total_written

WritesWhole ==
  Small => /\ total_written \in {0, Length(message), MinusOne}
           /\ \E k \in Nat : written = k * Length(message)

ParseCounts ==
  ~ torn => /\ taken = start + FieldRead
            /\ \A j \in 1 .. FieldRead : buf[j] = start + j

ParseEnds ==
  /\ parse = "ok" => total_read = Width(message, field)
  /\ parse = "failed" => total_read = MinusOne \/ (print = "closed" /\ kind # "connection")

ReadsFields ==
  Small => /\ ~ torn
           /\ \E k \in Nat : start = k * Length(message) + Offset(message, field)

Counters == written \in Nat /\ taken \in Nat

IInv ==
  /\ TypeOK /\ Counters
  /\ PrintCounts /\ WritesWhole /\ ParseCounts /\ ParseEnds /\ ReadsFields

LEMMA StateFacts ==
  ASSUME TypeOK, Counters
  PROVE  /\ Len(message) \in Nat /\ Len(message) >= 1 /\ field \in 1 .. Len(message)
         /\ Length(message) \in Nat /\ Length(message) >= 1
         /\ Length(message) < MinusOne /\ MinusOne \in Nat /\ SIZE = MinusOne + 1
         /\ Width(message, field) \in Nat /\ Width(message, field) >= 1
         /\ Offset(message, field) \in Nat
         /\ Offset(message, field) + Width(message, field) <= Length(message)
         /\ total_written \in Nat /\ total_read \in Nat
         /\ total_written < SIZE /\ total_read < SIZE
         /\ begun \in Nat /\ start \in Nat /\ taken <= written
         /\ Room \in Nat /\ Available \in Nat
         /\ kind # "answer" => Small
<1>1. kind \in Kinds /\ message \in Messages[kind] /\ DOMAIN message = 1 .. Len(message)
  BY MessageFacts DEF TypeOK
<1>2. /\ Len(message) \in Nat /\ Len(message) >= 1 /\ field \in 1 .. Len(message)
      /\ Length(message) \in Nat /\ Length(message) >= 1 /\ Length(message) < SIZE - 1
      /\ Width(message, field) \in Nat /\ Width(message, field) >= 1
      /\ Offset(message, field) \in Nat
      /\ Offset(message, field) + Width(message, field) <= Length(message)
      /\ kind # "answer" => Small
  BY <1>1, MessageFacts DEF TypeOK, Small
<1>3. SIZE \in Nat /\ SIZE >= 1 /\ MinusOne \in Nat /\ SIZE = MinusOne + 1
  BY <1>2, SizesAssumption DEF MinusOne
<1>4. total_written \in Nat /\ total_read \in Nat /\ total_written < SIZE /\ total_read < SIZE
  <2>1. /\ total_written \in 0 .. Length(message) \cup {MinusOne}
        /\ total_read \in 0 .. Width(message, field) \cup {MinusOne}
    BY DEF TypeOK
  <2>2. 0 <= Length(message) /\ Width(message, field) <= Length(message)
    BY <1>2
  <2>3. QED
    BY <1>2, <1>3, <2>1, <2>2
<1>5. /\ begun \in Nat /\ start \in Nat /\ taken <= written
      /\ Room \in Nat /\ Available \in Nat
  BY SizesAssumption DEF TypeOK, Counters, Room, Available
<1>6. QED
  BY <1>2, <1>3, <1>4, <1>5

(* What a step of pipe_print transfers is left of the message and has room *)
(* in the pipe.                                                            *)
LEMMA WriteFacts ==
  ASSUME IInv, Write
  PROVE  \E n \in Nat :
           /\ written' = written + n /\ total_written' = total_written + n
           /\ n <= Room /\ total_written + n <= Length(message)
           /\ Small => n = Length(message) /\ total_written = 0
<1>0. /\ Length(message) \in Nat /\ Length(message) < MinusOne
      /\ SIZE = MinusOne + 1 /\ MinusOne \in Nat
      /\ total_written \in Nat /\ total_written < SIZE /\ Room \in Nat
  <2>1. TypeOK /\ Counters
    BY DEF IInv
  <2>2. QED
    BY <2>1, StateFacts
<1>1. PICK n \in Written : written' = written + n /\ total_written' = Add(total_written, n)
  BY DEF Write
<1>2. total_written < Length(message) /\ Left \in Nat /\ total_written + Left = Length(message)
  BY <1>0 DEF Write, Printing, Left
<1>3. n \in Nat /\ n <= Room /\ n <= Left
  <2>1. Room \in Nat
    BY <1>0
  <2>2. CASE Left <= PIPE_BUF
    BY <1>1, <1>2, <2>1, <2>2 DEF Written
  <2>3. CASE ~ (Left <= PIPE_BUF)
    <3>1. n \in 1 .. (IF Left < Room THEN Left ELSE Room)
      BY <1>1, <2>3 DEF Written
    <3>2. QED
      BY <3>1, <1>2, <2>1
  <2>4. QED
    BY <2>2, <2>3
<1>4. total_written' = total_written + n
  <2>1. total_written + n < SIZE
    BY <1>0, <1>2, <1>3
  <2>2. Add(total_written, n) = total_written + n
    BY <1>0, <1>3, <2>1, AddFacts
  <2>3. QED
    BY <1>1, <2>2
<1>5. ASSUME Small PROVE n = Length(message) /\ total_written = 0
  <2>1. total_written = 0
    BY <1>0, <1>2, <1>5 DEF WritesWhole, IInv
  <2>2. Left <= PIPE_BUF
    BY <1>0, <1>2, <1>5, <2>1 DEF Small
  <2>3. n = Left
    BY <1>1, <2>2 DEF Written
  <2>4. QED
    BY <1>0, <1>2, <2>1, <2>3
<1>6. total_written + n <= Length(message)
  BY <1>0, <1>2, <1>3
<1>7. QED
  BY <1>1, <1>3, <1>4, <1>5, <1>6

(* What a step of pipe_parse takes is there and fits into the field.       *)
LEMMA ReadFacts ==
  ASSUME IInv, Read
  PROVE  \E n \in Nat :
           /\ n >= 1 /\ taken' = taken + n /\ total_read' = total_read + n
           /\ n <= Available /\ total_read + n <= Width(message, field)
           /\ buf' = [j \in DOMAIN buf |->
                        IF j \in total_read + 1 .. total_read + n THEN taken + j - total_read
                        ELSE buf[j]]
<1>0. /\ Width(message, field) \in Nat /\ Width(message, field) < SIZE /\ SIZE \in Nat
      /\ total_read \in Nat /\ total_read < SIZE /\ Available \in Nat
  <2>1. TypeOK /\ Counters
    BY DEF IInv
  <2>2. QED
    BY <2>1, StateFacts
<1> DEFINE want == Width(message, field) - total_read
           n    == IF want < Available THEN want ELSE Available
<1>1. total_read < Width(message, field) /\ Available > 0
  BY DEF Read, Parsing
<1>2. /\ taken' = taken + n /\ total_read' = Add(total_read, n)
      /\ buf' = [j \in DOMAIN buf |->
                   IF j \in total_read + 1 .. total_read + n THEN taken + j - total_read
                   ELSE buf[j]]
  BY DEF Read
<1>3. n \in Nat /\ n >= 1 /\ n <= Available /\ total_read + n <= Width(message, field)
  BY <1>0, <1>1
<1> HIDE DEF n, want
<1>4. total_read + n < SIZE
  BY <1>0, <1>3
<1>5. total_read' = total_read + n
  BY <1>0, <1>2, <1>3, <1>4, AddFacts
<1>6. QED
  BY <1>2, <1>3, <1>5

(* What an interruption or a failed write leaves of a total.               *)
LEMMA MinusOneFacts ==
  ASSUME NEW t \in Nat, t < SIZE
  PROVE  Add(t, MinusOne) = IF t = 0 THEN MinusOne ELSE t - 1
BY AddFacts

LEMMA InitIInv == Init => IInv
<1> SUFFICES ASSUME Init PROVE IInv
  OBVIOUS
<1>1. kind \in Kinds /\ message \in Messages[kind]
  BY DEF Init
<1>2. /\ 1 \in 1 .. Len(message) /\ DOMAIN message = 1 .. Len(message)
      /\ Length(message) \in Nat /\ Width(message, 1) \in Nat /\ Offset(message, 1) = 0
      /\ ~ (1 > Width(message, 1)) /\ Length(message) < SIZE - 1
  BY <1>1, MessageFacts
<1>3. TypeOK
  <2>1. buf \in [1 .. Width(message, field) -> 0 .. taken]
    BY DEF Init, Empty
  <2>2. 0 \in 0 .. Capacity /\ 0 \in 0 .. MaxMessages /\ 0 \in 0 .. MaxSignals
    BY SizesAssumption
  <2>3. signals \in [{"writer", "reader"} -> 0 .. MaxSignals]
    BY <2>2 DEF Init
  <2>4. QED
    <3>1. field = 1 /\ total_read = 0 /\ total_written = 0
      BY DEF Init
    <3>2. field \in DOMAIN message
      BY <1>2, <3>1
    <3>3. total_read \in 0 .. Width(message, field) /\ total_written \in 0 .. Length(message)
      BY <1>2, <3>1
    <3>4. /\ printed = 0 /\ print = "out" /\ print_result = 0 /\ parse = "loop"
          /\ torn = FALSE /\ written - taken = 0 /\ begun \in 0 .. written
          /\ start \in 0 .. taken
      BY DEF Init
    <3>5. QED
      BY <1>1, <2>1, <2>2, <2>3, <3>2, <3>3, <3>4 DEF TypeOK
<1>4. SIZE - 1 # 0
  BY <1>2, SizesAssumption
<1>5. FieldRead = 0 /\ Counters
  BY DEF Init, FieldRead, Counters
<1>6. ParseCounts
  BY <1>5 DEF Init, ParseCounts
<1>7. WritesWhole
  <2>1. 0 = 0 * Length(message)
    BY <1>2
  <2>2. QED
    BY <2>1 DEF Init, WritesWhole
<1>8. ReadsFields
  <2>1. 0 = 0 * Length(message) + Offset(message, 1)
    BY <1>2
  <2>2. QED
    BY <2>1 DEF Init, ReadsFields
<1>9. QED
  BY <1>3, <1>5, <1>6, <1>7, <1>8 DEF Init, IInv, PrintCounts, ParseEnds

(* The types.                                                              *)
LEMMA TypeStep ==
  ASSUME IInv, [Next]_vars
  PROVE  TypeOK' /\ Counters'
<1> USE DEF writer, reader
<1>a. TypeOK /\ Counters
  BY DEF IInv
<1>b. /\ Length(message) \in Nat /\ MinusOne \in Nat
      /\ total_written \in Nat /\ total_read \in Nat
      /\ written \in Nat /\ taken \in Nat /\ taken <= written
      /\ field \in 1 .. Len(message) /\ Len(message) \in Nat
      /\ Width(message, field) \in Nat
  BY <1>a, StateFacts DEF Counters
<1>1. CASE Call
  <2>1. printed' \in 0 .. MaxMessages
    BY <1>1, <1>a, SizesAssumption DEF Call, TypeOK
  <2>2. total_written' \in 0 .. Length(message) \cup {MinusOne}
    BY <1>1, <1>b DEF Call
  <2>3. QED
    BY <1>1, <1>a, <1>b, <2>1, <2>2 DEF Call, TypeOK, Counters
<1>2. CASE Write
  <2>1. PICK n \in Nat : /\ written' = written + n /\ total_written' = total_written + n
                         /\ n <= Room /\ total_written + n <= Length(message)
    BY <1>2, WriteFacts
  <2>2. written' - taken \in 0 .. Capacity /\ begun \in 0 .. written' /\ written' \in Nat
    BY <1>a, <1>b, <2>1, SizesAssumption DEF Room, TypeOK
  <2>3. total_written' \in 0 .. Length(message) \cup {MinusOne}
    BY <1>b, <2>1
  <2>4. QED
    BY <1>2, <1>a, <2>2, <2>3 DEF Write, TypeOK, Counters
<1>3. CASE WriteFails
  <2>1. total_written' \in 0 .. Length(message) \cup {MinusOne}
    <3>1. total_written' = Add(total_written, MinusOne) /\ total_written < Length(message)
      BY <1>3 DEF WriteFails, Printing
    <3>2. total_written' = IF total_written = 0 THEN MinusOne ELSE total_written - 1
      BY <3>1, <1>a, StateFacts, MinusOneFacts
    <3>3. QED
      BY <3>1, <3>2, <1>b
  <2>2. QED
    BY <1>3, <1>a, <2>1 DEF WriteFails, TypeOK, Counters
<1>4. CASE PrintReturns
  BY <1>4, <1>a DEF PrintReturns, Return, TypeOK, Counters
<1>5. CASE WriteInterrupted
  <2>1. signals' \in [{"writer", "reader"} -> 0 .. MaxSignals]
    BY <1>5, <1>a, SizesAssumption DEF WriteInterrupted, Interrupt, TypeOK
  <2>2. QED
    BY <1>5, <1>a, <2>1 DEF WriteInterrupted, Return, TypeOK, Counters
<1>6. CASE Close
  BY <1>6, <1>a DEF Close, TypeOK, Counters
<1>7. CASE Read
  <2>1. PICK n \in Nat :
          /\ n >= 1 /\ taken' = taken + n /\ total_read' = total_read + n
          /\ n <= Available /\ total_read + n <= Width(message, field)
          /\ buf' = [j \in DOMAIN buf |->
                       IF j \in total_read + 1 .. total_read + n THEN taken + j - total_read
                       ELSE buf[j]]
    BY <1>7, ReadFacts
  <2>2. taken' \in Nat /\ written - taken' \in 0 .. Capacity /\ start \in 0 .. taken'
    <3>1. written - taken \in 0 .. Capacity /\ start \in 0 .. taken
      BY <1>a DEF TypeOK
    <3>2. taken' = taken + n /\ n <= written - taken
      BY <2>1 DEF Available
    <3>3. QED
      BY <3>1, <3>2, <1>b, SizesAssumption
  <2>3. total_read' \in 0 .. Width(message, field) \cup {MinusOne}
    BY <1>b, <2>1
  <2>4. buf' \in [1 .. Width(message, field) -> 0 .. taken']
    <3>1. buf \in [1 .. Width(message, field) -> 0 .. taken]
      BY <1>a DEF TypeOK
    <3>2. \A j \in 1 .. Width(message, field) : buf[j] \in 0 .. taken'
      BY <3>1, <1>b, <2>1
    <3>3. \A j \in total_read + 1 .. total_read + n : taken + j - total_read \in 0 .. taken'
      BY <1>b, <2>1
    <3>4. QED
      BY <3>1, <3>2, <3>3, <2>1
  <2>5. /\ UNCHANGED <<kind, message, writer, field, parse, start, torn, signals>>
    BY <1>7 DEF Read
  <2>6. QED
    BY <1>a, <2>2, <2>3, <2>4, <2>5 DEF TypeOK, Counters
<1>8. CASE ParseReturns
  BY <1>8, <1>a DEF ParseReturns, TypeOK, Counters
<1>9. CASE ReadInterrupted
  <2>1. signals' \in [{"writer", "reader"} -> 0 .. MaxSignals]
    BY <1>9, <1>a, SizesAssumption DEF ReadInterrupted, Interrupt, TypeOK
  <2>2. total_read' \in 0 .. Width(message, field) \cup {MinusOne}
    <3>1. total_read' = Add(total_read, MinusOne) /\ total_read < Width(message, field)
      BY <1>9 DEF ReadInterrupted, Parsing
    <3>2. total_read' = IF total_read = 0 THEN MinusOne ELSE total_read - 1
      BY <3>1, <1>a, StateFacts, MinusOneFacts
    <3>3. QED
      BY <3>1, <3>2, <1>b
  <2>3. torn' \in BOOLEAN
    BY <1>9, <1>a DEF ReadInterrupted, TypeOK
  <2>4. QED
    BY <1>9, <1>a, <2>1, <2>2, <2>3 DEF ReadInterrupted, TypeOK, Counters
<1>10. CASE NextField
  <2>1. field' \in 1 .. Len(message) /\ field' \in DOMAIN message
    <3>1. field % Len(message) \in 0 .. Len(message) - 1
      BY <1>b
    <3>2. AfterField \in 1 .. Len(message)
      BY <1>b, <3>1 DEF AfterField
    <3>3. QED
      BY <1>10, <1>a, <3>2, MessageFacts DEF NextField, TypeOK
  <2>2. Width(message, field') \in Nat
    BY <1>a, <2>1, MessageFacts DEF TypeOK
  <2>3. buf' \in [1 .. Width(message, field') -> 0 .. taken]
    BY <1>10, <1>b DEF NextField, Empty
  <2>4. Width(message', field') = Width(message, field')
    BY <1>10 DEF NextField
  <2>5. QED
    BY <1>10, <1>a, <1>b, <2>1, <2>2, <2>3, <2>4 DEF NextField, TypeOK, Counters
<1>11. CASE Leave
  BY <1>11, <1>a DEF Leave, TypeOK, Counters
<1>12. CASE UNCHANGED vars
  BY <1>12, <1>a DEF vars, TypeOK, Counters
<1>13. QED
  BY <1>1, <1>2, <1>3, <1>4, <1>5, <1>6, <1>7, <1>8, <1>9, <1>10, <1>11, <1>12
  DEF Next, PipePrint, PipeParse

LEMMA Constant ==
  ASSUME [Next]_vars
  PROVE  kind' = kind /\ message' = message
<1> USE DEF vars, writer, reader
<1>1. CASE Call \/ Write \/ WriteFails \/ Close
  BY <1>1 DEF Call, Write, WriteFails, Close
<1>2. CASE PrintReturns \/ WriteInterrupted
  BY <1>2 DEF PrintReturns, WriteInterrupted, Return
<1>3. CASE Read \/ ParseReturns \/ ReadInterrupted \/ NextField \/ Leave
  BY <1>3 DEF Read, ParseReturns, ReadInterrupted, NextField, Leave
<1>4. CASE UNCHANGED vars
  BY <1>4
<1>5. QED
  BY <1>1, <1>2, <1>3, <1>4 DEF Next, PipePrint, PipeParse

(* A reader that is gone does not come back, and does not write.           *)
LEMMA ReaderSpares ==
  ASSUME Read \/ ParseReturns \/ ReadInterrupted \/ NextField \/ Leave
  PROVE  /\ UNCHANGED <<kind, message, writer>>
         /\ parse # "gone"
BY DEF Read, ParseReturns, ReadInterrupted, NextField, Leave, Parsing, AtEof

(* A writer does not read, and a pipe that it has closed stays closed.     *)
LEMMA WriterSpares ==
  ASSUME Call \/ Write \/ WriteFails \/ PrintReturns \/ WriteInterrupted \/ Close
  PROVE  /\ UNCHANGED <<kind, message, reader>>
         /\ print # "closed"
BY DEF Call, Write, WriteFails, PrintReturns, WriteInterrupted, Close, Return, Printing

(* The writer's part.                                                      *)
LEMMA PrintStep ==
  ASSUME IInv, [Next]_vars
  PROVE  PrintCounts' /\ WritesWhole'
<1> USE DEF writer, reader
<1>a. TypeOK /\ Counters /\ PrintCounts /\ WritesWhole
  BY DEF IInv
<1>b. /\ Length(message) \in Nat /\ Length(message) >= 1 /\ MinusOne \in Nat
      /\ Length(message) < MinusOne /\ total_written \in Nat /\ written \in Nat
      /\ begun \in Nat
  BY <1>a, StateFacts DEF Counters
<1>c. message' = message /\ Length(message)' = Length(message) /\ (Small' <=> Small)
  BY Constant DEF Length, Small
<1>1. CASE Call
  BY <1>1, <1>a, <1>b, <1>c DEF Call, PrintCounts, WritesWhole
<1>2. CASE Write
  <2>1. PICK n \in Nat : /\ written' = written + n /\ total_written' = total_written + n
                         /\ total_written + n <= Length(message)
                         /\ Small => n = Length(message) /\ total_written = 0
    BY <1>2, WriteFacts
  <2>2. print = "loop" /\ parse # "gone" /\ print' = print /\ begun' = begun /\ parse' = parse
    BY <1>2 DEF Write, Printing
  <2>3. PrintCounts'
    <3>1. total_written' # MinusOne
      BY <2>1, <1>b
    <3>2. written = begun + total_written
      BY <2>2, <1>a DEF PrintCounts
    <3>3. written' = begun + total_written'
      BY <2>1, <3>2, <1>b
    <3>4. QED
      BY <2>2, <3>1, <3>3 DEF PrintCounts
  <2>4. ASSUME Small
        PROVE  /\ total_written' = Length(message)
               /\ \E k \in Nat : written' = k * Length(message)
    <3>1. PICK k \in Nat : written = k * Length(message)
      BY <2>4, <1>a DEF WritesWhole
    <3>2. written' = (k + 1) * Length(message) /\ k + 1 \in Nat
      BY <2>1, <2>4, <3>1, <1>b
    <3>3. QED
      BY <2>1, <2>4, <3>2, <1>b
  <2>5. QED
    BY <2>3, <2>4, <1>c DEF WritesWhole
<1>3. CASE WriteFails
  <2>1. print' = print /\ parse = "gone" /\ parse' = parse /\ written' = written
    BY <1>3 DEF WriteFails
  <2>2. ASSUME Small PROVE total_written' = MinusOne
    <3>1. total_written' = Add(total_written, MinusOne) /\ total_written < Length(message)
      BY <1>3 DEF WriteFails, Printing
    <3>2. total_written = 0
      BY <2>2, <3>1, <1>a, <1>b DEF WritesWhole
    <3>3. QED
      BY <3>1, <3>2, <1>a, StateFacts, MinusOneFacts
  <2>3. QED
    BY <2>1, <2>2, <1>a, <1>c DEF PrintCounts, WritesWhole
<1>4. CASE PrintReturns \/ WriteInterrupted \/ Close
  BY <1>4, <1>a, <1>c
  DEF PrintReturns, WriteInterrupted, Close, Return, PrintCounts, WritesWhole
<1>5. CASE Read \/ ParseReturns \/ ReadInterrupted \/ NextField \/ Leave
  BY <1>5, <1>a, <1>c, ReaderSpares DEF PrintCounts, WritesWhole
<1>6. CASE UNCHANGED vars
  BY <1>6, <1>a, <1>c DEF vars, PrintCounts, WritesWhole
<1>7. QED
  BY <1>1, <1>2, <1>3, <1>4, <1>5, <1>6 DEF Next, PipePrint, PipeParse

(* A field of a message that is in the pipe whole is there whole.          *)
LEMMA WholeField ==
  ASSUME NEW L \in Nat, NEW j \in Nat, NEW k \in Nat, NEW o \in Nat, NEW r \in Nat,
         j * L + o + r = k * L, r > 0, o + r < L
  PROVE  FALSE
<1>1. j * L \in Nat /\ k * L \in Nat
  OBVIOUS
<1>2. CASE k <= j
  <2>1. PICK d \in Nat : j = k + d
    BY <1>2
  <2>2. j * L = k * L + d * L /\ d * L \in Nat
    BY <2>1
  <2>3. QED
    BY <1>1, <2>2
<1>3. CASE k > j
  <2>1. PICK d \in Nat : k = j + 1 + d
    <3>1. k - (j + 1) \in Nat /\ k = j + 1 + (k - (j + 1))
      BY <1>3
    <3>2. QED
      BY <3>1
  <2>2. k * L = j * L + L + d * L /\ d * L \in Nat
    BY <2>1
  <2>3. QED
    BY <1>1, <2>2
<1>4. QED
  BY <1>2, <1>3

(* The reader's part.                                                      *)
LEMMA ParseStep ==
  ASSUME IInv, [Next]_vars
  PROVE  ParseCounts' /\ ParseEnds'
<1> USE DEF writer, reader
<1>a. TypeOK /\ Counters /\ ParseCounts /\ ParseEnds
  BY DEF IInv
<1>b. /\ MinusOne \in Nat /\ total_read \in Nat /\ taken \in Nat /\ start \in Nat
      /\ Width(message, field) \in Nat /\ Width(message, field) < MinusOne
      /\ buf \in [1 .. Width(message, field) -> 0 .. taken]
  <2>1. /\ taken \in Nat /\ torn \in BOOLEAN
        /\ buf \in [1 .. Width(message, field) -> 0 .. taken]
    BY <1>a DEF Counters, TypeOK
  <2>2. /\ MinusOne \in Nat /\ total_read \in Nat /\ start \in Nat
        /\ Width(message, field) \in Nat /\ Offset(message, field) \in Nat
        /\ Offset(message, field) + Width(message, field) <= Length(message)
        /\ Length(message) \in Nat /\ Length(message) < MinusOne
    BY <1>a, StateFacts
  <2>3. Width(message, field) < MinusOne
    BY <2>2
  <2>4. QED
    BY <2>1, <2>2, <2>3
<1>c. message' = message /\ kind' = kind
  BY Constant
<1>1. CASE Call \/ Write \/ WriteFails \/ PrintReturns \/ WriteInterrupted \/ Close
  <2>1. UNCHANGED <<kind, message, reader>> /\ print # "closed"
    BY <1>1, WriterSpares
  <2>2. FieldRead' = FieldRead
    BY <2>1 DEF FieldRead
  <2>3. QED
    BY <2>1, <2>2, <1>a DEF ParseCounts, ParseEnds, Width, Offset
<1>2. CASE Read
  <2>1. PICK n \in Nat :
          /\ n >= 1 /\ taken' = taken + n /\ total_read' = total_read + n
          /\ n <= Available /\ total_read + n <= Width(message, field)
          /\ buf' = [j \in DOMAIN buf |->
                       IF j \in total_read + 1 .. total_read + n THEN taken + j - total_read
                       ELSE buf[j]]
    BY <1>2, ReadFacts
  <2>2. parse = "loop" /\ parse' = parse /\ UNCHANGED <<start, torn>>
    BY <1>2 DEF Read, Parsing
  <2>3. FieldRead = total_read /\ FieldRead' = total_read + n
    BY <2>1, <1>b DEF FieldRead
  <2>4. ASSUME ~ torn
        PROVE  /\ taken' = start + FieldRead'
               /\ \A j \in 1 .. FieldRead' : buf'[j] = start + j
    <3>1. taken = start + total_read /\ \A j \in 1 .. total_read : buf[j] = start + j
      BY <2>3, <2>4, <1>a DEF ParseCounts
    <3>2. taken' = start + (total_read + n)
      BY <2>1, <3>1, <1>b
    <3>3. ASSUME NEW j \in 1 .. total_read + n PROVE buf'[j] = start + j
      <4>1. j \in DOMAIN buf
        BY <2>1, <1>b
      <4>2. CASE j \in total_read + 1 .. total_read + n
        BY <2>1, <3>1, <4>1, <4>2, <1>b
      <4>3. CASE j \notin total_read + 1 .. total_read + n
        BY <2>1, <3>1, <4>1, <4>3, <1>b
      <4>4. QED
        BY <4>2, <4>3
    <3>4. QED
      BY <2>3, <3>2, <3>3
  <2>5. QED
    BY <2>2, <2>4 DEF ParseCounts, ParseEnds
<1>3. CASE ParseReturns
  <2>1. /\ parse' = IF total_read = Width(message, field) THEN "ok" ELSE "failed"
        /\ UNCHANGED <<message, writer, taken, field, total_read, buf, start, torn>>
        /\ AtEof \/ ~ (total_read < Width(message, field))
    BY <1>3 DEF ParseReturns, Parsing
  <2>2. ParseCounts'
    BY <2>1, <1>a DEF ParseCounts, FieldRead
  <2>3. total_read # Width(message, field) /\ ~ AtEof => total_read = MinusOne
    BY <2>1, <1>a, <1>b DEF TypeOK
  <2>4. AtEof => print = "closed" /\ kind # "connection"
    BY DEF AtEof
  <2>5. QED
    BY <2>1, <2>2, <2>3, <2>4, <1>c DEF ParseEnds
<1>4. CASE ReadInterrupted
  <2>1. /\ total_read' = Add(total_read, MinusOne) /\ total_read < Width(message, field)
        /\ torn' = (torn \/ total_read > 0) /\ parse' = parse /\ parse = "loop"
        /\ UNCHANGED <<taken, buf, start>>
    BY <1>4 DEF ReadInterrupted, Parsing
  <2>2. total_read = 0 => total_read' = MinusOne
    BY <2>1, <1>a, StateFacts, MinusOneFacts
  <2>3. ASSUME ~ torn' PROVE ~ torn /\ FieldRead' = 0 /\ FieldRead = 0
    <3>1. ~ torn /\ ~ (total_read > 0)
      BY <2>1, <2>3
    <3>2. total_read = 0
      BY <3>1, <1>b
    <3>3. QED
      BY <2>2, <3>1, <3>2 DEF FieldRead
  <2>4. QED
    BY <2>1, <2>3, <1>a DEF ParseCounts, ParseEnds
<1>5. CASE NextField
  <2>1. parse' = "loop" /\ total_read' = 0 /\ start' = taken /\ taken' = taken
    BY <1>5 DEF NextField
  <2>2. QED
    BY <2>1, <1>b DEF ParseCounts, ParseEnds, FieldRead
<1>6. CASE Leave
  <2>1. parse' = "gone" /\ UNCHANGED <<taken, total_read, buf, start, torn>>
    BY <1>6 DEF Leave
  <2>2. QED
    BY <2>1, <1>a DEF ParseCounts, ParseEnds, FieldRead
<1>7. CASE UNCHANGED vars
  BY <1>7, <1>a DEF vars, ParseCounts, ParseEnds, FieldRead, Width, Offset
<1>8. QED
  BY <1>1, <1>2, <1>3, <1>4, <1>5, <1>6, <1>7 DEF Next, PipePrint, PipeParse

(* Where the reader is in a message that came whole.                       *)
LEMMA FieldsStep ==
  ASSUME IInv, [Next]_vars
  PROVE  ReadsFields'
<1> USE DEF writer, reader
<1>a. TypeOK /\ Counters /\ ReadsFields
  BY DEF IInv
<1>b. message' = message /\ kind' = kind /\ (Small' <=> Small)
  BY Constant DEF Small, Length
<1> SUFFICES ASSUME Small
             PROVE  /\ ~ torn'
                    /\ \E k \in Nat : start' = k * Length(message) + Offset(message, field')
  BY <1>b DEF ReadsFields
<1>c. ~ torn /\ taken = start + FieldRead
  BY DEF IInv, ReadsFields, ParseCounts
<1>d. PICK j \in Nat : start = j * Length(message) + Offset(message, field)
  BY <1>a DEF ReadsFields
<1>e. /\ Length(message) \in Nat /\ Offset(message, field) \in Nat /\ total_read \in Nat
      /\ Width(message, field) \in Nat
      /\ Offset(message, field) + Width(message, field) <= Length(message)
  BY <1>a, StateFacts
<1>1. CASE UNCHANGED <<torn, start, field>>
  BY <1>1, <1>c, <1>d
<1>2. CASE ReadInterrupted
  <2>1. /\ torn' = (torn \/ total_read > 0) /\ UNCHANGED <<start, field>>
        /\ total_read < Width(message, field) /\ written - taken = 0
    BY <1>2 DEF ReadInterrupted, Parsing, Available
  <2>2. ASSUME total_read > 0 PROVE FALSE
    <3>1. PICK k \in Nat : written = k * Length(message)
      BY DEF IInv, WritesWhole
    <3>2. FieldRead = total_read
      BY <2>1, <1>a, StateFacts DEF FieldRead
    <3>3. taken = written
      BY <2>1, <1>a, StateFacts DEF Counters
    <3>4. /\ Length(message) \in Nat /\ Offset(message, field) \in Nat /\ total_read \in Nat
          /\ Offset(message, field) + total_read < Length(message)
      BY <2>1, <1>e
    <3>5. j * Length(message) + Offset(message, field) + total_read = k * Length(message)
      BY <3>1, <3>2, <3>3, <1>c, <1>d
    <3>6. QED
      BY <2>2, <3>4, <3>5, WholeField
  <2>3. total_read \in Nat
    BY <1>a, StateFacts
  <2>4. QED
    BY <2>1, <2>2, <1>c, <1>d
<1>3. CASE NextField
  <2>1. start' = taken /\ torn' = torn /\ field' = AfterField
    BY <1>3 DEF NextField
  <2>2. CASE parse = "ok"
    <3>1. /\ Len(message) \in Nat /\ field \in 1 .. Len(message)
          /\ Length(message) \in Nat /\ Width(message, field) \in Nat
          /\ Offset(message, field) \in Nat /\ Width(message, field) < MinusOne
      BY <1>a, StateFacts
    <3>2. taken = start + Width(message, field)
      BY <2>2, <3>1, <1>c DEF IInv, ParseEnds, FieldRead
    <3>3. Offset(message, field) + Width(message, field) = message[field]
      BY <3>1, <1>a, MessageFacts DEF TypeOK
    <3>4. taken = j * Length(message) + message[field] /\ message[field] \in Nat
      BY <3>1, <3>2, <3>3, <1>d
    <3>5. field' = (field % Len(message)) + 1
      BY <2>1, <2>2 DEF AfterField
    <3>6. CASE field = Len(message)
      <4>1. field' = 1 /\ message[field] = Length(message) /\ Offset(message, 1) = 0
        BY <3>1, <3>5, <3>6 DEF Length, Offset
      <4>2. taken = (j + 1) * Length(message) + Offset(message, field')
        BY <3>1, <3>4, <4>1
      <4>3. QED
        BY <2>1, <4>2, <1>c
    <3>7. CASE field # Len(message)
      <4>1. field % Len(message) = field
        BY <3>1, <3>7
      <4>2. field' = field + 1 /\ field \in 1 .. Len(message) - 1
        BY <3>1, <3>5, <3>7, <4>1
      <4>3. Offset(message, field') = message[field]
        BY <4>2, <1>a, MessageFacts DEF TypeOK
      <4>4. QED
        BY <2>1, <3>4, <4>3, <1>c
    <3>8. QED
      BY <3>6, <3>7
  <2>3. CASE parse # "ok"
    <3>1. parse = "failed" /\ kind = "connection" /\ field' = field
      BY <1>3, <2>3 DEF NextField, AfterField
    <3>2. total_read = MinusOne
      BY <3>1 DEF IInv, ParseEnds
    <3>3. taken = start
      BY <3>2, <1>c, <1>a, StateFacts DEF FieldRead
    <3>4. QED
      BY <2>1, <3>1, <3>3, <1>c, <1>d
  <2>4. QED
    BY <2>2, <2>3
<1>4. CASE Call \/ Write \/ WriteFails \/ PrintReturns \/ WriteInterrupted \/ Close
  BY <1>1, <1>4, WriterSpares
<1>5. CASE Read \/ ParseReturns \/ Leave \/ UNCHANGED vars
  BY <1>1, <1>5 DEF Read, ParseReturns, Leave, vars
<1>6. QED
  BY <1>2, <1>3, <1>4, <1>5 DEF Next, PipePrint, PipeParse

LEMMA NextIInv == IInv /\ [Next]_vars => IInv'
BY TypeStep, PrintStep, ParseStep, FieldsStep DEF IInv

------------------------------------------------------------------------------
(* Type correctness: the totals stay within the lengths or at the largest  *)
(* size_t, and the pipe within its capacity.                               *)
THEOREM TypeCorrect == Spec => []TypeOK
<1>1. IInv => TypeOK
  BY DEF IInv
<1>2. QED
  BY <1>1, InitIInv, NextIInv, PTL DEF Spec

(* A parse that succeeds has the next bytes of the stream, and one that    *)
(* fails before the end has taken none, unless an interruption met a part  *)
(* of a field, which only a message beyond PIPE_BUF has (pipe_parse).      *)
THEOREM ParseCorrect == Spec => []ParseIsWhole
<1>1. IInv => ParseIsWhole
  <2> SUFFICES ASSUME IInv PROVE ParseIsWhole
    OBVIOUS
  <2>a. TypeOK /\ Counters
    BY DEF IInv
  <2>1. ASSUME ~ torn, parse = "ok"
        PROVE  /\ taken = start + Width(message, field)
               /\ \A i \in DOMAIN buf : buf[i] = start + i
    <3>1. FieldRead = Width(message, field) /\ DOMAIN buf = 1 .. Width(message, field)
      <4>1. total_read = Width(message, field)
        BY <2>1 DEF IInv, ParseEnds
      <4>2. /\ Width(message, field) \in Nat /\ Offset(message, field) \in Nat
            /\ Offset(message, field) + Width(message, field) <= Length(message)
            /\ Length(message) \in Nat /\ Length(message) < MinusOne /\ MinusOne \in Nat
        BY <2>a, StateFacts
      <4>3. DOMAIN buf = 1 .. Width(message, field)
        BY <2>a DEF TypeOK
      <4>4. Width(message, field) # MinusOne
        BY <4>2
      <4>5. QED
        BY <4>1, <4>3, <4>4 DEF FieldRead
    <3>2. QED
      BY <2>1, <3>1 DEF IInv, ParseCounts
  <2>2. ASSUME ~ torn, parse = "failed" PROVE taken = start \/ print = "closed"
    <3>1. CASE total_read = MinusOne
      BY <2>2, <3>1, <2>a, StateFacts DEF IInv, ParseCounts, FieldRead
    <3>2. CASE total_read # MinusOne
      BY <2>2, <3>2 DEF IInv, ParseEnds
    <3>3. QED
      BY <3>1, <3>2
  <2>3. ASSUME torn PROVE Length(message) > PIPE_BUF
    <3>1. ~ (Length(message) <= PIPE_BUF)
      BY <2>3 DEF IInv, ReadsFields, Small
    <3>2. Length(message) \in Nat /\ PIPE_BUF \in Nat
      BY <2>a, StateFacts, SizesAssumption
    <3>3. QED
      BY <3>1, <3>2
  <2>4. QED
    BY <2>1, <2>2, <2>3 DEF ParseIsWhole
<1>2. QED
  BY <1>1, InitIInv, NextIInv, PTL DEF Spec

(* pipe_print returns 0 with the whole message in the pipe or nobody to    *)
(* read it, and 1 with nothing of it in the pipe.                          *)
THEOREM PrintCorrect == Spec => PrintIsWhole
<1>1. IInv /\ [Next]_vars =>
        [print = "loop" /\ print' = "out" =>
           \/ print_result' = 0 /\ (parse = "gone" \/ written = begun + Length(message))
           \/ print_result' = 1 /\ written = begun]_vars
  <2> SUFFICES ASSUME IInv, [Next]_vars, print = "loop", print' = "out"
               PROVE  \/ print_result' = 0 /\ (parse = "gone" \/ written = begun + Length(message))
                      \/ print_result' = 1 /\ written = begun
    OBVIOUS
  <2>a. TypeOK /\ Counters
    BY DEF IInv
  <2>1. CASE PrintReturns
    <3>1. print_result' = 0 /\ ~ (total_written < Length(message))
      BY <2>1 DEF PrintReturns, Printing, Return
    <3>2. ASSUME parse # "gone" PROVE written = begun + Length(message)
      <4>1. total_written # MinusOne /\ written = begun + total_written
        BY <3>2 DEF IInv, PrintCounts
      <4>2. total_written = Length(message)
        BY <3>1, <4>1, <2>a, StateFacts DEF TypeOK
      <4>3. QED
        BY <4>1, <4>2
    <3>3. QED
      BY <3>1, <3>2
  <2>2. CASE WriteInterrupted
    <3>1. /\ print_result' = 1 /\ total_written < Length(message) /\ parse # "gone"
          /\ kind # "answer"
      BY <2>2 DEF WriteInterrupted, Printing, Return
    <3>2. total_written = 0
      BY <3>1, <2>a, StateFacts DEF IInv, WritesWhole
    <3>3. written = begun + 0
      BY <3>1, <3>2 DEF IInv, PrintCounts
    <3>4. QED
      BY <3>1, <3>3, <2>a, StateFacts
  <2>3. CASE ~ (PrintReturns \/ WriteInterrupted)
    <3>1. CASE Call \/ Write \/ WriteFails \/ Close
      BY <3>1 DEF Call, Write, WriteFails, Close
    <3>2. CASE Read \/ ParseReturns \/ ReadInterrupted \/ NextField \/ Leave
      BY <3>2, ReaderSpares DEF writer
    <3>3. CASE UNCHANGED vars
      BY <3>3 DEF vars, writer
    <3>4. QED
      BY <2>3, <3>1, <3>2, <3>3 DEF Next, PipePrint, PipeParse
  <2>4. QED
    BY <2>1, <2>2, <2>3
<1>2. QED
  BY <1>1, InitIInv, NextIInv, PTL DEF Spec, PrintIsWhole
===============================================================================
