-------------------------- MODULE MCBatchOperations --------------------------
(***************************************************************************)
(* Instances of BatchOperations for TLC: events of two seats, and          *)
(* reservations of one seat, of both, of both with one that is taken or    *)
(* does not exist behind a free one.                                       *)
(***************************************************************************)
EXTENDS BatchOperations

CONSTANTS t1, t2

Ids == {1, 2}

TwoSeats == {<<1, 2>>}

Lists == {<< <<1, 2>> >>, << <<1, 1>>, <<1, 2>> >>, << <<1, 1>>, <<1, 1>> >>, << <<1, 2>>, <<1, 3>> >>}
===============================================================================
