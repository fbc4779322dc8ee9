--------------------------- MODULE MCEmsOperations ---------------------------
(***************************************************************************)
(* Instances of EmsOperations for TLC: events of two seats, and requests   *)
(* that want both seats, the last one first, or a seat that does not exist. *)
(***************************************************************************)
EXTENDS EmsOperations, TLC

CONSTANTS w1, w2

OneEvent == {1}
TwoEvents == {1, 2}

TwoSeats == {<<1, 2>>}

Both == {<< <<1, 2>>, <<1, 1>> >>}
Mixed == Both \cup {<< <<1, 1>>, <<1, 3>> >>}

Sessions == Permutations({w1, w2})
===============================================================================
