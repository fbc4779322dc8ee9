----------------------------- MODULE MCPipeSession -----------------------------
(***************************************************************************)
(* Instances of PipeSession for TLC.                                       *)
(***************************************************************************)
EXTENDS PipeSession, TLC

CONSTANTS c1, c2, w1, w2

Alone(file, n) ==
  [file |-> c1 :> file, workers |-> {w1}, sigints |-> c1 :> n @@ c2 :> 0]

Both(one, two, n) ==
  [file |-> c1 :> one @@ c2 :> two, workers |-> {w1, w2}, sigints |-> c1 :> 0 @@ c2 :> n]

(* Files of four calls that leave words and descriptors behind for the     *)
(* calls after them, shorter ones for a client that gets SIGINTs, and two  *)
(* clients at a time.                                                      *)
Sessions ==
  { Alone(<<"SHORT", "SHOW", "LIST", "CREATE", "SHOW", "CREATE">>, 0),
    Alone(<<"SHOW", "SHOW", "LIST", "SKIP", "CREATE">>, 0),
    Alone(<<"CREATE", "RESERVE", "LIST", "SHOW">>, 0),
    Alone(<<"CREATE", "SHOW", "CREATE">>, 2),
    Alone(<<"LIST", "CREATE", "SHOW">>, 2),
    Alone(<<"SHORT", "SHORT", "CREATE">>, 1),
    Both(<<"CREATE">>, <<"LIST">>, 0),
    Both(<<>>, <<>>, 2) }

(* The same call three times.                                              *)
Creates == { Alone(<<"CREATE", "CREATE", "CREATE">>, 0) }
===============================================================================
