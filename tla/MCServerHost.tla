----------------------------- MODULE MCServerHost -----------------------------
(***************************************************************************)
(* An instance of ServerHost for TLC.                                      *)
(***************************************************************************)
EXTENDS ServerHost

CONSTANTS host, w1

(* The second signal of a kind is the one that may find no handler.        *)
Twice == [s \in Signals |-> 2]
===============================================================================
