------------------------------ MODULE MCPcQueue ------------------------------
(***************************************************************************)
(* An instance of PcQueue for TLC: the host, two workers, two clients.     *)
(***************************************************************************)
EXTENDS PcQueue

CONSTANTS host, w1, w2, e1, e2
===============================================================================
