------------------------------- MODULE MCJobPool -------------------------------
(***************************************************************************)
(* An instance of JobPool for TLC.                                         *)
(***************************************************************************)
EXTENDS JobPool

CONSTANTS a, b, c, d, out

(* No limit, one child at a time, and limits below the number of files.    *)
Arguments == -1 .. 2
===============================================================================
