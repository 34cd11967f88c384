----------------------------- MODULE MCMonitor ------------------------------
(***************************************************************************)
(* Constants for the model-checking runs of Monitor.                       *)
(***************************************************************************)
EXTENDS Monitor

CONSTANTS f, d

InDirectory == [p \in Paths |-> IF p = f THEN d ELSE Root]

=============================================================================
