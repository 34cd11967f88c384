----------------------------- MODULE MCTransfer -----------------------------
(***************************************************************************)
(* Constants for the model-checking runs of Transfer.                      *)
(***************************************************************************)
EXTENDS Transfer

CONSTANTS c1, c2

\* The server's tree and one upload exceed the buffers, the clients' trees fit.
SmallTrees == [c \in Clients |-> Cap]
OneUpload == [c \in Clients |-> IF c = c1 THEN <<"create", "data", "delete">> ELSE <<>>]

=============================================================================
