------------------------------- MODULE MCWire -------------------------------
(***************************************************************************)
(* Constants for the model-checking run of Wire: two byte values, so that *)
(* lengths use both of their bytes and every byte of a payload could be    *)
(* taken for a type or a length; type 1 has a payload, type 0 has none.    *)
(***************************************************************************)
EXTENDS Wire

CONSTANTS w1, w2

Ping == [type |-> 0, body |-> <<>>]
Text(body) == [type |-> 1, body |-> body]

ShortLongAndTooLarge == {Ping, Text(<<1>>), Text(<<0, 1>>), Text(<<1, 1, 1>>)}

=============================================================================
