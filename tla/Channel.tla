------------------------------ MODULE Channel ------------------------------
(***************************************************************************)
(* What a session relies on in one direction of a connection: messages     *)
(* arrive whole, in the order in which they were sent, each of them once;  *)
(* when the connection is lost a suffix of what was under way is lost with *)
(* it.  FileSync models a connection in this way; Wire implements it.      *)
(***************************************************************************)
EXTENDS Naturals, Sequences

CONSTANT Messages

VARIABLES open,   \* the connection is there
          q,      \* messages under way
          got     \* messages received

vars == <<open, q, got>>

Init == open = TRUE /\ q = <<>> /\ got = <<>>

Send(m) ==
  /\ open
  /\ q' = Append(q, m)
  /\ UNCHANGED <<open, got>>

Receive ==
  /\ q # <<>>
  /\ got' = Append(got, Head(q))
  /\ q' = Tail(q)
  /\ UNCHANGED open

Cut ==
  /\ open
  /\ open' = FALSE
  /\ \E k \in 0 .. Len(q) : q' = SubSeq(q, 1, k)
  /\ UNCHANGED got

Next == (\E m \in Messages : Send(m)) \/ Receive \/ Cut

Spec == Init /\ [][Next]_vars

=============================================================================
