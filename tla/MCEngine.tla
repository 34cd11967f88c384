------------------------------ MODULE MCEngine ------------------------------
(***************************************************************************)
(* Constants for the model-checking runs of Engine.                        *)
(***************************************************************************)
EXTENDS Engine, TLC

CONSTANTS a, b, w1, w2, sig, h, m

OnePath == {a}
TwoPaths == {a, b}
MCEntry(t) == [type |-> "file", mtime |-> t, hash |-> h, mode |-> m]

OneFile == {MCEntry(1)}

NoTrees == {}
SomeTrees == {[p \in Paths |-> MCEntry(1)]}

\* No path begins or ends in a blank.
SameLine == [p \in Paths |-> p]

=============================================================================
