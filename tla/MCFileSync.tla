----------------------------- MODULE MCFileSync -----------------------------
(***************************************************************************)
(* Constants for the model-checking runs of FileSync.                      *)
(***************************************************************************)
EXTENDS FileSync, TLC

CONSTANTS a, b, c1, c2, srvHost, m644

OnePath == {a}
TwoPaths == {a, b}

Contents == Seq(Nat)
SameLine == [p \in Paths |-> p]

\* Bounds of a run, in the order edit, drop, tick, crash, stop, connect.
Bounds(e, d, t, k, o, n) ==
  "edit" :> e @@ "drop" :> d @@ "tick" :> t @@ "crash" :> k @@ "stop" :> o @@ "connect" :> n

\* Files that exist before the first start: equal times mean equal content.
Empty == {}
OneVersion == {File(<<1>>, 1)}
TwoVersions == {File(<<1>>, 1), File(<<2>>, 2)}

\* No definition tells two paths or two clients apart.
Symmetry == Permutations(Paths) \cup Permutations(Clients)

EditsTicks == Bounds(3, 0, 2, 0, 0, 2)
OneTick == Bounds(0, 0, 1, 0, 0, 1)
TwoEditsStop == Bounds(2, 0, 0, 0, 1, 2)
EditDropTick == Bounds(1, 1, 1, 0, 0, 2)
Restarts == Bounds(0, 0, 0, 1, 1, 5)

=============================================================================
