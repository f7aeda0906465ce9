----------------------------- MODULE MCTeardown -----------------------------
(* Model values for Teardown: the platform's loop, those of the sessions and *)
(* who calls disconnect on which.                                          *)
EXTENDS Teardown, TLC

CONSTANTS p, x, y, c1, c2, t1, t2, t3

TwoLoops   == {p, x}
ThreeLoops == {p, x, y}
TwoCallers == {c1, c2}
TwoTasks   == {t1, t2}
ThreeTasks == {t1, t2, t3}

HomeAndAway == (c1 :> p) @@ (c2 :> x)
Apart       == (c1 :> x) @@ (c2 :> y)

TaskSymmetry == Permutations(Tasks)
=============================================================================
