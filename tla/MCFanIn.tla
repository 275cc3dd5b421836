------------------------------ MODULE MCFanIn -------------------------------
(* FanIn on a DAG with two fan-ins that share their inputs and one that      *)
(* follows: a, b, c are leaves, x needs a and b, y needs a, b and c, z needs *)
(* x and y.                                                                  *)
EXTENDS FanIn, TLC
CONSTANTS a, b, c, x, y, z

MCTasks == {a, b, c, x, y, z}
MCDeps == (a :> {}) @@ (b :> {}) @@ (c :> {})
          @@ (x :> {a, b}) @@ (y :> {a, b, c}) @@ (z :> {x, y})
=============================================================================
