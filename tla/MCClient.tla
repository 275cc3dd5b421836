------------------------------ MODULE MCClient ------------------------------
(* Small graphs for ClientFutures.                                           *)
EXTENDS ClientFutures

(* A task and one that depends on it, submitted together or one by one.      *)
ChainDeps == [k \in Keys |-> IF k = "y" THEN {"x"} ELSE {}]
ChainGraphs == {{"x"}, {"y"}, {"x", "y"}}
=============================================================================
