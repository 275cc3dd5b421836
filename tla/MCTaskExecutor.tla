--------------------------- MODULE MCTaskExecutor ---------------------------
(* Small jobs for TaskExecutor: their tasks, and the results tasks may have. *)
EXTENDS TaskExecutorProperties, TLC
CONSTANTS taskA, taskB, taskC, taskX, taskY, taskZ, exec1, exec2, exec3

Small(tasks) == [t \in tasks |-> {"small"}]

(* Three leaves, of which one is big, and two roots: a fan-in of two of the  *)
(* leaves and one of all three.                                              *)
TripleTasks == {taskA, taskB, taskC, taskX, taskY}
TripleDeps == (taskA :> {}) @@ (taskB :> {}) @@ (taskC :> {}) @@ (taskX :> {taskA, taskB})
              @@ (taskY :> {taskA, taskB, taskC})
TripleBecome == (taskA :> taskX) @@ (taskB :> taskY) @@ (taskC :> taskY)
TripleResults == (taskA :> {"big"}) @@ Small(TripleTasks)

(* Two leaves, two fan-ins over both, and a root over the fan-ins.           *)
LadderTasks == {taskA, taskB, taskX, taskY, taskZ}
LadderDeps == (taskA :> {}) @@ (taskB :> {}) @@ (taskX :> {taskA, taskB})
              @@ (taskY :> {taskA, taskB}) @@ (taskZ :> {taskX, taskY})
LadderBecome == (taskA :> taskX) @@ (taskB :> taskX) @@ (taskX :> taskZ) @@ (taskY :> taskZ)

(* One leaf is big; a fan-in may fail or return None.                        *)
LadderResults ==
    (taskB :> {"big"}) @@ (taskX :> {"small", "error"}) @@ (taskY :> {"small", "none"})
    @@ Small(LadderTasks)
(* Both leaves may be big and share a prefix, as the outputs of one map do;  *)
(* a fan-in may fail.                                                        *)
LadderPrefixResults ==
    (taskA :> {"small", "big"}) @@ (taskB :> {"small", "big"}) @@ (taskX :> {"small", "error"})
    @@ Small(LadderTasks)
LadderPrefix == {taskA, taskB} \X {taskA, taskB}

(* A root taskX over two leaves.                                             *)
JoinTasks == {taskA, taskB, taskX}
JoinDeps == (taskA :> {}) @@ (taskB :> {}) @@ (taskX :> {taskA, taskB})
JoinBecome == (taskA :> taskX) @@ (taskB :> taskX)
JoinResults == (taskB :> {"big"}) @@ Small(JoinTasks)
=============================================================================
