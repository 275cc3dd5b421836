---------------------------- MODULE DagExecution ----------------------------
(* What a Wukong job promises its client, with no Executor, no Redis and no  *)
(* Scheduler in sight: a job is a DAG of tasks, every task runs at most once *)
(* and never before the tasks it depends on.  FanIn (the dependency counter  *)
(* protocol) implements this specification.                                  *)
EXTENDS Naturals

CONSTANTS Tasks,  \* the keys of the job's tasks
          Deps    \* Deps[t]: task_payload["dependencies"] of task t

VARIABLE runs     \* runs[t]: how many times the code of task t has been run

Init == runs = [t \in Tasks |-> 0]

(* Run one task, for the first time, after everything it depends on. *)
Run(t) ==
    /\ runs[t] = 0
    /\ \A d \in Deps[t] : runs[d] # 0
    /\ runs' = [runs EXCEPT ![t] = 1]

Next == \E t \in Tasks : Run(t)

Spec == Init /\ [][Next]_runs
=============================================================================
