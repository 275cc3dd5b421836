----------------------- MODULE TaskExecutorProperties -----------------------
(* What the Task Executors guarantee together, and the refinement that shows *)
(* that their counters implement the fan-in protocol of module FanIn.        *)
EXTENDS TaskExecutor

(* The places where an Executor is committed to executing t, plus the times  *)
(* it was executed.                                                          *)
Claims(t) ==
    runs[t] + Cardinality({i \in pending : i.key = t})
            + Cardinality({e \in Executors : At(e, "task") /\ ex[e].cur = t})
            + Cardinality({e \in Executors : ex[e].become = t})
            + Cardinality({e \in Executors : t \in ex[e].ready})

(* A failed invocation that AWS runs again executes its task and everything  *)
(* that follows from it again, and counts their out-edges again: nothing in  *)
(* the code notices.  What is affected by the reruns so far are the tasks    *)
(* that follow from their keys; no other task may be.                        *)
NoRerun == rerun = {}
Following ==
    [k \in Tasks |-> {t \in Tasks : \A S \in SUBSET Tasks :
        (k \in S /\ \A s \in S : Downstream(s) \subseteq S) => t \in S}]
Affected == UNION {Following[k] : k \in rerun}
Unaffected == Tasks \ Affected

(* The edges <<d, t>> an Executor that ran d has still to count or use up.   *)
HeldBy(x) ==
    {g \in Tasks \X Tasks :
        \/ g[1] \in x.nodes /\ g[2] \in Downstream(g[1])
        \/ g[1] = x.node /\ g[2] \in x.edges
        \/ g = <<x.node, x.edge>> /\ x.pc \in {"bigStore", "bigIncr"}
        \/ \E i \in x.queue : g = <<i.large, i.task>>
        \/ \E i \in x.notReady : /\ x.pc \in {"queueGet", "queueBook"}
                                 /\ g = <<i.large, i.task>>}
(* The edges of a task that raised an error are never counted.               *)
Held == UNION {HeldBy(ex[e]) : e \in Executors}
            \cup {g \in Failing \X Tasks : runs[g[1]] > 0 /\ g[2] \in Downstream(g[1])}

(* The task whose code the container runs in its next step, if any.          *)
AboutToRun(x) ==
    IF x.pc = "task" THEN {x.cur}
    ELSE IF x.pc \in {"pull", "queueExec", "giveExec"} THEN x.ready ELSE {}
-----------------------------------------------------------------------------
(* However the GETs and INCRs of the Executors on one counter interleave, at *)
(* most one of them takes the fan-in task, and no task is run twice: not as  *)
(* a become node, not by an invocation, not pulled down behind a big task,   *)
(* not from a task queue.  A rerun changes this only for the tasks that      *)
(* follow from its key.                                                      *)
NoDoubleExecution == \A t \in Unaffected : Claims(t) <= 1

(* No dependency is counted twice, book-keeping increments included: "no     *)
(* other task should look at it" (process_big) would otherwise be false.     *)
NoOverCount ==
    \A t \in Unaffected : counter[t] <= NumDeps(t) /\ counter[t] = Cardinality(
                        {d \in Deps[t] : <<d, t>> \in counted})

(* A task is only started when each of its inputs is in previous_results or  *)
(* in Redis, so get_data_from_redis never runs into a missing dependency,    *)
(* although become edges are never counted, big outputs may never be written *)
(* and cached outputs are evicted.                                           *)
InputsAvailable ==
    \A e \in Executors : \A t \in AboutToRun(ex[e]) \cap Unaffected :
        Deps[t] \subseteq ex[e].prev \cup Readable

(* An Executor whose path ends early because of an error leaves its task     *)
(* queue behind; the next two properties are about jobs without errors.      *)
NoErrors == Failing \cup NoneTasks = {}

(* With a task queue, the only inputs that can be missing are big outputs    *)
(* whose Executor has just given up waiting (process_enqueued_tasks_looped)  *)
(* and is about to write them.  This needs that no container ends with tasks *)
(* in its queue, and that an Executor that gives up never runs a task whose  *)
(* other input is being given up by another (it would fail, and leave what   *)
(* it has counted unwritten): so it is in the graphs of the runs.            *)
BeingGivenUp ==
    {t \in Tasks : \E e \in Executors : \E i \in ex[e].notReady :
        i.large = t /\ ex[e].pc \in {"giveUp", "giveExec", "giveStore"}}
OnlyGivenUpInputsMissing ==
    NoErrors => \A e \in Executors : \A t \in AboutToRun(ex[e]) \cap Unaffected :
        Deps[t] \subseteq ex[e].prev \cup Readable \cup BeingGivenUp

(* When the Scheduler hears of a result, the result is in dcp_redis, and the *)
(* tasks it was computed from were all run.                                  *)
ResultBeforeMessage ==
    \A t \in Tasks : <<"lambda-result", t>> \in msgs =>
        /\ t \in final
        /\ \A d \in Deps[t] \cup {t} : runs[d] >= 1 /\ (d \in Unaffected => runs[d] = 1)

(* An Executor that keeps a task waiting in its task queue for a big output  *)
(* that was never written still has this output: the eviction of             *)
(* process_out_edges spares it.  This needs that no container ends with      *)
(* tasks in its queue, as one that became a root may (the graphs of the runs *)
(* have one root that every task leads to).                                  *)
WaitedForOutputKept ==
    NoErrors => \A e \in Executors : \A i \in ex[e].queue \cup ex[e].notReady :
        i.large \in ex[e].prev \cup store

(* After an error nothing downstream of the failed task runs.                *)
NoRunAfterError ==
    \A t \in Unaffected : runs[t] > 0 => \A d \in Deps[t] : d \notin Failing

(* "The final result(s) of a workload will be stored within the MDS": once a *)
(* root has run, its output gets into dcp_redis.                             *)
RootResultStored == \A r \in Roots : runs[r] > 0 ~> r \in final

(* Every job comes to an end the Scheduler hears of: the result of every     *)
(* root is eventually published, or the error of a task that raised one.     *)
JobReported ==
    <>(\/ \A r \in Roots : <<"lambda-result", r>> \in msgs
       \/ \E t \in Failing : <<"task-erred", t>> \in msgs)
-----------------------------------------------------------------------------
(* Without a task queue the Executors implement the fan-in protocol: what is *)
(* proved of FanIn holds of them.                                            *)
Protocol == INSTANCE FanIn
    WITH stored <- store, held <- Held, claims <- [t \in Tasks |-> Claims(t)]

FanInSpec == Protocol!Spec
=============================================================================
