----------------------------- MODULE LeafReuse ------------------------------
(* Reuse of leaf Executors (the Scheduler's reuse_lambdas): the Executor of  *)
(* a leaf task does not end with its job but polls an iteration counter in   *)
(* Redis.  When a later job has the same leaf, the Scheduler stores the new  *)
(* path and increments the counter instead of invoking another Executor.     *)
(* The protocol is run for each leaf by itself, so there is one leaf here.   *)
EXTENDS Integers

CONSTANTS Executors,    \* the Lambda containers
          MaxJobs,      \* bound: the number of jobs submitted
          Retries       \* how often AWS retries an invocation whose handler raised

ASSUME LeafReuseAssumption ==
    /\ MaxJobs \in Nat
    /\ Retries \in Nat

Jobs == 1..MaxJobs
NoCounter == -2            \* dcp_redis.get answers None

VARIABLES job,        \* the number of jobs submitted so far
          storing,    \* update_graph has stored the path, the leaf is to be triggered
          seen,       \* seen_leaf_tasks[leaf]
          iteration,  \* the Redis integer "<leaf>---iteration"
          path,       \* the job whose path is at "<leaf>---path"
          value,      \* the Redis value at "<leaf>": "none", "output" or "stop"
          pending,    \* invocations not started
          ex,         \* ex[e]: the state of container e
          executed,   \* executed[j]: how often the leaf's path of job j was processed
          history     \* which of Events have happened (auxiliary)

(* A job is submitted before the last one was executed; workload_finished is *)
(* called; an Executor's polling reaches its time limit.                     *)
Events == {"overlap", "finish", "timeout"}

(* An accepted invocation: of which job, whether its payload has the path in *)
(* it, and how often AWS would still retry it.                               *)
Invocation == [job : Jobs, direct : BOOLEAN, left : 0..Retries]
NoEvent == [job |-> 0, direct |-> FALSE, left |-> 0]

scheduler == <<job, storing, seen>>
redis == <<iteration, path, value>>
vars == <<scheduler, redis, pending, ex, executed, history>>

(* A container: where it is, the event it was started with, the job whose    *)
(* path it has, and the local variables counter_value and reused.            *)
Container ==
    [pc : {"idle", "path", "counter", "process", "poll"},
     event : Invocation \cup {NoEvent},
     job : 0..MaxJobs,
     counter : {NoCounter} \cup 0..MaxJobs,
     reused : BOOLEAN]
Idle == [pc |-> "idle", event |-> NoEvent, job |-> 0, counter |-> NoCounter, reused |-> FALSE]

TypeOK ==
    /\ job \in 0..MaxJobs
    /\ storing \in BOOLEAN
    /\ seen \in BOOLEAN
    /\ iteration \in {NoCounter} \cup 0..MaxJobs
    /\ path \in 0..MaxJobs
    /\ value \in {"none", "output", "stop"}
    /\ pending \subseteq Invocation
    /\ ex \in [Executors -> Container]
    /\ executed \in [Jobs -> Nat]
    /\ history \subseteq Events

Init ==
    /\ job = 0 /\ storing = FALSE /\ seen = FALSE
    /\ iteration = NoCounter /\ path = 0 /\ value = "none"
    /\ pending = {}
    /\ ex = [e \in Executors |-> Idle]
    /\ executed = [j \in Jobs |-> 0]
    /\ history = {}

At(e, pc) == ex[e].pc = pc
Becomes(e, x) == ex' = [ex EXCEPT ![e] = x]
-----------------------------------------------------------------------------
(* The Scheduler.                                                            *)

(* update_graph: store the paths of a new job.  An iterative workload waits  *)
(* for a job before it submits the next one; a client need not.              *)
StorePath ==
    /\ job < MaxJobs
    /\ ~storing
    /\ job' = job + 1
    /\ path' = job + 1
    /\ storing' = TRUE
    /\ history' = IF job > 0 /\ executed[job] = 0 THEN history \cup {"overlap"} ELSE history
    /\ UNCHANGED <<seen, iteration, value, pending, ex, executed>>

(* update_graph, for a leaf it has not seen: reset its counter and invoke an *)
(* Executor, with the path in the payload unless it is too large.            *)
InvokeLeaf ==
    /\ storing
    /\ ~seen
    /\ iteration' = 0
    /\ \E direct \in BOOLEAN :
          pending' = pending \cup {[job |-> job, direct |-> direct, left |-> Retries]}
    /\ seen' = TRUE
    /\ storing' = FALSE
    /\ UNCHANGED <<job, path, value, ex, executed, history>>

(* update_graph, for a leaf it has seen: only increment the counter.         *)
ReuseLeafSilently ==  \* mistake: the counter is not incremented
    /\ storing /\ seen
    /\ storing' = FALSE
    /\ UNCHANGED <<job, seen, redis, pending, ex, executed, history>>
ReuseLeaf ==
    /\ storing /\ seen
    /\ iteration' = iteration + 1
    /\ storing' = FALSE
    /\ UNCHANGED <<job, seen, path, value, pending, ex, executed, history>>

(* workload_finished: "-1 tells all Lambdas to stop", but it is written to   *)
(* the key of the leaf itself, not to its iteration counter.                 *)
WorkloadFinished ==
    /\ ~storing
    /\ seen
    /\ value' = "stop"
    /\ seen' = FALSE
    /\ history' = history \cup {"finish"}
    /\ UNCHANGED <<job, storing, iteration, path, pending, ex, executed>>
-----------------------------------------------------------------------------
(* An Executor.                                                              *)

(* lambda_handler: start on an invocation.                                   *)
Start(e) ==
    /\ At(e, "idle")
    /\ \E i \in pending :
          /\ pending' = pending \ {i}
          /\ Becomes(e, IF i.direct
                        THEN [Idle EXCEPT !.pc = "counter", !.event = i, !.job = i.job]
                        ELSE [Idle EXCEPT !.pc = "path", !.event = i])
    /\ UNCHANGED <<scheduler, redis, executed, history>>

(* task_executor: read the leaf's path, ...                                  *)
GetPath(e) ==
    /\ At(e, "path")
    /\ Becomes(e, [ex[e] EXCEPT !.pc = "counter", !.job = path])
    /\ UNCHANGED <<scheduler, redis, pending, executed, history>>

(* ... read the iteration counter (the first time only: after a reuse the    *)
(* value is compared with the one known, and a difference is logged), ...    *)
FirstCounter(x) == IF x.reused THEN x.counter ELSE iteration

ReadCounter(e) ==
    /\ At(e, "counter")
    /\ Becomes(e, [ex[e] EXCEPT !.pc = "process", !.counter = FirstCounter(ex[e])])
    /\ UNCHANGED <<scheduler, redis, pending, executed, history>>

(* ... and process the path, which publishes the results of the job.         *)
ProcessPath(e) ==
    /\ At(e, "process")
    /\ executed' = [executed EXCEPT ![ex[e].job] = @ + 1]
    /\ value' = "output"
    /\ Becomes(e, [ex[e] EXCEPT !.pc = "poll"])
    /\ UNCHANGED <<scheduler, iteration, path, pending, history>>

(* lambda_handler: poll the iteration counter.  A counter that "got SMALLER" *)
(* is only logged.  The value -1, a 'stop' operation, never occurs: see      *)
(* WorkloadFinished.                                                         *)
ReactKeepsCounter(x) == [x EXCEPT !.pc = "path", !.reused = TRUE]  \* mistake
React(x) == [x EXCEPT !.pc = "path", !.counter = iteration, !.reused = TRUE]

Poll(e) ==
    /\ At(e, "poll")
    /\ iteration > ex[e].counter
    /\ Becomes(e, React(ex[e]))
    /\ UNCHANGED <<scheduler, redis, pending, executed, history>>

(* The end of lambda_handler: pubsub is None, so pubsub.unsubscribe raises   *)
(* for every Executor that has a channel, as a reusable one does.  AWS       *)
(* retries an asynchronous invocation that failed with the same event.       *)
HandlerRaises(e) ==
    LET i == ex[e].event
    IN  /\ pending' = IF i.left > 0 THEN pending \cup {[i EXCEPT !.left = @ - 1]} ELSE pending
        /\ Becomes(e, Idle)

(* The 60 seconds of polling are over.                                       *)
TimeOut(e) ==
    /\ At(e, "poll")
    /\ HandlerRaises(e)
    /\ history' = history \cup {"timeout"}
    /\ UNCHANGED <<scheduler, redis, executed>>

Step(e) == GetPath(e) \/ ReadCounter(e) \/ ProcessPath(e) \/ Poll(e)

Next ==
    \/ StorePath \/ InvokeLeaf \/ ReuseLeaf \/ WorkloadFinished
    \/ \E e \in Executors : Start(e) \/ Step(e) \/ TimeOut(e)

Spec == Init /\ [][Next]_vars

(* update_graph runs to its end, AWS starts accepted invocations, and a      *)
(* running Executor keeps polling; nobody has to submit jobs.                *)
FairSpec ==
    /\ Spec
    /\ WF_vars(InvokeLeaf \/ ReuseLeaf)
    /\ WF_vars(\E e \in Executors : Start(e))
    /\ \A e \in Executors : WF_vars(Step(e))
-----------------------------------------------------------------------------
(* One iterative workload so far, without a retry: every job was submitted   *)
(* after the last one had been executed, workload_finished was not called,   *)
(* and no Executor that timed out is run again by AWS.                       *)
Sequential == history \subseteq {"timeout"} /\ (Retries = 0 \/ history = {})

(* A job's path is processed by one Executor only: an invocation and a       *)
(* reaction to the counter, or the reactions of two Executors, never both    *)
(* happen for the same job.                                                  *)
EachJobOnce == Sequential => \A j \in Jobs : executed[j] <= 1

(* An Executor that still polls has seen every job or will see it: unless    *)
(* the Scheduler is between storing the path and triggering, the counter of  *)
(* a polling Executor is below the Redis counter as long as the last job is  *)
(* not executed.                                                             *)
PollerWillReact ==
    Sequential => \A e \in Executors : At(e, "poll") /\ ~storing /\ executed[job] = 0 =>
        iteration > ex[e].counter

(* Why this is so: at most one invocation or Executor is there for the leaf, *)
(* ...                                                                       *)
OneAgent ==
    /\ \A e, f \in Executors : ~At(e, "idle") /\ ~At(f, "idle") => e = f
    /\ \A i, k \in pending : i = k
    /\ pending # {} \/ ~seen => \A e \in Executors : At(e, "idle")
    /\ ~seen => pending = {}

(* ... the counter in Redis tells the jobs triggered so far, ...             *)
CounterIsJobs ==
    /\ path = job
    /\ \A j \in Jobs : executed[j] <= 1 /\ (j > job => executed[j] = 0)
    /\ storing => job > 0 /\ executed[job] = 0
    /\ ~seen => (job = 0 /\ ~storing) \/ (job = 1 /\ storing)
    /\ seen => iteration = IF storing THEN job - 2 ELSE job - 1

(* ... and that agent is about to execute the last job, or polls with the    *)
(* counter of the last job it executed.                                      *)
AgentIsCurrent ==
    /\ \A i \in pending : ~storing /\ i.job = job /\ executed[job] = 0
    /\ \A e \in Executors :
          /\ ~At(e, "idle") /\ ~At(e, "poll") => ~storing /\ executed[job] = 0
          /\ At(e, "counter") \/ At(e, "process") => ex[e].job = job
          /\ \/ At(e, "process")
             \/ ex[e].reused /\ (At(e, "path") \/ At(e, "counter"))
             => ex[e].counter = iteration
          /\ At(e, "poll") => iteration = IF storing \/ executed[job] = 1
                                          THEN ex[e].counter ELSE ex[e].counter + 1

(* In any case there is no counter yet, or it counts jobs submitted since    *)
(* the leaf was last invoked.                                                *)
CounterBelowJobs ==
    /\ seen \/ storing => job > 0
    /\ seen => iteration # NoCounter
    /\ iteration # NoCounter => iteration + (IF storing THEN 2 ELSE 1) <= job

ReuseInv ==
    /\ TypeOK
    /\ CounterBelowJobs
    /\ Sequential => OneAgent /\ CounterIsJobs /\ AgentIsCurrent

(* Every job submitted is eventually executed, unless an Executor timed out  *)
(* or jobs overlapped: also if Executors of several workloads poll the same  *)
(* counter.                                                                  *)
AllJobsExecuted ==
    \A j \in Jobs : job >= j ~> executed[j] > 0 \/ history \cap {"timeout", "overlap"} # {}
=============================================================================
