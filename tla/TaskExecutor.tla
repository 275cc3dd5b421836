---------------------------- MODULE TaskExecutor ----------------------------
(* The AWS Lambda Task Executors (function.py): containers that execute the  *)
(* tasks of a DAG, hand tasks to each other through Lambda invocations and   *)
(* agree through Redis on who executes a fan-in task.  One step is the work  *)
(* around one Redis command, one invocation or one task, in the order of the *)
(* code; the steps of different containers interleave.                       *)
(*                                                                           *)
(* Covered: integer dependency counters, small and big outputs, the task     *)
(* queue of big outputs with its retries and giving up, failing tasks,       *)
(* missing inputs, exceptions that nothing catches and the reruns of the     *)
(* failed invocation by AWS, and warm containers, which keep the module      *)
(* globals task_queue and executed_tasks.  Left out: bit counters, the KV    *)
(* Store Proxy, reuse of leaf Executors and lost Redis connections.          *)
(* The lists and FIFO queues of the code are sets, taken in any order.       *)
EXTENDS Naturals, FiniteSets

CONSTANTS Tasks,         \* the keys of the job's tasks
          Deps,          \* Deps[t]: task_payload["dependencies"]
          Become,        \* Become[t]: PathNode.become of a task with dependents
          Results,       \* Results[t]: the results the code of t may have
          SharesPrefix,  \* <<t, d>>: key d starts with key_split(t)
          Executors,     \* the Lambda containers
          MaxTries,      \* max_tries of process_enqueued_tasks_looped
          UseTaskQueue,  \* the path's "executors-use-task-queue"
          UseFargate,    \* outputs go to Fargate Redis, not to dcp_redis
          LambdaDebug,   \* the path's "lambda-debug"
          Retries,       \* how often AWS reruns an event that failed
          None

Downstream(t) == {s \in Tasks : t \in Deps[s]}
Roots == {t \in Tasks : Downstream(t) = {}}
NumDeps(t) == Cardinality(Deps[t])

ASSUME ExecutorAssumption ==
    /\ IsFiniteSet(Tasks)
    /\ Deps \in [Tasks -> SUBSET Tasks]
    /\ \A t \in Tasks \ Roots : Become[t] \in Downstream(t)
    /\ Results \in [Tasks -> SUBSET {"small", "big", "none", "error"}]
    /\ SharesPrefix \subseteq Tasks \X Tasks
    /\ MaxTries \in Nat \ {0} /\ Retries \in Nat
    /\ {UseTaskQueue, UseFargate, LambdaDebug} \subseteq BOOLEAN
    /\ None \notin Tasks

VARIABLES result,   \* result[t]: what the code of t does on this job's data
          ex,       \* ex[e]: the state of container e
          counter,  \* counter[t]: the Redis integer "<t>---dep-counter"
          counted,  \* edges <<d, t>> whose increment has been done (auxiliary)
          store,    \* outputs written by store_value_in_redis
          final,    \* outputs of roots written to dcp_redis
          pending,  \* Lambda invocations not yet started
          rerun,    \* the keys of the events AWS has queued again (auxiliary)
          msgs,     \* messages published to the Scheduler
          runs      \* runs[t]: how often the code of t was run (auxiliary)

redis == <<counter, counted, store, final>>
vars == <<result, ex, redis, pending, rerun, msgs, runs>>

(* The tasks whose output reaches "big-task-threshold", whose code raises an *)
(* exception, and whose code returns None.                                   *)
Big == {t \in Tasks : result[t] = "big"}
Failing == {t \in Tasks : result[t] = "error"}
NoneTasks == {t \in Tasks : result[t] = "none"}

(* An event of type "Event", with AWS's count of its failures.  An event is  *)
(* in one place: in pending, or with the container it runs in.               *)
Invocation == [key : Tasks, by : Tasks \cup {None}, data : SUBSET Tasks,
               attempt : 0..Retries]
Message == {"executing-task", "executed-task", "task-erred", "lambda-result"} \X Tasks
Delayed == [task : Tasks, large : Tasks]     \* DelayedProcessingNode

Pcs == {"idle", "task", "next", "peek", "store", "edges", "evict", "invoke",
        "bigGet", "bigBook", "bigStore", "bigIncr", "bigDone", "pull", "pullSet",
        "pullMsg", "rootSet", "rootMsg", "save", "queueGet", "queueBook",
        "queueExec", "giveUp", "giveExec", "giveStore"}

Container ==
    [pc       : Pcs,
     event    : Invocation \cup {None},
     cur      : Tasks \cup {None},   \* current_path_node
     become   : Tasks \cup {None},   \* become_node
     nodes    : SUBSET Tasks,        \* nodes_to_process
     noValue  : SUBSET Tasks,        \* the executed tasks whose value is None
     cached   : SUBSET Tasks,        \* those whose data_written flag is set
     node     : Tasks \cup {None},   \* node_processing
     edges    : SUBSET Tasks,        \* out_edges still to process
     edge     : Tasks \cup {None},   \* the out_edge or task in hand
     written  : BOOLEAN,             \* current_data_written
     ready    : SUBSET Tasks,        \* ready_to_invoke, tasks_pulled_down, ready_tasks
     notReady : SUBSET Delayed,      \* still_not_ready
     looped   : BOOLEAN,             \* in process_enqueued_tasks_looped
     tries    : 0..MaxTries + 1,     \* num_tries
     prev     : SUBSET Tasks,        \* the keys of previous_results
     executed : SUBSET Tasks,        \* executed_tasks (module global)
     queue    : SUBSET Delayed]      \* task_queue (module global)

TypeOK ==
    /\ result \in [Tasks -> {"small", "big", "none", "error"}]
    /\ ex \in [Executors -> Container]
    /\ counter \in [Tasks -> Nat]
    /\ counted \subseteq Tasks \X Tasks
    /\ store \subseteq Tasks /\ final \subseteq Tasks
    /\ pending \subseteq Invocation /\ rerun \subseteq Tasks
    /\ msgs \subseteq Message
    /\ runs \in [Tasks -> Nat]

(* A container between two invocations: only the module globals survive. *)
Idle(queue, executed) ==
    [pc |-> "idle", event |-> None, cur |-> None, become |-> None, nodes |-> {}, noValue |-> {}, cached |-> {},
     node |-> None, edges |-> {}, edge |-> None, written |-> FALSE, ready |-> {},
     notReady |-> {}, looped |-> FALSE, tries |-> 0, prev |-> {},
     executed |-> executed, queue |-> queue]

Return(x) == Idle(x.queue, x.executed)

(* The Scheduler has stored the counters and invoked an Executor per leaf. *)
Init ==
    /\ result \in [Tasks -> UNION {Results[t] : t \in Tasks}]
    /\ \A t \in Tasks : result[t] \in Results[t]
    /\ ex = [e \in Executors |-> Idle({}, {})]
    /\ counter = [t \in Tasks |-> 0]
    /\ counted = {} /\ store = {} /\ final = {} /\ msgs = {} /\ rerun = {}
    /\ pending = [key : {t \in Tasks : Deps[t] = {}}, by : {None}, data : {{}},
                   attempt : {0}]
    /\ runs = [t \in Tasks |-> 0]

At(e, pc) == ex[e].pc = pc
Becomes(e, x) == ex' = [ex EXCEPT ![e] = x]

(* lambda_handler raises: the container survives with its module globals.    *)
(* AWS queues the event again unless it has failed too often.                *)
Fail(e, x) ==
    /\ Becomes(e, Return(x))
    /\ IF x.event.attempt < Retries
       THEN /\ pending' = pending \cup {[x.event EXCEPT !.attempt = @ + 1]}
            /\ rerun' = rerun \cup {x.event.key}
       ELSE UNCHANGED <<pending, rerun>>

(* The container goes on, or fails.                                          *)
BecomesUnless(failing, e, x, y) ==
    IF failing THEN Fail(e, x) ELSE Becomes(e, y) /\ UNCHANGED <<pending, rerun>>
-----------------------------------------------------------------------------
(* Redis as the Executors use it.                                            *)

(* check_dependency_counter(increment = False) *)
IsReady(t) == counter[t] = NumDeps(t) - 1

(* dcp_redis.incr, and check_dependency_counter(increment = True) *)
IncrRetried(d, t) ==  \* mistake: a retry after a lost answer counts again
    /\ counter' = [counter EXCEPT ![t] = @ + 2]
    /\ counted' = counted \cup {<<d, t>>}
    /\ UNCHANGED <<store, final>>
Incr(d, t) ==
    /\ counter' = [counter EXCEPT ![t] = @ + 1]
    /\ counted' = counted \cup {<<d, t>>}
    /\ UNCHANGED <<store, final>>
IncrIsReadyStale(t) == counter[t] = NumDeps(t)  \* mistake: the value before
IncrIsReady(t) == counter[t] + 1 = NumDeps(t)

(* store_value_in_redis; writing again what is there changes nothing *)
StoreValue(t) == store' = store \cup {t} /\ UNCHANGED <<counter, counted, final>>
SetFinalFails(t) == UNCHANGED redis  \* mistake: a failed write goes unnoticed
SetFinal(t) == final' = final \cup {t} /\ UNCHANGED <<counter, counted, store>>

Publish(ops, t) == msgs' = msgs \cup {<<op, t>> : op \in ops}
Debug(op) == IF LambdaDebug THEN {op} ELSE {}

(* What get_data_from_redis finds, and what dcp_redis.exists finds. *)
Readable == store \cup final
InDcpRedis == IF UseFargate THEN final ELSE store \cup final
-----------------------------------------------------------------------------
(* process_task.  "cached": t was executed before in this invocation.        *)
(* "missing": an input is neither in previous_results nor in Redis.          *)
(* get_data_from_redis then raises if outputs are in Fargate Redis, and      *)
(* returns None otherwise, for which process_task returns an error.          *)
Outcome(x, t) ==
    CASE t \in x.prev -> "cached"
      [] t \notin x.prev /\ ~(Deps[t] \subseteq x.prev \cup Readable) -> "missing"
      [] OTHER -> IF t \in Failing THEN "erred" ELSE "ok"

HasResult(x, t) == Outcome(x, t) \in {"ok", "cached"}

Raises(x, t) == UseFargate /\ Outcome(x, t) = "missing"

(* What running t leaves in the container. *)
Ran(x, t) ==
    IF Outcome(x, t) \in {"missing", "cached"} THEN x
    ELSE [x EXCEPT !.prev = @ \cup Deps[t],
                   !.executed = IF t \in Failing THEN @ ELSE @ \cup {t}]

(* The messages and the (auxiliary) count of a run of t.                     *)
ProcessTask(x, t) ==
    /\ runs' = [runs EXCEPT ![t] = IF Outcome(x, t) \in {"missing", "cached"} THEN @ ELSE @ + 1]
    /\ Publish(CASE Outcome(x, t) \in {"missing", "cached"} -> {}
                 [] Outcome(x, t) = "erred" -> Debug("executing-task") \cup {"task-erred"}
                 [] OTHER -> Debug("executing-task"), t)

(* nodes_to_process.put(UnprocessedNode(t, result)) *)
PutNodeUnchecked(x, t) == [x EXCEPT !.nodes = @ \cup {t}]  \* mistake: errors ignored
PutNode(x, t) ==
    [x EXCEPT !.nodes = @ \cup {t},
              !.noValue = IF t \in NoneTasks \cup Failing \/ ~HasResult(x, t)
                          THEN @ \cup {t} ELSE @,
              !.cached = IF Outcome(x, t) = "cached" THEN @ \cup {t} ELSE @]

(* A ready task was run; its result is put into previous_results.            *)
RanReady(x, t) == [PutNode(Ran(x, t), t) EXCEPT !.ready = @ \ {t}]
Keep(y, t) == [y EXCEPT !.prev = @ \cup {t}]

(* The end of an iteration of process_path's outer loop.                     *)
NextIteration(x) ==
    IF x.nodes = {} THEN Return(x)
    ELSE [x EXCEPT !.pc = "next", !.cur = None, !.looped = FALSE, !.tries = 0]

(* Enter process_enqueued_tasks after a node has been processed.             *)
AfterNode(x) ==
    [x EXCEPT !.pc = IF UseTaskQueue /\ x.queue # {} THEN "queueGet" ELSE "next",
              !.node = None, !.edge = None, !.written = FALSE]

(* Enter process_enqueued_tasks_looped.                                      *)
EnterLoopNever(x) == NextIteration(x)  \* mistake: the task queue is ignored
EnterLoop(x) ==
    IF UseTaskQueue /\ x.queue # {}
    THEN [x EXCEPT !.pc = "queueGet", !.looped = TRUE, !.tries = 1]
    ELSE NextIteration(x)
-----------------------------------------------------------------------------
(* lambda_handler, task_executor: start on an invocation's first task.       *)
Start(e) ==
    /\ At(e, "idle")
    /\ \E i \in pending :
          /\ pending' = pending \ {i}
          /\ Becomes(e, [ex[e] EXCEPT !.pc = "task", !.event = i, !.cur = i.key,
                                      !.prev = i.data])
    /\ UNCHANGED <<result, redis, rerun, msgs, runs>>

(* process_path: execute current_path_node, or return if it fails.           *)
ExecuteCurrent(e) ==
    /\ At(e, "task")
    /\ LET x == ex[e] IN
          /\ ProcessTask(x, x.cur)
          /\ BecomesUnless(Raises(x, x.cur), e, x,
                IF HasResult(x, x.cur)
                THEN [PutNode(Ran(x, x.cur), x.cur) EXCEPT !.pc = "next"]
                ELSE Return(x))
    /\ UNCHANGED <<result, redis>>

(* nodes_to_process.get *)
TakeNode(x, n) ==
    [x EXCEPT !.nodes = @ \ {n}, !.noValue = @ \ {n}, !.cached = @ \ {n},
              !.node = n, !.written = n \in x.cached]

(* process_path, process_out_edges: take the next node and look at its size; *)
(* an output of None with dependents is a ValueError.                        *)
SelectNode(e) ==
    /\ At(e, "next")
    /\ \E n \in ex[e].nodes :
          LET x == TakeNode(ex[e], n) IN
          BecomesUnless(n \in ex[e].noValue \ Roots, e, x,
              IF n \in Roots THEN AfterNode(x)
              ELSE [x EXCEPT !.edges = Downstream(n), !.prev = @ \cup {n},
                             !.pc = IF n \in Big THEN "bigGet"
                                    ELSE IF x.become = None THEN "peek" ELSE "store"])
    /\ UNCHANGED <<result, redis, msgs, runs>>

(* process_path: no node is left: become the task found, or finish.          *)
EndOfNodes(e) ==
    /\ At(e, "next")
    /\ ex[e].nodes = {}
    /\ LET x == ex[e] IN
       Becomes(e,
          CASE x.become # None ->
                 [x EXCEPT !.pc = "task", !.cur = x.become, !.become = None]
            [] x.become = None /\ x.cur = None -> EnterLoop(x)
            [] x.become = None /\ x.cur \in Roots -> [x EXCEPT !.pc = "rootSet"]
            [] OTHER -> [x EXCEPT !.pc = "save"])
    /\ UNCHANGED <<result, redis, pending, rerun, msgs, runs>>

(* process_path: current_path_node is a root: write the final result ...     *)
RootSet(e) ==
    /\ At(e, "rootSet")
    /\ SetFinal(ex[e].cur)
    /\ Becomes(e, [ex[e] EXCEPT !.pc = "rootMsg"])
    /\ UNCHANGED <<result, pending, rerun, msgs, runs>>

(* ... and tell the Scheduler.                                               *)
RootMsg(e) ==
    /\ At(e, "rootMsg")
    /\ Publish({"lambda-result"}, ex[e].cur)
    /\ Becomes(e, NextIteration(ex[e]))
    /\ UNCHANGED <<result, redis, pending, rerun, runs>>

(* process_path: no dependent of current_path_node is available; a small     *)
(* output is written unless it is there, then the task queue is worked on.   *)
Save(e) ==
    /\ At(e, "save")
    /\ IF ex[e].cur \in Big THEN UNCHANGED redis ELSE StoreValue(ex[e].cur)
    /\ Becomes(e, EnterLoop(ex[e]))
    /\ UNCHANGED <<result, pending, rerun, msgs, runs>>
-----------------------------------------------------------------------------
(* process_out_edges, process_small: the dependents of a small output.       *)

(* Take the pre-assigned become node: its edge is removed from out_edges and *)
(* never counted.  (TakeBecomeKeepsEdge: the mistake of leaving it there.)   *)
TakeBecomeKeepsEdge(x, b) == [x EXCEPT !.become = b]
TakeBecome(x, b) == [x EXCEPT !.become = b, !.edges = @ \ {b}]

(* Is the become node ready?                                                 *)
PeekBecome(e) ==
    /\ At(e, "peek")
    /\ LET x == ex[e]
           b == Become[x.node] IN
       Becomes(e, IF IsReady(b)
                  THEN [TakeBecome(x, b) EXCEPT !.pc = "store"]
                  ELSE [x EXCEPT !.pc = "store"])
    /\ UNCHANGED <<result, redis, pending, rerun, msgs, runs>>

EdgesLeft(x) == [x EXCEPT !.pc = IF x.edges = {} THEN "evict" ELSE "edges"]

SmallStore(e) ==
    /\ At(e, "store")
    /\ IF ex[e].written THEN UNCHANGED redis ELSE StoreValue(ex[e].node)
    /\ Publish(Debug("executed-task"), ex[e].node)
    /\ Becomes(e, EdgesLeft(ex[e]))
    /\ UNCHANGED <<result, pending, rerun, runs>>

(* A dependent is ready: it is the become node if there is none yet, and to  *)
(* be invoked otherwise.  (TakeReadyOverwrites: the mistake of replacing a   *)
(* become node chosen before.)                                               *)
TakeReadyOverwrites(x, s) == [x EXCEPT !.become = s]
TakeReady(x, s) ==
    IF x.become = None THEN [x EXCEPT !.become = s] ELSE [x EXCEPT !.ready = @ \cup {s}]

(* Increment the counter of one dependent.                                   *)
SmallEdge(e) ==
    /\ At(e, "edges")
    /\ \E s \in ex[e].edges :
          LET x == [ex[e] EXCEPT !.edges = @ \ {s}] IN
          /\ Incr(x.node, s)
          /\ Becomes(e, EdgesLeft(
                IF IncrIsReady(s) THEN TakeReady(x, s) ELSE x))
    /\ UNCHANGED <<result, pending, rerun, msgs, runs>>

(* Cached outputs all of whose dependents were executed here or have a value *)
(* in dcp_redis.                                                             *)
EvictableOneDone(x) ==  \* mistake: one finished dependent is enough
    {k \in x.prev : Downstream(k) \cap (x.executed \cup InDcpRedis) # {}}
Evictable(x) ==
    {k \in x.prev : Downstream(k) \subseteq x.executed \cup InDcpRedis}

InvokeLeft(x) == IF x.ready = {} THEN AfterNode(x) ELSE [x EXCEPT !.pc = "invoke"]

(* process_out_edges: drop cached outputs that are not needed any more; only *)
(* those whose PathNode is in the paths downloaded so far are considered.    *)
Evict(e) ==
    /\ At(e, "evict")
    /\ \E gone \in SUBSET Evictable(ex[e]) :
          Becomes(e, InvokeLeft([ex[e] EXCEPT !.prev = @ \ gone]))
    /\ UNCHANGED <<result, redis, pending, rerun, msgs, runs>>

(* process_out_edges: invoke an Executor for a ready dependent, with as many *)
(* of its inputs as are cached here and fit into the payload.                *)
Invoke(e) ==
    /\ At(e, "invoke")
    /\ \E s \in ex[e].ready : \E data \in SUBSET (Deps[s] \cap ex[e].prev) :
          /\ pending' = pending \cup {[key |-> s, by |-> ex[e].node, data |-> data,
                                       attempt |-> 0]}
          /\ Becomes(e, InvokeLeft([ex[e] EXCEPT !.ready = @ \ {s}]))
    /\ UNCHANGED <<result, redis, rerun, msgs, runs>>
-----------------------------------------------------------------------------
(* process_big: the dependents of a big output.                              *)
BigEdgesLeft(x) ==
    [x EXCEPT !.pc = IF x.edges = {} THEN "bigDone" ELSE "bigGet", !.edge = None]

(* multiple_big_tasks_possible: s has another dependency with n's prefix.    *)
NoMultipleBigTasks(n, s) == FALSE  \* mistake: no look at the prefixes
MultipleBigTasksPossible(n, s) == \E d \in Deps[s] \ {n} : <<n, d>> \in SharesPrefix

(* Write the output unless it is written, then count.                        *)
BigCountUnwritten(x) == [x EXCEPT !.pc = "bigIncr"]  \* mistake: never written
BigCount(x) == [x EXCEPT !.pc = IF x.written THEN "bigIncr" ELSE "bigStore"]

(* Look at one dependent: pull it down if it is ready, else wait for it in   *)
(* the task queue, else write the output and count.                          *)
BigEdge(e) ==
    /\ At(e, "bigGet")
    /\ \E s \in ex[e].edges :
          LET x == [ex[e] EXCEPT !.edges = @ \ {s}, !.edge = s] IN
          Becomes(e,
              CASE IsReady(s) -> [x EXCEPT !.pc = "bigBook", !.ready = @ \cup {s}]
                [] ~IsReady(s) /\ UseTaskQueue /\ ~MultipleBigTasksPossible(x.node, s) ->
                     BigEdgesLeft([x EXCEPT !.queue =
                                      @ \cup {[task |-> s, large |-> x.node]}])
                [] OTHER -> BigCount(x))
    /\ UNCHANGED <<result, redis, pending, rerun, msgs, runs>>

BigBook(e) ==
    /\ At(e, "bigBook")
    /\ Incr(ex[e].node, ex[e].edge)
    /\ Becomes(e, BigEdgesLeft(ex[e]))
    /\ UNCHANGED <<result, pending, rerun, msgs, runs>>

BigStore(e) ==
    /\ At(e, "bigStore")
    /\ StoreValue(ex[e].node)
    /\ Publish({"executed-task"}, ex[e].node)
    /\ Becomes(e, [ex[e] EXCEPT !.pc = "bigIncr", !.written = TRUE])
    /\ UNCHANGED <<result, pending, rerun, runs>>

BigIncr(e) ==
    /\ At(e, "bigIncr")
    /\ Incr(ex[e].node, ex[e].edge)
    /\ Becomes(e, BigEdgesLeft(
          IF IncrIsReady(ex[e].edge)
          THEN [ex[e] EXCEPT !.ready = @ \cup {ex[e].edge}] ELSE ex[e]))
    /\ UNCHANGED <<result, pending, rerun, msgs, runs>>

PulledLeft(x) == [x EXCEPT !.pc = IF x.ready = {} THEN "evict" ELSE "pull", !.edge = None]

BigDone(e) ==
    /\ At(e, "bigDone")
    /\ Publish({"executed-task"}, ex[e].node)
    /\ Becomes(e, PulledLeft(ex[e]))
    /\ UNCHANGED <<result, redis, pending, rerun, runs>>

(* Execute a task pulled down.  Its result is used whatever the outcome, but *)
(* the result of a root with a missing input has no execution time: a        *)
(* KeyError.                                                                 *)
ExecutePulled(e) ==
    /\ At(e, "pull")
    /\ \E t \in ex[e].ready :
          LET x == ex[e]
              y == Keep(RanReady(x, t), t) IN
          /\ ProcessTask(x, t)
          /\ BecomesUnless(Raises(x, t) \/ (Outcome(x, t) = "missing" /\ t \in Roots), e, x,
                IF t \in Roots
                THEN [y EXCEPT !.nodes = x.nodes, !.noValue = x.noValue, !.cached = x.cached,
                               !.pc = "pullSet", !.edge = t]
                ELSE PulledLeft([y EXCEPT !.cached = x.cached \ {t}]))
    /\ UNCHANGED <<result, redis>>

PulledSet(e) ==
    /\ At(e, "pullSet")
    /\ SetFinal(ex[e].edge)
    /\ Becomes(e, [ex[e] EXCEPT !.pc = "pullMsg"])
    /\ UNCHANGED <<result, pending, rerun, msgs, runs>>

PulledMsg(e) ==
    /\ At(e, "pullMsg")
    /\ Publish({"lambda-result"}, ex[e].edge)
    /\ Becomes(e, PulledLeft(ex[e]))
    /\ UNCHANGED <<result, redis, pending, rerun, runs>>
-----------------------------------------------------------------------------
(* process_enqueued_tasks, called after every node and, at the end of a      *)
(* path, in the loop of process_enqueued_tasks_looped.                       *)

(* The end of a pass over the task queue.  In the loop: done if the queue is *)
(* empty or something was executed, else try again, else give up.            *)
EndOfPass(x) ==
    CASE ~x.looped -> [x EXCEPT !.pc = "next"]
      [] x.looped /\ (x.queue = {} \/ x.nodes # {}) -> NextIteration(x)
      [] OTHER -> [x EXCEPT !.tries = @ + 1,
                            !.pc = IF x.tries = MaxTries THEN "giveUp" ELSE "queueGet"]

(* task_queue.get_nowait *)
Dequeue(x, i) == [x EXCEPT !.queue = @ \ {i}]

(* After one enqueued task was looked at: the tasks still not ready go back  *)
(* into the queue once all have been, and the ready ones are executed.       *)
QueueLeft(x) ==
    IF x.queue # {} THEN [x EXCEPT !.pc = "queueGet", !.edge = None, !.node = None]
    ELSE LET y == [x EXCEPT !.queue = x.notReady, !.notReady = {},
                            !.edge = None, !.node = None]
         IN  IF x.ready = {} THEN EndOfPass(y) ELSE [y EXCEPT !.pc = "queueExec"]

QueueGet(e) ==
    /\ At(e, "queueGet")
    /\ \E i \in ex[e].queue :
          LET x == Dequeue(ex[e], i) IN
          Becomes(e, IF IsReady(i.task)
                     THEN [x EXCEPT !.pc = "queueBook", !.ready = @ \cup {i.task},
                                    !.edge = i.task, !.node = i.large]
                     ELSE QueueLeft([x EXCEPT !.notReady = @ \cup {i}]))
    /\ UNCHANGED <<result, redis, pending, rerun, msgs, runs>>

QueueBook(e) ==
    /\ At(e, "queueBook")
    /\ Incr(ex[e].node, ex[e].edge)
    /\ Becomes(e, QueueLeft(ex[e]))
    /\ UNCHANGED <<result, pending, rerun, msgs, runs>>

(* Execute an enqueued task.  An error ends process_path; in the loop it is  *)
(* lost if the queue is empty, and a KeyError otherwise.                     *)
EnqueuedFails(x, t) ==
    Raises(x, t) \/ (~HasResult(x, t) /\ x.looped /\ x.queue # {})

ExecuteEnqueued(e) ==
    /\ At(e, "queueExec")
    /\ \E t \in ex[e].ready :
          LET x == ex[e]
              y == Keep(RanReady(x, t), t) IN
          /\ ProcessTask(x, t)
          /\ BecomesUnless(EnqueuedFails(x, t), e, x,
                CASE HasResult(x, t) -> IF y.ready = {} THEN EndOfPass(y) ELSE y
                  [] ~HasResult(x, t) /\ x.looped -> NextIteration([x EXCEPT !.ready = {}])
                  [] OTHER -> Return(x))
    /\ UNCHANGED <<result, redis>>

(* process_enqueued_tasks_looped gives up: count every enqueued edge, ...    *)
GiveUpLeft(x) ==
    CASE x.queue # {} -> x
      [] x.queue = {} /\ x.ready # {} -> [x EXCEPT !.pc = "giveExec"]
      [] x.queue = {} /\ x.ready = {} /\ x.notReady # {} -> [x EXCEPT !.pc = "giveStore"]
      [] OTHER -> NextIteration(x)

GiveUp(e) ==
    /\ At(e, "giveUp")
    /\ \E i \in ex[e].queue :
          LET x == Dequeue(ex[e], i) IN
          /\ Incr(i.large, i.task)
          /\ Becomes(e, GiveUpLeft(IF IncrIsReady(i.task)
                                   THEN [x EXCEPT !.ready = @ \cup {i.task}]
                                   ELSE [x EXCEPT !.notReady = @ \cup {i}]))
    /\ UNCHANGED <<result, pending, rerun, msgs, runs>>

(* ... execute those that this made ready (an error before a success leaves  *)
(* data_written unbound), ...                                                *)
GiveUpExecute(e) ==
    /\ At(e, "giveExec")
    /\ \E t \in ex[e].ready :
          LET x == ex[e]
              y == RanReady(x, t) IN
          /\ ProcessTask(x, t)
          /\ BecomesUnless(Raises(x, t) \/ (~HasResult(x, t) /\ x.nodes = {}), e, x,
                GiveUpLeft(IF HasResult(x, t) THEN Keep(y, t) ELSE y))
    /\ UNCHANGED <<result, redis>>

(* ... and write the big outputs the others need.                            *)
GiveUpStore(e) ==
    /\ At(e, "giveStore")
    /\ \E i \in ex[e].notReady :
          /\ StoreValue(i.large)
          /\ Becomes(e, GiveUpLeft([ex[e] EXCEPT !.notReady = @ \ {i}]))
    /\ UNCHANGED <<result, pending, rerun, msgs, runs>>
-----------------------------------------------------------------------------
Step(e) ==
    \/ ExecuteCurrent(e) \/ SelectNode(e) \/ EndOfNodes(e)
    \/ RootSet(e) \/ RootMsg(e) \/ Save(e)
    \/ PeekBecome(e) \/ SmallStore(e) \/ SmallEdge(e) \/ Evict(e) \/ Invoke(e)
    \/ BigEdge(e) \/ BigBook(e) \/ BigStore(e) \/ BigIncr(e) \/ BigDone(e)
    \/ ExecutePulled(e) \/ PulledSet(e) \/ PulledMsg(e)
    \/ QueueGet(e) \/ QueueBook(e) \/ ExecuteEnqueued(e)
    \/ GiveUp(e) \/ GiveUpExecute(e) \/ GiveUpStore(e)

Next == \E e \in Executors : Start(e) \/ Step(e)

Spec == Init /\ [][Next]_vars

(* AWS starts every accepted invocation once a container is free, and a      *)
(* started Executor keeps running.                                           *)
FairSpec ==
    /\ Spec
    /\ WF_vars(\E e \in Executors : Start(e))
    /\ \A e \in Executors : WF_vars(Step(e))
=============================================================================
