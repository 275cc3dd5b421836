--------------------------- MODULE ClientFutures ---------------------------
(* The clients: their futures, how often each is held, and their messages to *)
(* and from the Scheduler.                                                   *)
EXTENDS SchedulerTasks

CONSTANTS Graphs,   \* the graphs users submit: sets of tasks
          MaxOps    \* bound: the operations users make

ASSUME GraphsAssumption == Graphs \subseteq SUBSET Keys

VARIABLES futures,  \* futures[c][k]: the status of a FutureState, or "none"
          refs,     \* self.refcount
          link,     \* link[c]: "running", "closed", or what its user waits for
          ops,      \* operations made so far
          wiped     \* the keys whose output a user has wiped from Redis

clientVars == <<futures, refs, link, ops, wiped>>
allVars == <<vars, clientVars>>

(* The parts of the state that no client's step changes.                     *)
schedulerOnly ==
    <<tasks, registered, comms, owner, todo, batch, replies, again, restarts, remote, wiped>>

Statuses == {"none", "pending", "finished", "lost", "error", "cancelled"}
ClientTypeOK ==
    /\ futures \in [Clients -> [Keys -> Statuses]]
    /\ refs \in [Clients -> [Keys -> Nat]]
    /\ link \in [Clients -> {"running", "calling", "restarting", "closed"}]
    /\ ops \in 0..MaxOps /\ wiped \subseteq Keys

ClientInit ==
    /\ futures = [c \in Clients |-> [k \in Keys |-> "none"]]
    /\ refs = [c \in Clients |-> [k \in Keys |-> 0]]
    /\ link = [c \in Clients |-> "running"]
    /\ ops = 0 /\ wiped = {}

Operation(c) == ops < MaxOps /\ link[c] = "running" /\ ops' = ops + 1

(* _send_to_scheduler: what is sent while connecting is kept for the new     *)
(* connection.                                                               *)
SendUp(c, m) == up' = [up EXCEPT ![c] = Append(@, m)]

(* Future.__init__: a new reference to the state of the key.                 *)
MakeFutures(c, keys) ==
    /\ refs' = [refs EXCEPT ![c] = [k \in Keys |-> IF k \in keys THEN @[k] + 1 ELSE @[k]]]
    /\ futures' = [futures EXCEPT ![c] =
           [k \in Keys |-> IF k \in keys /\ @[k] = "none" THEN "pending" ELSE @[k]]]
-----------------------------------------------------------------------------
(* _graph_to_futures: a graph, without what the keys do not need, whose      *)
(* outside inputs are futures at hand.                                       *)
GraphToFutures(c, graph, keys) ==
    /\ graph \subseteq Touched(graph, keys)
    /\ \A k \in graph : \A d \in DepsOf[k] \ graph : futures[c][d] # "none"
    /\ MakeFutures(c, keys)
    /\ SendUp(c, [op |-> "update-graph", graph |-> graph, keys |-> keys])
    /\ UNCHANGED <<link, schedulerOnly, down, calls>>

(* submit: a key that has a future gets another reference, and no message.   *)
SubmitTask(c, k) ==
    /\ Operation(c)
    /\ IF futures[c][k] = "none" THEN GraphToFutures(c, {k}, {k})
       ELSE MakeFutures(c, {k}) /\ UNCHANGED <<link, schedulerOnly, up, down, calls>>

(* map: tasks that do not depend on each other, known or not.                *)
MapTasks(c, keys) ==
    /\ Operation(c)
    /\ \A k \in keys : DepsOf[k] \cap keys = {}
    /\ GraphToFutures(c, keys, keys)

(* compute: the keys of the collections, of a graph with what they need;     *)
(* persist and get submit the same way (get releases its futures when it has *)
(* gathered them).                                                           *)
Compute(c, graph, keys) == Operation(c) /\ GraphToFutures(c, graph, keys)

(* normalize_collection, _optimize_insert_futures: a reference to each known *)
(* key of the graph, whose tasks may then be left out.                       *)
Known(c, graph) == {k \in graph : futures[c][k] # "none"}
NormalizeCollection(c, graph) ==
    /\ Operation(c)
    /\ Known(c, graph) # {}
    /\ MakeFutures(c, Known(c, graph))
    /\ UNCHANGED <<link, schedulerOnly, up, down, calls>>

(* Future(key): from a queue, a variable or a dataset.                       *)
FutureByKey(c, k) ==
    /\ Operation(c)
    /\ \E d \in Clients : futures[d][k] # "none"
    /\ MakeFutures(c, {k})
    /\ SendUp(c, [op |-> "client-desires-keys", keys |-> {k}, client |-> c])
    /\ UNCHANGED <<link, schedulerOnly, down, calls>>

(* fire_and_forget *)
FireAndForgetKey(c, k) ==
    /\ Operation(c)
    /\ futures[c][k] # "none"
    /\ SendUp(c, [op |-> "client-desires-keys", keys |-> {k}, client |-> FireAndForget])
    /\ UNCHANGED <<futures, refs, link, schedulerOnly, down, calls>>

(* Future.release and _dec_ref: the last reference releases the key.         *)
LastRefLate(c, k) == refs[c][k] = 0  \* mistake: one too late
LastRef(c, k) == refs[c][k] = 1
Release(c, k) ==
    /\ link[c] # "closed"
    /\ refs[c][k] > 0
    /\ refs' = [refs EXCEPT ![c][k] = @ - 1]
    /\ IF LastRef(c, k)
       THEN /\ futures' = [futures EXCEPT ![c][k] = "none"]
            /\ SendUp(c, [op |-> "client-releases-keys", keys |-> {k}])
       ELSE UNCHANGED <<futures, up>>
    /\ UNCHANGED <<link, ops, schedulerOnly, down, calls>>

(* _cancel and _retry: an RPC, the answer of which changes the futures; the  *)
(* user waits for it (self.sync).                                            *)
CallScheduler(c, k, m) ==
    /\ Operation(c)
    /\ futures[c][k] # "none"
    /\ calls' = calls \cup {m}
    /\ link' = [link EXCEPT ![c] = "calling"]
    /\ UNCHANGED <<futures, refs, schedulerOnly, up, down>>
Cancel(c, k, force) ==
    CallScheduler(c, k, [op |-> "cancel", client |-> c, keys |-> {k}, force |-> force])
Retry(c, k) ==
    /\ futures[c][k] = "error"
    /\ CallScheduler(c, k, [op |-> "retry", client |-> c, keys |-> {k}, force |-> FALSE])

Answered(m) ==
    /\ m \in replies
    /\ replies' = replies \ {m}
    /\ futures' = [futures EXCEPT ![m.client] =
           [k \in Keys |-> IF k \notin m.keys \/ m.op = "failed" \/ @[k] = "none" THEN @[k]
                           ELSE IF m.op = "cancel" THEN "none" ELSE "pending"]]
    /\ link' = [link EXCEPT ![m.client] = "running"]
    /\ UNCHANGED <<refs, ops, tasks, registered, owner, todo, batch, restarts, streams,
                   calls, again, remote, wiped>>

(* An iteration of _gather that finds no output in Redis for a future that   *)
(* is done: ask about the key, and wait once more.                           *)
GatherAgain(c, k) ==
    /\ Operation(c)
    /\ futures[c][k] = "finished" /\ k \notin stored
    /\ SendUp(c, [op |-> "report-key", keys |-> {k}])
    /\ futures' = [futures EXCEPT ![c][k] = "pending"]
    /\ UNCHANGED <<refs, link, schedulerOnly, down, calls>>

(* flush_data_on_redis_shards, called on the Scheduler object between two    *)
(* workloads: no Executor is at work.                                        *)
Flush ==
    /\ stored # {} /\ wiped = {}  \* bound: once
    /\ Idle /\ \A i \in DOMAIN jobs : jobs[i].left \cup jobs[i].going = {}
    /\ stored' = {} /\ wiped' = stored
    /\ UNCHANGED <<tasks, registered, owner, todo, batch, restarts, streams, rpcs, jobs, queue,
                   futures, refs, link, ops>>

(* _restart, until its message comes back.                                   *)
AskRestart(c) ==
    /\ Operation(c)
    /\ SendUp(c, [op |-> "restart"])
    /\ link' = [link EXCEPT ![c] = "restarting"]
    /\ UNCHANGED <<futures, refs, schedulerOnly, down, calls>>

(* _close: the keys are released with the client.                            *)
Close(c) ==
    /\ Operation(c)
    /\ SendUp(c, [op |-> "close-client"])
    /\ link' = [link EXCEPT ![c] = "closed"]
    /\ futures' = [futures EXCEPT ![c] = [k \in Keys |-> "none"]]
    /\ refs' = [refs EXCEPT ![c] = [k \in Keys |-> 0]]
    /\ UNCHANGED <<schedulerOnly, down, calls>>
-----------------------------------------------------------------------------
(* The handlers of _handle_report; a key without a future is ignored.        *)
NewStatusState(op, old) == IF op = "task-erred" THEN "erred" ELSE "finished"  \* mistake: the task's state
NewStatus(op, old) ==
    IF old = "none" THEN "none"
    ELSE CASE op = "key-in-memory" -> "finished"  \* _handle_key_in_memory
           [] op = "lost-data" -> "lost"          \* _handle_lost_data
           [] op = "cancelled-key" -> "cancelled" \* _handle_cancelled_key
           [] op = "task-erred" -> "error"        \* _handle_task_erred
           [] op = "task-retried" -> "pending"    \* _handle_retried_key

Read(c) == down[c] # <<>> /\ down' = [down EXCEPT ![c] = Tail(@)]

HandleReport(c) ==
    /\ Read(c) /\ Head(down[c]).op \notin {"restart", "closed"}
    /\ LET m == Head(down[c])
       IN  futures' = [futures EXCEPT ![c][m.key] = NewStatus(m.op, @)]
    /\ UNCHANGED <<refs, link, ops, schedulerOnly, up, calls>>

(* _handle_restart; in the client that asked for it, _restart goes on, and   *)
(* no future made before counts as a reference any more.                     *)
HandleRestart(c) ==
    /\ Read(c) /\ Head(down[c]).op = "restart"
    /\ futures' = [futures EXCEPT ![c] = [k \in Keys |-> "none"]]
    /\ IF link[c] = "restarting"
       THEN /\ link' = [link EXCEPT ![c] = "running"]
            /\ refs' = [refs EXCEPT ![c] = [k \in Keys |-> 0]]
       ELSE UNCHANGED <<link, refs>>
    /\ UNCHANGED <<ops, schedulerOnly, up, calls>>

(* The stream is closed: _reconnect cancels all futures, and registers the   *)
(* client again before it sends anything else.                               *)
Reconnect(c) ==
    /\ Read(c) /\ Head(down[c]).op = "closed" /\ link[c] # "closed"
    /\ futures' = [futures EXCEPT ![c] = [k \in Keys |-> "none"]]
    /\ up' = [up EXCEPT ![c] = <<[op |-> "register-client"]>>]
    /\ UNCHANGED <<refs, link, ops, schedulerOnly, calls>>

User(c) ==
    \/ \E graph \in Graphs :
          \/ \E keys \in SUBSET graph : keys # {} /\ Compute(c, graph, keys)
          \/ MapTasks(c, graph) \/ NormalizeCollection(c, graph)
    \/ \E k \in Keys :
          \/ SubmitTask(c, k)
          \/ FutureByKey(c, k) \/ FireAndForgetKey(c, k) \/ Release(c, k)
          \/ \E force \in BOOLEAN : Cancel(c, k, force)
          \/ Retry(c, k) \/ GatherAgain(c, k)
    \/ AskRestart(c) \/ Close(c)
Listen(c) == HandleReport(c) \/ HandleRestart(c) \/ Reconnect(c)

Next ==
    \/ SchedulerNext /\ UNCHANGED clientVars
    \/ \E c \in Clients : User(c) \/ Listen(c)
    \/ \E m \in replies : Answered(m)
    \/ Flush

SystemInit == Init /\ ClientInit
Spec == SystemInit /\ [][Next]_allVars
-----------------------------------------------------------------------------
(* Of what validate_task_state asserts, what does not ask for workers.       *)
ValidateSubsets(ts) == ts.waitingOn \subseteq ts.deps /\ ts.waiters \subseteq ts.dependents
ValidateDependencies(k) == \A d \in tasks[k].deps : k \in tasks[d].dependents
ValidateDependents(k) == \A d \in tasks[k].dependents : k \in tasks[d].deps

(* The graph of the Scheduler stays consistent, whatever is cancelled,       *)
(* released, retried and forgotten in whatever order: an edge is known at    *)
(* both ends or at none, and only tasks that are known wait for each other.  *)
EdgesMatch == \A k \in Keys : ValidateSubsets(tasks[k]) /\ ValidateDependencies(k) /\ ValidateDependents(k)

(* A client that sees a future finished can read its output, unless a user   *)
(* has wiped it.                                                             *)
FinishedIsStored ==
    \A c \in Clients, k \in Keys : futures[c][k] = "finished" => k \in stored \cup wiped

(* Nothing is on its way between a client and the Scheduler.                 *)
Settled(c) ==
    /\ Idle /\ up[c] = <<>> /\ down[c] = <<>> /\ again = {} /\ restarts = 0
    /\ \A m \in calls \cup replies : m.client # c

(* Once all messages have arrived, the Scheduler knows that its only client  *)
(* wants what the client has a live future of, and nothing else.  With two   *)
(* clients a retry's answer can make a future "pending" whose key the other  *)
(* client has cancelled since.                                               *)
WantsAgree ==
    \A c \in Clients, k \in Keys :
        Settled(c) /\ Clients = {c} =>
            /\ futures[c][k] \in {"pending", "finished", "error", "lost"} => c \in tasks[k].wants
            /\ c \in tasks[k].wants => refs[c][k] > 0

(* A task known to have failed names the task to blame, whose exception is   *)
(* reported (validate_erred).                                                *)
ErredHasBlame == \A k \in Keys : tasks[k].state = "erred" => tasks[k].blame
=============================================================================
