--------------------------- MODULE SchedulerTasks ---------------------------
(* The Scheduler between its clients and the Executors.  Handlers run on one *)
(* event loop and do not yield, so while one has calls left to make (todo)   *)
(* or messages of its batch to handle no other starts.  The Executors are    *)
(* seen from here as the messages they publish; a job of theirs runs its     *)
(* tasks in the order of the dependencies (see FanIn and TaskExecutor).      *)
EXTENDS TaskStates, FiniteSets, SequencesExt

CONSTANTS DepsOf,       \* DepsOf[k]: the dependencies of task k in the users' graphs
          LambdaDebug,  \* lambda_debug: Executors report every task
          RpcErrors,    \* errors also come as RPCs (task-erred-lambda)
          CancelTries,  \* cancel_key is tried again so often (5 in the code)
          MaxBatch      \* messages per consume_redis_queue (50 in the code)

ASSUME SchedulerAssumption ==
    /\ IsFiniteSet(Keys) /\ IsFiniteSet(Clients)
    /\ DepsOf \in [Keys -> SUBSET Keys]

VARIABLES tasks,       \* self.tasks
          registered,  \* self.clients
          comms,       \* the keys of self.client_comms
          owner,       \* on whose behalf the handler runs: a client, "rpc" or "lambda"
          todo,        \* the calls the handler has still to make, a stack
          batch,       \* the messages consume_redis_queue has still to handle
          up,          \* up[c]: the stream from client c
          down,        \* down[c]: the stream to client c
          calls,       \* the RPCs on their way: cancel, retry, task-erred-lambda
          replies,     \* the RPCs that have been answered
          again,       \* calls of cancel_key put off for 0.2 s
          restarts,    \* restarts whose message has not been reported yet
          jobs,        \* what Executors have been invoked for
          queue,       \* the messages of Executors not consumed yet
          stored       \* the keys with an output in Redis

remote == <<jobs, queue, stored>>
streams == <<up, down, comms>>
rpcs == <<calls, replies, again>>
vars == <<tasks, registered, owner, todo, batch, restarts, streams, rpcs, remote>>

Idle == todo = <<>> /\ batch = <<>>

Init ==
    /\ tasks = [k \in Keys |-> NoTask]
    /\ registered = Clients /\ comms = Clients
    /\ owner = "rpc" /\ todo = <<>> /\ batch = <<>>
    /\ up = [c \in Clients |-> <<>>] /\ down = [c \in Clients |-> <<>>]
    /\ calls = {} /\ replies = {} /\ again = {} /\ restarts = 0
    /\ jobs = <<>> /\ queue = <<>> /\ stored = {}

TypeOK ==
    /\ tasks \in [Keys -> Task]
    /\ registered \subseteq Clients /\ comms \subseteq Clients
    /\ owner \in Clients \cup {"rpc", "lambda"}
    /\ stored \subseteq Keys /\ restarts \in Nat
    /\ \A i \in DOMAIN jobs : jobs[i].done \cap (jobs[i].left \cup jobs[i].going) = {}
-----------------------------------------------------------------------------
(* comm.send, to the clients that have a stream.                             *)
Sent(out) == [c \in Clients |-> IF c \in comms THEN down[c] \o out[c] ELSE down[c]]
Send(out) == down' = Sent(out)

(* report with a client: it gets the message besides those interested in the *)
(* key, and everybody does if the key is unknown.                            *)
ReportTo(t, op, k, client) ==
    Then(Tell(client, op, k),
         IF t[k].state = "unknown" THEN Tell(Clients, op, k) ELSE Report(t, op, k))

(* report_on_key: an erred task is expected to have an exception_blame.      *)
ReportOnKeyAny(t, k, client) == ReportTo(t, "key-in-memory", k, client)  \* mistake: in any state
ReportOnKey(t, k, client) ==
    CASE t[k].state = "unknown" -> ReportTo(t, "cancelled-key", k, client)
      [] t[k].state = "memory" -> ReportTo(t, "key-in-memory", k, client)
      [] t[k].state = "erred" -> ReportTo(t, "task-erred", k, client)
      [] OTHER -> Silence
ReportRaises(t, k) == t[k].state = "erred" /\ ~t[k].blame

(* The frames of todo.                                                       *)
TransitionsOf(recs) == [op |-> "transitions", recs |-> recs]
ReleasesOf(client, keys) == [op |-> "releases", client |-> client, keys |-> keys]
CancelOf(k, client, force, tries) ==
    [op |-> "cancel", key |-> k, client |-> client, force |-> force, tries |-> tries]
Push(frames) == todo' = frames \o Tail(todo)
Call(frames) == todo' = frames

(* transitions returns at once if nothing is recommended.                    *)
Recommended(recs) == IF DOMAIN recs = {} THEN <<>> ELSE <<TransitionsOf(recs)>>

(* An exception ends the handler of who, after the messages out.  In         *)
(* handle_stream it ends the stream of the client, with what was not written *)
(* yet, and add_client calls remove_client; in consume_redis_queue it ends   *)
(* the batch.                                                                *)
Fail(who, out) ==
    /\ batch' = <<>>
    /\ IF who \in comms
       THEN /\ comms' = comms \ {who}
            /\ \E n \in 0..Len(Sent(out)[who]) :
                  down' = [Sent(out) EXCEPT ![who] =
                              Append(SubSeq(@, 1, n), Message("closed", "none"))]
            /\ todo' = <<[op |-> "remove", client |-> who]>>
       ELSE todo' = <<>> /\ Send(out) /\ UNCHANGED comms
-----------------------------------------------------------------------------
(* transitions: the recommendations, one after the other.  popitem takes     *)
(* the last one inserted; most are inserted in the order of a set.           *)
TransitionsStep ==
    /\ todo # <<>> /\ Head(todo).op = "transitions"
    /\ \E k \in DOMAIN Head(todo).recs :
          LET recs == Head(todo).recs
              rest == [j \in DOMAIN recs \ {k} |-> recs[j]]
              r == Transition(tasks, k, recs[k], stored)
              \* the fire-and-forget client releases a task that has failed
              free == /\ <<tasks[k].state, recs[k]>> = <<"processing", "erred">>
                      /\ FireAndForget \in tasks[k].wants
          IN  /\ tasks' = r.t
              /\ IF r.raises THEN Fail(owner, r.out)
                 ELSE /\ Send(r.out)
                      /\ Push((IF free THEN <<ReleasesOf(FireAndForget, {k})>> ELSE <<>>)
                              \o Recommended(Update(rest, r.recs)))
                      /\ UNCHANGED <<batch, comms>>
    /\ UNCHANGED <<registered, owner, restarts, up, rpcs, remote>>

(* client_releases_keys *)
ReleasedKeys(t, client, keys) ==
    [k \in Keys |-> IF k \in keys THEN [t[k] EXCEPT !.wants = @ \ {client}] ELSE t[k]]
ReleasedRecs(t, client, keys) ==
    LET alone == {k \in keys : t[k].wants = {client}}
        forget == {k \in alone : t[k].dependents = {}}
        release == {k \in alone \ forget : t[k].state # "erred" /\ t[k].waiters = {}}
    IN  Update(Recs(forget, "forgotten"), Recs(release, "released"))

ReleaseKeys ==
    /\ todo # <<>> /\ Head(todo).op = "releases"
    /\ LET f == Head(todo)
       IN  IF f.client \in registered \cup {FireAndForget}
           THEN /\ tasks' = ReleasedKeys(tasks, f.client, f.keys)
                /\ Push(Recommended(ReleasedRecs(tasks, f.client, f.keys)))
                /\ UNCHANGED <<batch, comms, down>>
           ELSE tasks' = tasks /\ Fail(owner, Silence)
    /\ UNCHANGED <<registered, owner, restarts, up, rpcs, remote>>

(* cancel_key: the dependents first; a key nobody wants yet is tried again.  *)
CancelKey ==
    /\ todo # <<>> /\ Head(todo).op = "cancel"
    /\ LET f == Head(todo)
           ts == tasks[f.key]
           dependents == IF f.force \/ ts.wants = {f.client} THEN SetToSeq(ts.dependents) ELSE <<>>
       IN  IF f.client \notin registered THEN Push(<<>>) /\ UNCHANGED again
           ELSE IF ts.wants = {}
           THEN /\ again' = IF f.tries = 0 THEN again
                            ELSE again \cup {CancelOf(f.key, f.client, FALSE, f.tries - 1)}
                /\ Push(<<>>)
           ELSE /\ Push([i \in DOMAIN dependents |->
                            CancelOf(dependents[i], f.client, f.force, CancelTries)]
                        \o <<[f EXCEPT !.op = "cancelled"]>>)
                /\ UNCHANGED again
    /\ UNCHANGED <<tasks, registered, owner, batch, restarts, streams, calls, replies, remote>>

(* The rest of cancel_key, once the dependents are cancelled.                *)
CancelledKey ==
    /\ todo # <<>> /\ Head(todo).op = "cancelled"
    /\ LET f == Head(todo)
           k == f.key
           clients == SetToSeq(IF f.force THEN tasks[k].wants ELSE {f.client})
       IN  /\ Send(ReportTo(tasks, "cancelled-key", k, {}))
           /\ Push([i \in DOMAIN clients |-> ReleasesOf(clients[i], {k})])
    /\ UNCHANGED <<tasks, registered, owner, batch, restarts, up, comms, rpcs, remote>>

(* remove_client; its stream may stay open (close-client).                   *)
Wanted(t, client) == {k \in Keys : client \in t[k].wants}
RemoveClient ==
    /\ todo # <<>> /\ Head(todo).op = "remove"
    /\ LET c == Head(todo).client
       IN  IF c \in registered
           THEN Push(<<ReleasesOf(c, Wanted(tasks, c)), [op |-> "delete", client |-> c]>>)
           ELSE Push(<<>>)
    /\ UNCHANGED <<tasks, registered, owner, batch, restarts, streams, rpcs, remote>>

DeleteClient ==
    /\ todo # <<>> /\ Head(todo).op = "delete"
    /\ registered' = registered \ {Head(todo).client}
    /\ Push(<<>>)
    /\ UNCHANGED <<tasks, owner, batch, restarts, streams, rpcs, remote>>
-----------------------------------------------------------------------------
(* update_graph, first part: tasks on lost data are cancelled.               *)
LostTasks(f) == {k \in f.graph : \E d \in DepsOf[k] : tasks[d].state = "unknown" /\ d \notin f.graph}

UpdateGraphCancel ==
    /\ todo # <<>> /\ Head(todo).op = "graph"
    /\ \E k \in LostTasks(Head(todo)) :
          LET f == Head(todo)
          IN  /\ Send(ReportTo(tasks, "cancelled-key", k, {f.client}))
              /\ Push(<<ReleasesOf(f.client, {k}),
                        [f EXCEPT !.graph = @ \ {k}, !.keys = @ \ {k}]>>)
    /\ UNCHANGED <<tasks, registered, owner, batch, restarts, up, comms, rpcs, remote>>

(* The tasks that are done already, and the dependencies only they have.     *)
Finished(t, graph) ==
    LET done == {k \in graph : DepsOf[k] # {} /\ t[k].state \in {"memory", "erred"}}
        Closed(S) == /\ done \subseteq S
                     /\ \A d \in Keys : /\ t[d].state # "unknown"
                                        /\ \E k \in S \cap graph : d \in DepsOf[k]
                                        /\ \A k \in graph : d \in DepsOf[k] => k \in S
                                        => d \in S
    IN  {k \in Keys : \A S \in SUBSET Keys : Closed(S) => k \in S}

(* The keys asked for and what they depend on in the graph.                  *)
Touched(graph, keys) ==
    {k \in Keys : \A S \in SUBSET Keys :
        (keys \subseteq S /\ \A j \in S \cap graph : DepsOf[j] \subseteq S) => k \in S}

(* Get or create task states; client_desires_keys; and the dependencies of   *)
(* the tasks that have none yet.                                             *)
WithTasks(t, graph, touched) ==
    [k \in Keys |->
        IF k \notin touched THEN t[k]
        ELSE IF t[k].state = "unknown" THEN NewTask(k \in graph)
        ELSE [t[k] EXCEPT !.spec = @ \/ k \in graph]]
Desired(t, keys, client) ==
    [k \in Keys |->
        IF k \notin keys THEN t[k]
        ELSE [(IF t[k].state = "unknown" THEN NewTask(FALSE) ELSE t[k])
              EXCEPT !.wants = @ \cup {client}]]
NewEdges(t, graph) ==
    {g \in graph \X Keys : /\ t[g[1]].state # "unknown" /\ t[g[1]].deps = {}
                           /\ g[2] \in DepsOf[g[1]]}
WithDependencies(t, edges) ==
    [k \in Keys |->
        [t[k] EXCEPT !.deps = @ \cup {d \in Keys : <<k, d>> \in edges},
                     !.dependents = @ \cup {j \in Keys : <<j, k>> \in edges}]]

(* Runnable tasks that need nothing that is not in memory.                   *)
LeafTasks(t, touched) ==
    {k \in touched : /\ t[k].spec
                     /\ t[k].state \in {"released", "waiting"}
                     /\ \A d \in t[k].deps : t[d].state = "memory"}
Downstream(t, leaves) ==
    {k \in Keys : \A S \in SUBSET Keys :
        (leaves \subseteq S /\ \A j \in S : t[j].dependents \subseteq S) => k \in S}
JobOf(t, leaves) ==
    LET all == Downstream(t, leaves)
    IN  [left |-> all, going |-> {}, done |-> {k \in Keys : t[k].state = "memory"} \ all,
         roots |-> {k \in all : t[k].dependents = {}}]

(* Transition everything to processing, whatever it was.                     *)
AllProcessing(t) ==
    [k \in Keys |-> IF t[k].state = "unknown" THEN t[k] ELSE [t[k] EXCEPT !.state = "processing"]]

(* client_desires_keys reports the tasks that are done, in any order, up to  *)
(* one whose error it cannot report.  The client itself wants them by now,   *)
(* so it gets each message twice.                                            *)
DesireReports(t, keys, client) ==
    [c \in Clients |->
        LET due == SetToSeq({k \in keys : /\ t[k].state \in {"memory", "erred"}
                                          /\ c \in t[k].wants})
            times == IF c = client THEN 2 ELSE 1
        IN  [i \in 1..(times * Len(due)) |->
                ReportOnKey(t, due[(i + times - 1) \div times], {client})[c][1]]]
DesireFails(keys) == \E k \in keys : ReportRaises(tasks, k)

(* What it has done when it comes to that one.                               *)
DesiredInPart(t, keys, client) ==
    {[t |-> Desired(t, some, client),
      out |-> DesireReports(Desired(t, some, client),
                            {k \in some : ~ReportRaises(tasks, k)}, client)] :
        some \in {S \in SUBSET keys : Cardinality({k \in S : ReportRaises(tasks, k)}) = 1}}

(* update_graph from "Avoid computation that is already finished" on.        *)
Unfinished(f) == f.graph \ Finished(tasks, f.graph)
TasksMade(f) ==
    LET graph == Unfinished(f) IN WithTasks(tasks, graph, Touched(graph, f.keys))
TasksDesired(f) == Desired(TasksMade(f), f.keys, f.client)

(* self.tasks[dep] may be missing for a task that is known without its       *)
(* dependencies and that the keys do not lead to any more.                   *)
UnknownInputs(t, edges) == {g \in edges : t[g[2]].state = "unknown"}

UpdateGraph ==
    /\ todo # <<>> /\ Head(todo).op = "graph"
    /\ LostTasks(Head(todo)) = {}
    /\ LET f == Head(todo)
           edges == NewEdges(TasksDesired(f), Unfinished(f))
           t == WithDependencies(TasksDesired(f), edges)
           leaves == LeafTasks(t, Touched(Unfinished(f), f.keys))
       IN  /\ Finished(tasks, f.graph) \subseteq f.graph
           /\ ~DesireFails(f.keys)
           /\ UnknownInputs(TasksDesired(f), edges) = {}
           /\ tasks' = AllProcessing(t)
           /\ Send(DesireReports(TasksDesired(f), f.keys, f.client))
           /\ jobs' = IF leaves = {} THEN jobs ELSE Append(jobs, JobOf(t, leaves))
           /\ Push(<<>>)
    /\ UNCHANGED <<registered, owner, batch, restarts, up, comms, rpcs, queue, stored>>

(* The same, when it raises: dependencies[key] does not know a finished task *)
(* of an earlier graph, an error may have no exception to report, and a      *)
(* dependency may be unknown, when those of some tasks have been added.      *)
DependenciesInPart(t, edges) ==
    {WithDependencies(t, some) :
        some \in {S \in SUBSET (edges \ UnknownInputs(t, edges)) :
            \E g \in UnknownInputs(t, edges) : \A h \in S :
                h[1] # g[1] => {l \in edges : l[1] = h[1]} \subseteq S}}
GraphInPart(f) ==
    LET t == TasksDesired(f)
        edges == NewEdges(t, Unfinished(f))
        out == DesireReports(t, f.keys, f.client)
    IN  IF ~(Finished(tasks, f.graph) \subseteq f.graph) THEN {[t |-> tasks, out |-> Silence]}
        ELSE IF DesireFails(f.keys) THEN DesiredInPart(TasksMade(f), f.keys, f.client)
        ELSE {[t |-> u, out |-> out] : u \in DependenciesInPart(t, edges)}
UpdateGraphFails ==
    /\ todo # <<>> /\ Head(todo).op = "graph"
    /\ LostTasks(Head(todo)) = {}
    /\ \E part \in GraphInPart(Head(todo)) : tasks' = part.t /\ Fail(owner, part.out)
    /\ UNCHANGED <<registered, owner, restarts, up, rpcs, remote>>
-----------------------------------------------------------------------------
(* handle_stream: the next message of a client's stream.                     *)
Take(c, op) ==
    /\ Idle /\ c \in comms /\ up[c] # <<>> /\ Head(up[c]).op = op
    /\ up' = [up EXCEPT ![c] = Tail(@)]
    /\ owner' = c

HandleUpdateGraph(c) ==
    /\ Take(c, "update-graph")
    /\ Call(<<[op |-> "graph", client |-> c, graph |-> Head(up[c]).graph, keys |-> Head(up[c]).keys]>>)
    /\ UNCHANGED <<tasks, registered, batch, restarts, down, comms, rpcs, remote>>

(* client_desires_keys, of this client or for the fire-and-forget client.    *)
ClientDesiresKeys(c) ==
    /\ Take(c, "client-desires-keys")
    /\ LET m == Head(up[c])
       IN  /\ ~DesireFails(m.keys)
           /\ tasks' = Desired(tasks, m.keys, m.client)
           /\ Send(DesireReports(Desired(tasks, m.keys, m.client), m.keys, m.client))
           /\ registered' = registered \cup ({m.client} \cap Clients)
    /\ UNCHANGED <<todo, batch, restarts, comms, rpcs, remote>>

ClientReleasesKeys(c) ==
    /\ Take(c, "client-releases-keys")
    /\ Call(<<ReleasesOf(c, Head(up[c]).keys)>>)
    /\ UNCHANGED <<tasks, registered, batch, restarts, down, comms, rpcs, remote>>

(* report-key, which a client sends for a key it could not gather.           *)
HandleReportKey(c) ==
    /\ Take(c, "report-key")
    /\ LET k == CHOOSE k \in Head(up[c]).keys : TRUE
       IN  ~ReportRaises(tasks, k) /\ Send(ReportOnKey(tasks, k, {c}))
    /\ UNCHANGED <<tasks, registered, todo, batch, restarts, comms, rpcs, remote>>

(* report_on_key raises an AttributeError in either of them.                 *)
ReportFails(c) ==
    /\ \E op \in {"client-desires-keys", "report-key"} : Take(c, op)
    /\ LET m == Head(up[c])
       IN  /\ DesireFails(m.keys)
           /\ \E part \in IF m.op = "report-key" THEN {[t |-> tasks, out |-> Silence]}
                          ELSE DesiredInPart(tasks, m.keys, m.client) :
                 tasks' = part.t /\ Fail(c, part.out)
    /\ UNCHANGED <<registered, restarts, rpcs, remote>>

CloseClient(c) ==
    /\ Take(c, "close-client")
    /\ Call(<<[op |-> "remove", client |-> c]>>)
    /\ comms' = comms \ {c}
    /\ UNCHANGED <<tasks, registered, batch, restarts, down, rpcs, remote>>

(* add_client, on a new connection.                                          *)
AddClient(c) ==
    /\ Idle /\ c \notin comms /\ up[c] # <<>> /\ Head(up[c]).op = "register-client"
    /\ up' = [up EXCEPT ![c] = Tail(@)]
    /\ registered' = registered \cup {c}
    /\ comms' = comms \cup {c}
    /\ UNCHANGED <<tasks, owner, todo, batch, restarts, down, rpcs, remote>>

(* restart: everybody's keys are released at once; the message that tells    *)
(* the clients is sent when the workers are back.                            *)
Restart(c) ==
    /\ Take(c, "restart")
    /\ LET cs == SetToSeq(registered \cup {FireAndForget})
       IN  Call([i \in DOMAIN cs |-> ReleasesOf(cs[i], Wanted(tasks, cs[i]))])
    /\ restarts' = restarts + 1
    /\ UNCHANGED <<tasks, registered, batch, down, comms, rpcs, remote>>
Restarted ==
    /\ Idle /\ restarts > 0
    /\ restarts' = restarts - 1
    /\ Send(Tell(Clients, "restart", "none"))
    /\ UNCHANGED <<tasks, registered, owner, todo, batch, up, comms, rpcs, remote>>
-----------------------------------------------------------------------------
(* The RPCs.  stimulus_cancel *)
StimulusCancel(m) ==
    /\ Idle /\ m \in calls /\ m.op = "cancel"
    /\ owner' = "rpc"
    /\ LET ks == SetToSeq(m.keys)
       IN  Call([i \in DOMAIN ks |-> CancelOf(ks[i], m.client, m.force, CancelTries)])
    /\ calls' = calls \ {m} /\ replies' = replies \cup {m}
    /\ UNCHANGED <<tasks, registered, batch, restarts, streams, again, remote>>
CancelAgain(f) ==
    /\ Idle /\ f \in again
    /\ owner' = "rpc"
    /\ Call(<<f>>)
    /\ again' = again \ {f}
    /\ UNCHANGED <<tasks, registered, batch, restarts, streams, calls, replies, remote>>

(* stimulus_retry: the erred tasks it finds going up from the keys; it       *)
(* raises for a key that is unknown.                                         *)
ErredAbove(t, keys) ==
    {k \in Keys : \A S \in SUBSET Keys :
        (keys \subseteq S /\ \A j \in S : {d \in t[j].deps : t[d].state = "erred"} \subseteq S)
        => k \in S}
StimulusRetry(m) ==
    /\ Idle /\ m \in calls /\ m.op = "retry"
    /\ owner' = "rpc"
    /\ LET seen == ErredAbove(tasks, m.keys)
           roots == {k \in seen : \A d \in tasks[k].deps : tasks[d].state # "erred"}
       IN  IF \E k \in m.keys : tasks[k].state = "unknown"
           THEN replies' = replies \cup {[m EXCEPT !.op = "failed"]} /\ UNCHANGED todo
           ELSE /\ replies' = replies \cup {[m EXCEPT !.keys = seen]}
                /\ Call(Recommended(Recs(roots, "waiting")))
    /\ calls' = calls \ {m}
    /\ UNCHANGED <<tasks, registered, batch, restarts, streams, again, remote>>

(* task-erred-lambda: stimulus_task_erred_lambda, for an Executor that calls *)
(* the Scheduler itself; a task may have retries left.                       *)
StimulusTaskErred(m) ==
    /\ Idle /\ m \in calls /\ m.op = "task-erred-lambda"
    /\ owner' = "rpc"
    /\ calls' = calls \ {m}
    /\ \E k \in m.keys, retries \in BOOLEAN :
          LET r == Transition(tasks, k, IF retries THEN "waiting" ELSE "erred", stored)
              free == ~retries /\ FireAndForget \in tasks[k].wants
          IN  IF tasks[k].state = "processing"
              THEN /\ tasks' = r.t
                   /\ Send(r.out)
                   /\ Call((IF free THEN <<ReleasesOf(FireAndForget, {k})>> ELSE <<>>)
                           \o Recommended(r.recs))
              ELSE UNCHANGED <<tasks, down, todo>>
    /\ UNCHANGED <<registered, batch, restarts, up, comms, replies, again, remote>>
-----------------------------------------------------------------------------
(* consume_redis_queue: some messages are taken off the queue (as many as    *)
(* there are, up to a number or a time), then handled.                       *)
ConsumeRedisQueue ==
    /\ Idle /\ queue # <<>>
    /\ \E n \in 1..Len(queue) :
          /\ n <= MaxBatch
          /\ batch' = SubSeq(queue, 1, n)
          /\ queue' = SubSeq(queue, n + 1, Len(queue))
    /\ owner' = "lambda"
    /\ UNCHANGED <<tasks, registered, todo, restarts, streams, rpcs, jobs, stored>>

NextMessage(ops) ==
    /\ todo = <<>> /\ batch # <<>> /\ Head(batch).op \in ops
    /\ batch' = Tail(batch)

(* result_from_lambda and stimulus_task_finished_lambda: only a task that is *)
(* processing takes a result.  transition's {key: "memory"} is recommended   *)
(* after the fire-and-forget client has released the key.                    *)
FinishesAny(k) == tasks[k].state # "unknown"  \* mistake: in any state
Finishes(k) == tasks[k].state = "processing"
ResultFromLambda ==
    /\ NextMessage({"lambda-result", "executed-task"})
    /\ LET k == Head(batch).key
           r == ProcessingMemory(tasks, k)
       IN  IF Finishes(k)
           THEN /\ tasks' = r.t
                /\ Send(r.out)
                /\ Call((IF FireAndForget \in tasks[k].wants
                         THEN <<ReleasesOf(FireAndForget, {k})>> ELSE <<>>)
                        \o Recommended(r.recs))
           ELSE UNCHANGED <<tasks, down, todo>>
    /\ UNCHANGED <<registered, owner, restarts, up, comms, rpcs, remote>>

(* The other messages of result_from_lambda only set the state of the task.  *)
StateFromLambda ==
    /\ NextMessage({"executing-task", "task-erred"})
    /\ LET m == Head(batch)
       IN  tasks' = IF tasks[m.key].state = "unknown" THEN tasks
                    ELSE [tasks EXCEPT ![m.key].state =
                              IF m.op = "task-erred" THEN "erred" ELSE "processing"]
    /\ UNCHANGED <<registered, owner, todo, restarts, streams, rpcs, remote>>
-----------------------------------------------------------------------------
(* An Executor of a job begins a task when everything it needs is done; this *)
(* is seen here only when debugging.                                         *)
Publish(ms) == queue' = queue \o ms
Ready(i) == {k \in jobs[i].left : DepsOf[k] \subseteq jobs[i].done}
Executing(i) == IF LambdaDebug THEN jobs[i].going ELSE Ready(i)
Done(i, k) == [jobs[i] EXCEPT !.left = @ \ {k}, !.going = @ \ {k}]
ExecutorBegins(i, k) ==
    /\ LambdaDebug /\ k \in Ready(i)
    /\ jobs' = [jobs EXCEPT ![i].left = @ \ {k}, ![i].going = @ \cup {k}]
    /\ Publish(<<Message("executing-task", k)>>)
    /\ UNCHANGED <<tasks, registered, owner, todo, batch, restarts, streams, rpcs, stored>>

(* It ends: the output of a root is stored before its message is published.  *)
(* That of another task is stored if it is needed there, and reported then   *)
(* if debugging.                                                             *)
ExecutorEnds(i, k, kept) ==
    /\ k \in Executing(i)
    /\ k \in jobs[i].roots => kept
    /\ jobs' = [jobs EXCEPT ![i] = [Done(i, k) EXCEPT !.done = @ \cup {k}]]
    /\ stored' = IF kept THEN stored \cup {k} ELSE stored
    /\ Publish(IF k \in jobs[i].roots THEN <<Message("lambda-result", k)>>
               ELSE IF LambdaDebug /\ kept THEN <<Message("executed-task", k)>> ELSE <<>>)
    /\ UNCHANGED <<tasks, registered, owner, todo, batch, restarts, streams, rpcs>>

ExecutorFails(i, k) ==
    /\ k \in Executing(i)
    /\ jobs' = [jobs EXCEPT ![i] = Done(i, k)]
    /\ Publish(<<Message("task-erred", k)>>)
    /\ UNCHANGED <<tasks, registered, owner, todo, batch, restarts, streams, rpcs, stored>>

(* An Executor that reports an error with an RPC (none in this repository    *)
(* does; the handler is there).                                              *)
ExecutorCalls(i, k) ==
    /\ RpcErrors
    /\ k \in Executing(i)
    /\ jobs' = [jobs EXCEPT ![i] = Done(i, k)]
    /\ calls' = calls \cup {[op |-> "task-erred-lambda", client |-> "none", keys |-> {k}, force |-> FALSE]}
    /\ UNCHANGED <<tasks, registered, owner, todo, batch, restarts, streams, replies, again, queue, stored>>

Handler ==
    TransitionsStep \/ ReleaseKeys \/ CancelKey \/ CancelledKey \/ RemoveClient
    \/ DeleteClient \/ UpdateGraphCancel \/ UpdateGraph \/ UpdateGraphFails
    \/ ResultFromLambda \/ StateFromLambda
Stream(c) ==
    HandleUpdateGraph(c) \/ ClientDesiresKeys(c) \/ ClientReleasesKeys(c)
    \/ HandleReportKey(c) \/ ReportFails(c) \/ CloseClient(c) \/ AddClient(c) \/ Restart(c)
Rpc == \E m \in calls : StimulusCancel(m) \/ StimulusRetry(m) \/ StimulusTaskErred(m)
Executor ==
    \E i \in DOMAIN jobs, k \in Keys :
        \/ ExecutorBegins(i, k) \/ ExecutorFails(i, k) \/ ExecutorCalls(i, k)
        \/ \E kept \in BOOLEAN : ExecutorEnds(i, k, kept)
SchedulerNext ==
    \/ Handler \/ Rpc \/ ConsumeRedisQueue \/ Restarted
    \/ \E f \in again : CancelAgain(f)
    \/ \E c \in Clients : Stream(c)
    \/ Executor
=============================================================================
