--------------------------- MODULE FargateCluster ---------------------------
(* The Fargate nodes that hold the outputs of tasks: update_graph launches   *)
(* them through an ECS service, in a process of its own, and maps every task *)
(* to one of them.  update_graph does not yield, but ECS and the Executors   *)
(* of earlier jobs go on.                                                    *)
EXTENDS Naturals, Sequences, FiniteSets, SequencesExt

CONSTANTS FargateJobs,  \* the jobs that may be submitted, sets of tasks
          MaxNodes,     \* MAX_FARGATE_TASKS; bound on num_fargate_nodes
          MaxArns,      \* bound: the nodes that are ever started
          MaxJobs       \* bound: jobs and calls of the user

ASSUME FargateAssumption == MaxNodes \in Nat /\ MaxArns \in Nat /\ MaxJobs \in Nat

VARIABLES desired,   \* desiredCount of the service, 0 if there is none
          starting,  \* nodes ECS is starting
          running,   \* nodes in the state RUNNING
          arns,      \* nodes started so far, numbered
          current,   \* workload_fargate_tasks['current']
          wished,    \* num_fargate_nodes
          launched,  \* fargate_tasks, the list shared with the launcher process
          launcher,  \* where the launcher is: "none", "service", "waiting", "done"
          toMap,     \* the tasks of the job that are not mapped yet
          inGraph,   \* update_graph is being executed
          nodeOf,    \* tasks_to_fargate_nodes
          written,   \* the outputs: the node each was written to
          taken,     \* nodes that ECS or the user has stopped
          fargateOps \* jobs and calls made

fargateVars == <<desired, starting, running, arns, current, wished, launched, launcher, toMap,
                 inGraph, nodeOf, written, taken, fargateOps>>
ecsVars == <<desired, starting, running, arns>>
scheduleOfNodes == <<current, launched, launcher, toMap, inGraph, nodeOf>>

FargateInit ==
    /\ desired = 0 /\ starting = {} /\ running = {} /\ arns = 0
    /\ current = <<>> /\ wished \in 1..MaxNodes /\ launched = <<>> /\ launcher = "none"
    /\ toMap = {} /\ inGraph = FALSE /\ nodeOf = <<>> /\ written = <<>>
    /\ taken = {} /\ fargateOps = 0

(* A list without some nodes.                                                *)
Omitting(list, ns) ==
    FlattenSeq([i \in DOMAIN list |-> IF list[i] \in ns THEN <<>> ELSE <<list[i]>>])

UserCall == ~inGraph /\ fargateOps < MaxJobs /\ fargateOps' = fargateOps + 1
-----------------------------------------------------------------------------
(* The beginning of update_graph: when there are too many nodes, the         *)
(* launcher is given all that are known; when too few, none.                 *)
BeginGraph(job) ==
    /\ UserCall
    /\ inGraph' = TRUE /\ toMap' = job
    /\ IF Len(current) = wished THEN UNCHANGED <<current, launched, launcher>>
       ELSE /\ launcher' = "service"
            /\ launched' = IF Len(current) > wished THEN current ELSE <<>>
            /\ current' = IF Len(current) > wished THEN current ELSE <<>>
    /\ UNCHANGED <<ecsVars, wished, nodeOf, written, taken>>

(* launch_fargate_nodes: create the service or update its desired count.     *)
LaunchService ==
    /\ launcher = "service"
    /\ launcher' = "waiting"
    /\ desired' = wished
    /\ UNCHANGED <<starting, running, arns, current, wished, launched, toMap, inGraph, nodeOf,
                   written, taken, fargateOps>>

(* It waits until as many nodes run as it wants, and lists them.             *)
AllRunningAtOnce == TRUE  \* mistake: it does not wait
AllRunning == Cardinality(running) = desired
CollectNodes ==
    /\ launcher = "waiting" /\ AllRunning
    /\ launcher' = "done"
    /\ launched' = launched \o SetToSeq((starting \cup running) \ ToSet(launched))
    /\ UNCHANGED <<ecsVars, current, wished, toMap, inGraph, nodeOf, written, taken, fargateOps>>

(* update_graph joins the launcher and adds what it has found.               *)
FoundAll == launched  \* mistake: known nodes are added again
Found == Omitting(launched, ToSet(current))
JoinLauncher ==
    /\ launcher = "done"
    /\ launcher' = "none" /\ launched' = <<>>
    /\ current' = current \o Found
    /\ UNCHANGED <<ecsVars, wished, toMap, inGraph, nodeOf, written, taken, fargateOps>>

(* DFS: a task seen before stays with its node.                              *)
NodesForAny(t) == ToSet(current)  \* mistake: a task is mapped anew by each job
NodesFor(t) == IF t \in DOMAIN nodeOf THEN {nodeOf[t]} ELSE ToSet(current)
MapTask(t) ==
    /\ inGraph /\ launcher = "none" /\ t \in toMap
    /\ \E n \in NodesFor(t) : nodeOf' = [s \in DOMAIN nodeOf \cup {t} |-> IF s = t THEN n ELSE nodeOf[s]]
    /\ toMap' = toMap \ {t}
    /\ inGraph' = (toMap' # {})
    /\ UNCHANGED <<ecsVars, current, wished, launched, launcher, written, taken, fargateOps>>

(* An Executor writes an output to the node the schedule names, if it runs.  *)
WriteOutput(t) ==
    /\ t \in DOMAIN nodeOf \ toMap /\ t \notin DOMAIN written
    /\ nodeOf[t] \in running
    /\ written' = [s \in DOMAIN written \cup {t} |-> IF s = t THEN nodeOf[t] ELSE written[s]]
    /\ UNCHANGED <<ecsVars, scheduleOfNodes, wished, taken, fargateOps>>
-----------------------------------------------------------------------------
(* ECS (external): the service starts and stops nodes until it has as many   *)
(* as it should; a node that was stopped otherwise is replaced.              *)
NodeStarts ==
    /\ Cardinality(starting \cup running) < desired /\ arns < MaxArns
    /\ arns' = arns + 1
    /\ starting' = starting \cup {arns + 1}
    /\ UNCHANGED <<desired, running, scheduleOfNodes, wished, written, taken, fargateOps>>
NodeRuns(n) ==
    /\ n \in starting
    /\ starting' = starting \ {n} /\ running' = running \cup {n}
    /\ UNCHANGED <<desired, arns, scheduleOfNodes, wished, written, taken, fargateOps>>
Stopped(ns) ==
    /\ running' = running \ ns
    /\ taken' = taken \cup ns
    /\ UNCHANGED <<desired, starting, arns>>
NodeStops(n) ==
    /\ n \in running /\ Cardinality(starting \cup running) > desired
    /\ Stopped({n})
    /\ UNCHANGED <<scheduleOfNodes, wished, written, fargateOps>>
-----------------------------------------------------------------------------
(* close_fargate_tasks removes from the list it iterates over, so that it    *)
(* comes to every second node only.                                          *)
CloseFargateTasks ==
    /\ UserCall
    /\ Stopped({current[i] : i \in {j \in DOMAIN current : j % 2 = 1}})
    /\ current' = [i \in 1..(Len(current) \div 2) |-> current[2 * i]]
    /\ UNCHANGED <<wished, launched, launcher, toMap, inGraph, nodeOf, written>>

(* stop_fargate_tasks, for ARNs; given the nodes themselves it stops them    *)
(* and keeps them in the list.                                               *)
StopFargateTasks(ns, arnsGiven) ==
    /\ UserCall
    /\ ns \subseteq ToSet(current) /\ ns # {}
    /\ Stopped(ns)
    /\ current' = IF arnsGiven THEN Omitting(current, ns) ELSE current
    /\ UNCHANGED <<wished, launched, launcher, toMap, inGraph, nodeOf, written>>

SetNumFargateNodes(n) ==
    /\ UserCall
    /\ wished' = n
    /\ UNCHANGED <<ecsVars, scheduleOfNodes, written, taken>>

FargateNext ==
    \/ \E job \in FargateJobs : BeginGraph(job)
    \/ LaunchService \/ CollectNodes \/ JoinLauncher
    \/ \E t \in UNION FargateJobs : MapTask(t) \/ WriteOutput(t)
    \/ NodeStarts \/ \E n \in 1..arns : NodeRuns(n) \/ NodeStops(n)
    \/ CloseFargateTasks
    \/ \E ns \in SUBSET ToSet(current), given \in BOOLEAN : StopFargateTasks(ns, given)
    \/ \E n \in 1..MaxNodes : SetNumFargateNodes(n)
-----------------------------------------------------------------------------
(* Whatever jobs come later and however the cluster changes, the schedule    *)
(* leads an Executor to the node an output was written to.                   *)
OutputsWhereMapped == \A t \in DOMAIN written : nodeOf[t] = written[t]

(* Tasks are mapped only to nodes that run, until nodes are taken away: then *)
(* the list is not cleaned (ECS shrinks the cluster, or update_graph finds   *)
(* as many nodes in it as it wants), and mappings to lost nodes are kept.    *)
MappedToRunning ==
    (taken = {} /\ inGraph /\ launcher = "none") => ToSet(current) \subseteq running

(* A node is listed once only (random.choice would prefer it).               *)
NodesListedOnce == Cardinality(ToSet(current)) = Len(current)
=============================================================================
