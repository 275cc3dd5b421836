--------------------------- MODULE StaticSchedule ---------------------------
(* update_graph's schedule: a depth-first search from each leaf cuts the new *)
(* part of the DAG into paths, which are stored in Redis, with the           *)
(* dependency counters, before an Executor is invoked for each leaf.  Sets   *)
(* are walked in any order.                                                  *)
EXTENDS Naturals, Sequences, FiniteSets, SequencesExt

CONSTANTS Nodes,     \* the tasks
          DagDeps,   \* the possible dependencies: functions from Nodes to SUBSET Nodes
          None,      \* no task
          MaxFanOut  \* max_task_fanout

(* The tasks of a job are a finite set, and their dependencies have no cycle. *)
ASSUME ScheduleAssumption ==
    /\ IsFiniteSet(Nodes) /\ None \notin Nodes /\ DagDeps \subseteq [Nodes -> SUBSET Nodes]
    /\ \A d \in DagDeps : \A S \in SUBSET Nodes : S # {} => \E t \in S : d[t] \cap S = {}

VARIABLES deps,      \* the dependencies of each task
          earlier,   \* earlier[t]: the state of a task of an earlier job, or "new"
          visited,   \* the tasks the search has come to
          paths,     \* tasks_to_path_starts: the path that starts at a task
          startsAt,  \* starts_at: the start of the path a task was put on
          become,    \* the task to continue with, or None
          invoke,    \* the tasks to invoke
          proxied,   \* the tasks with use_proxy
          frames,    \* the calls of DFS in progress: <<task, path, dependents left>>
          leaves,    \* the leaves to search from
          redis,     \* the nodes maps and counters in Redis, once stored
          invoked    \* the leaves with an Executor

scheduleVars == <<deps, earlier, visited, paths, startsAt, become, invoke, proxied, frames,
                  leaves, redis, invoked>>
graph == <<deps, earlier>>

Dependents(t) == {s \in Nodes : t \in deps[s]}
NewTasks == {t \in Nodes : earlier[t] = "new"}

(* The leaves: new tasks all of whose dependencies are in memory.            *)
LeavesOf(d, e) == {t \in Nodes : e[t] = "new" /\ \A s \in d[t] : e[s] = "memory"}

(* Tasks of earlier jobs depend on such tasks only; those in "processing"    *)
(* are still being executed, or their end is not reported.                   *)
ScheduleInit ==
    /\ deps \in DagDeps
    /\ earlier \in {e \in [Nodes -> {"new", "memory", "processing"}] :
                       \A t \in Nodes : e[t] # "new" => \A s \in deps[t] : e[s] # "new"}
    /\ visited = {} /\ paths = <<>> /\ startsAt = <<>>
    /\ become = <<>> /\ invoke = <<>> /\ proxied = {} /\ frames = <<>>
    /\ leaves = LeavesOf(deps, earlier)
    /\ redis = [stored |-> FALSE, maps |-> <<>>, counters |-> <<>>] /\ invoked = {}
-----------------------------------------------------------------------------
Put(f, t, v) == [s \in DOMAIN f \cup {t} |-> IF s = t THEN v ELSE f[s]]
Idx(path, t) == CHOOSE i \in DOMAIN path : path[i] = t

(* DFS(t, path): the node is added to the path, and its dependents come next.*)
VisitUnregistered(t, start) ==  \* mistake: a path of its own is not registered
    /\ visited' = visited \cup {t}
    /\ startsAt' = Put(startsAt, t, start)
    /\ paths' = IF start \in DOMAIN paths THEN [paths EXCEPT ![start] = Append(@, t)] ELSE paths
Visit(t, start) ==
    /\ visited' = visited \cup {t}
    /\ startsAt' = Put(startsAt, t, start)
    /\ paths' = IF start = t THEN Put(paths, t, <<t>>)
                ELSE [paths EXCEPT ![start] = Append(@, t)]
UsesProxy(t) == IF Cardinality(Dependents(t)) >= MaxFanOut THEN {t} ELSE {}
Frame(t, start) == [task |-> t, path |-> start, left |-> Dependents(t)]

SearchFromLeaf(t) ==
    /\ frames = <<>> /\ t \in leaves \ visited
    /\ Visit(t, t)
    /\ become' = Put(become, t, None) /\ invoke' = Put(invoke, t, <<>>)
    /\ proxied' = proxied \cup UsesProxy(t)
    /\ frames' = <<Frame(t, t)>>
    /\ UNCHANGED <<graph, leaves, redis, invoked>>

(* The next dependent s of the node t in front; the rest of the loop is left *)
(* to the frame below.                                                       *)
Current == frames[1].task
Rest(s) == <<[frames[1] EXCEPT !.left = @ \ {s}]>> \o Tail(frames)
Becomes(s) == become[Current] = None /\ become' = [become EXCEPT ![Current] = s]
              /\ UNCHANGED invoke
InvokesTwice(s) ==  \* mistake: invoked twice
    become[Current] # None /\ invoke' = [invoke EXCEPT ![Current] = @ \o <<s, s>>] /\ UNCHANGED become
Invokes(s) == become[Current] # None /\ invoke' = [invoke EXCEPT ![Current] = Append(@, s)]
              /\ UNCHANGED become

(* s has been visited: if no path starts there, cut its path at s.           *)
SubPathShort(s) == LET p == paths[startsAt[s]] IN SubSeq(p, Idx(p, s) + 1, Len(p))  \* mistake
SubPath(s) == LET p == paths[startsAt[s]] IN SubSeq(p, Idx(p, s), Len(p))
PathFrom(s) == IF s \in DOMAIN paths THEN paths[s] ELSE SubPath(s)

JoinPath(s) ==
    /\ frames # <<>> /\ s \in frames[1].left \cap visited
    /\ Becomes(s)
    /\ paths' = [paths EXCEPT ![frames[1].path] = @ \o PathFrom(s)]
    /\ frames' = Rest(s)
    /\ UNCHANGED <<graph, visited, startsAt, proxied, leaves, redis, invoked>>

InvokePath(s) ==
    /\ frames # <<>> /\ s \in frames[1].left \cap visited
    /\ Invokes(s)
    /\ paths' = Put(paths, s, PathFrom(s))
    /\ frames' = Rest(s)
    /\ UNCHANGED <<graph, visited, startsAt, proxied, leaves, redis, invoked>>

(* s has not been visited: search on from there, on the same path or on one  *)
(* of its own.                                                               *)
SearchOn(s) ==
    /\ frames # <<>> /\ s \in frames[1].left \ visited
    /\ LET own == become[Current] # None
           start == IF own THEN s ELSE frames[1].path
       IN  /\ Visit(s, start)
           /\ become' = Put([become EXCEPT ![Current] = IF own THEN @ ELSE s], s, None)
           /\ invoke' = Put([invoke EXCEPT ![Current] = IF own THEN Append(@, s) ELSE @], s, <<>>)
           /\ proxied' = proxied \cup UsesProxy(s)
           /\ frames' = <<Frame(s, start)>> \o Rest(s)
    /\ UNCHANGED <<graph, leaves, redis, invoked>>

Return ==
    /\ frames # <<>> /\ frames[1].left = {}
    /\ frames' = Tail(frames)
    /\ UNCHANGED <<graph, visited, paths, startsAt, become, invoke, proxied, leaves, redis, invoked>>
-----------------------------------------------------------------------------
(* The nodes map of a path holds its nodes and those they invoke.            *)
NodesMap(path) == ToSet(path) \cup UNION {ToSet(invoke[t]) : t \in ToSet(path)}
InitialCounterAll(t) == Cardinality({s \in deps[t] : earlier[s] # "new"})  \* mistake
InitialCounter(t) == Cardinality({s \in deps[t] : earlier[s] = "memory"})

(* One mset stores everything.                                               *)
StorePaths ==
    /\ frames = <<>> /\ leaves \subseteq visited /\ ~redis.stored
    /\ redis' = [stored |-> TRUE,
                 maps |-> [s \in DOMAIN paths |-> NodesMap(paths[s])],
                 counters |-> [t \in visited |-> InitialCounter(t)]]
    /\ UNCHANGED <<graph, visited, paths, startsAt, become, invoke, proxied, frames, leaves, invoked>>

InvokeLeaf(t) ==
    /\ redis.stored /\ t \in leaves \ invoked
    /\ invoked' = invoked \cup {t}
    /\ UNCHANGED <<graph, visited, paths, startsAt, become, invoke, proxied, frames, leaves, redis>>

ScheduleNext ==
    \/ \E t \in Nodes :
          \/ SearchFromLeaf(t) \/ JoinPath(t) \/ InvokePath(t) \/ SearchOn(t) \/ InvokeLeaf(t)
    \/ Return \/ StorePaths

ScheduleSpec == ScheduleInit /\ [][ScheduleNext]_scheduleVars
-----------------------------------------------------------------------------
ScheduleTypeOK ==
    /\ visited \subseteq NewTasks /\ leaves \subseteq NewTasks /\ invoked \subseteq leaves
    /\ DOMAIN paths \subseteq visited /\ proxied \subseteq visited
    /\ startsAt \in [visited -> DOMAIN paths]
    /\ become \in [visited -> visited \cup {None}]
    /\ DOMAIN invoke = visited

(* An Executor finds its way.  It is invoked for a task with the path that   *)
(* the task was put on; it looks for the out-edges of a node among the nodes *)
(* it has got and then on the path the node was put on, and when it goes on  *)
(* with a task of the invoke list it loads the path that starts there        *)
(* (process_path).  None of this may miss in Redis.                          *)
ExecutorsFindNodes ==
    redis.stored =>
        \A t \in visited :
            /\ startsAt[t] \in DOMAIN redis.maps
            /\ t \in redis.maps[startsAt[t]]
            /\ ToSet(invoke[t]) \cup ({become[t]} \ {None}) \subseteq redis.maps[startsAt[t]]
            /\ ToSet(invoke[t]) \subseteq DOMAIN redis.maps

(* Every out-edge of the DAG is in the schedule exactly once.                *)
EdgesScheduledOnce ==
    redis.stored =>
        \A t \in visited :
            /\ ToSet(invoke[t]) \cup ({become[t]} \ {None}) = Dependents(t)
            /\ Len(invoke[t]) + (IF become[t] = None THEN 0 ELSE 1) = Cardinality(Dependents(t))

(* A path follows the become edges from its start down to a root.            *)
PathsEndAtRoots ==
    redis.stored =>
        \A s \in DOMAIN paths :
            LET p == paths[s]
            IN  /\ p[1] = s
                /\ \A i \in 1..Len(p) : become[p[i]] = IF i < Len(p) THEN p[i + 1] ELSE None

(* The new tasks that wait, directly or not, for one an earlier job is       *)
(* still executing.                                                          *)
Behind ==
    {t \in NewTasks : \A S \in SUBSET Nodes :
        ({u \in Nodes : earlier[u] = "processing"} \subseteq S
            /\ \A u \in S : Dependents(u) \subseteq S) => t \in S}

(* Every task gets its turn: the counter of a task can reach the number of   *)
(* its dependencies, or all of them are done already, unless the task waits  *)
(* for one of an earlier job that is still executed: while it is, the        *)
(* counter cannot be complete.                                               *)
CountersComplete ==
    redis.stored =>
        /\ \A t \in NewTasks \ Behind :
              /\ t \in visited
              /\ redis.counters[t] + Cardinality(deps[t] \cap visited) = Cardinality(deps[t])
        /\ \A t \in visited :
              (\E s \in deps[t] : earlier[s] = "processing")
                  => redis.counters[t] + Cardinality(deps[t] \cap visited) < Cardinality(deps[t])
=============================================================================
