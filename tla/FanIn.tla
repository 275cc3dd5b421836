------------------------------- MODULE FanIn --------------------------------
(* The fan-in protocol of the Task Executors: how Executors that finish the  *)
(* dependencies of one task agree, through an integer in Redis, on which of  *)
(* them executes it.  Executors are not named here: what an Executor does    *)
(* with the DAG edge <<d, t>> (it ran d, and t depends on d) is one action.  *)
(*                                                                           *)
(* An Executor that ran d HOLDS the edge <<d, t>> until it either            *)
(*   - increments t's counter: t is its own if the new value is the number   *)
(*     of dependencies, otherwise the edge is given away; or                 *)
(*   - only reads the counter and finds every other edge counted: then t is  *)
(*     its own and the counter may stay one short for ever ("become"), or be *)
(*     incremented later for book-keeping (big tasks).                       *)
EXTENDS Naturals, FiniteSets

CONSTANTS Tasks,    \* the keys of the job's tasks
          Deps      \* Deps[t]: task_payload["dependencies"] of task t

(* The job is a finite graph.  That it has no cycle (Dask guarantees it) is  *)
(* not needed by anything proved about this module.                          *)
ASSUME DagAssumption ==
    /\ IsFiniteSet(Tasks)
    /\ Deps \in [Tasks -> SUBSET Tasks]

VARIABLES runs,     \* runs[t]: how often the code of task t has been run
          counter,  \* counter[t]: the Redis integer "<t>---dep-counter"
          counted,  \* edges whose increment has been done (auxiliary)
          held,     \* edges some Executor still has to deal with (auxiliary)
          stored,   \* tasks whose output is in the intermediate KV store
          claims    \* claims[t]: how often an Executor decided to run t

vars == <<runs, counter, counted, held, stored, claims>>

Edges == {g \in Tasks \X Tasks : g[1] \in Deps[g[2]]}
OutEdges(t) == {g \in Edges : g[1] = t}
CountedDeps(t) == {d \in Deps[t] : <<d, t>> \in counted}

(* num_dependencies: len(task_payload["dependencies"]). *)
NumDepsShort(t) == Cardinality(Deps[t]) - 1  \* mistake: off by one
NumDeps(t) == Cardinality(Deps[t])

TypeOK ==
    /\ runs \in [Tasks -> Nat]
    /\ counter \in [Tasks -> Nat]
    /\ counted \subseteq Edges
    /\ held \subseteq Edges
    /\ stored \subseteq Tasks
    /\ claims \in [Tasks -> Nat]
-----------------------------------------------------------------------------
(* update_graph: the counters start at zero and the Scheduler invokes one    *)
(* Executor for each leaf.                                                   *)
Init ==
    /\ runs = [t \in Tasks |-> 0]
    /\ counter = [t \in Tasks |-> 0]
    /\ counted = {}
    /\ held = {}
    /\ stored = {}
    /\ claims = [t \in Tasks |-> IF Deps[t] = {} THEN 1 ELSE 0]

(* process_task: the Executor that claimed t runs it and from then on holds  *)
(* its out-edges.                                                            *)
ProcessTask(t) ==
    /\ runs[t] < claims[t]
    /\ runs' = [runs EXCEPT ![t] = @ + 1]
    /\ held' = held \cup OutEdges(t)
    /\ UNCHANGED <<counter, counted, stored, claims>>

(* store_value_in_redis for a task this Executor has run. *)
StoreValue(d) ==
    /\ runs[d] > 0
    /\ d \notin stored
    /\ stored' = stored \cup {d}
    /\ UNCHANGED <<runs, counter, counted, held, claims>>

(* check_dependency_counter(increment = False) answering True.  (Answering   *)
(* False changes nothing: the edge is still held.)                           *)
CheckReadyKeepsEdge(d, t) ==  \* mistake: out_edges.remove is forgotten
    /\ <<d, t>> \in held
    /\ counter[t] = NumDeps(t) - 1
    /\ claims' = [claims EXCEPT ![t] = @ + 1]
    /\ UNCHANGED <<runs, counter, counted, held, stored>>
CheckReadyForgets(d, t) ==    \* mistake: the edge is dropped, the task not taken
    /\ <<d, t>> \in held
    /\ counter[t] = NumDeps(t) - 1
    /\ held' = held \ {<<d, t>>}
    /\ UNCHANGED <<runs, counter, counted, stored, claims>>
CheckReady(d, t) ==
    /\ <<d, t>> \in held
    /\ counter[t] = NumDeps(t) - 1
    /\ held' = held \ {<<d, t>>}
    /\ claims' = [claims EXCEPT ![t] = @ + 1]
    /\ UNCHANGED <<runs, counter, counted, stored>>

(* The book-keeping increment that follows CheckReady in process_big and     *)
(* process_enqueued_tasks; process_out_edges leaves it out.                  *)
BookKeep(d, t) ==
    /\ <<d, t>> \notin held \cup counted
    /\ runs[d] > 0
    /\ counter' = [counter EXCEPT ![t] = @ + 1]
    /\ counted' = counted \cup {<<d, t>>}
    /\ UNCHANGED <<runs, held, stored, claims>>

(* check_dependency_counter(increment = True): "first write the data, then   *)
(* increment the dependency counter"; whoever brings the counter to the      *)
(* number of dependencies runs the task.                                     *)
IncrementUnwritten(d, t) ==  \* mistake: counts before the output is written
    /\ <<d, t>> \in held
    /\ counter' = [counter EXCEPT ![t] = @ + 1]
    /\ counted' = counted \cup {<<d, t>>}
    /\ held' = held \ {<<d, t>>}
    /\ claims' = [claims EXCEPT ![t] =
                     IF counter[t] + 1 = NumDeps(t) THEN @ + 1 ELSE @]
    /\ UNCHANGED <<runs, stored>>
Increment(d, t) ==
    /\ <<d, t>> \in held
    /\ d \in stored
    /\ counter' = [counter EXCEPT ![t] = @ + 1]
    /\ counted' = counted \cup {<<d, t>>}
    /\ held' = held \ {<<d, t>>}
    /\ claims' = [claims EXCEPT ![t] =
                     IF counter[t] + 1 = NumDeps(t) THEN @ + 1 ELSE @]
    /\ UNCHANGED <<runs, stored>>

Next ==
    \/ \E t \in Tasks : ProcessTask(t) \/ StoreValue(t)
    \/ \E t \in Tasks : \E d \in Deps[t] :
          CheckReady(d, t) \/ BookKeep(d, t) \/ Increment(d, t)

Spec == Init /\ [][Next]_vars
-----------------------------------------------------------------------------
(* A fan-in task is claimed by at most one of the Executors racing for it,   *)
(* whichever mixture of reading (check_dependency_counter without increment) *)
(* and incrementing they use.                                                *)
AtMostOneClaim == \A t \in Tasks : claims[t] <= 1

(* A task is claimed only when everything it depends on has run: the counter *)
(* never announces readiness early.                                          *)
ClaimedAfterDeps ==
    \A t \in Tasks : claims[t] > 0 => \A d \in Deps[t] : runs[d] > 0

(* The Executor that claims a task can obtain its inputs: all of them, except*)
(* at most the one this Executor produced itself, are in the KV store.       *)
InputsObtainable ==
    \A t \in Tasks : claims[t] > 0 /\ Deps[t] # {} =>
        \E v \in Deps[t] : Deps[t] \ {v} \subseteq stored

(* No increment is lost or done twice: a task nobody has claimed yet still   *)
(* has, for every finished dependency, an edge that is held or counted, so   *)
(* the last Executor to arrive finds it.                                     *)
NoEdgeLost ==
    \A t \in Tasks : claims[t] = 0 =>
        \A d \in Deps[t] : runs[d] > 0 => <<d, t>> \in held \cup counted

(* The counter is exactly the number of edges counted.                       *)
CounterExact == \A t \in Tasks : counter[t] = Cardinality(CountedDeps(t))

(* The inductive strengthening of the properties above.                      *)
EdgeInv ==
    /\ held \cap counted = {}
    /\ \A g \in held \cup counted : runs[g[1]] > 0
    /\ \A t \in Tasks : runs[t] <= claims[t]
    /\ \A t \in Tasks : claims[t] > 0 => \A d \in Deps[t] : <<d, t>> \notin held
    /\ \A t \in Tasks : claims[t] = 0 => CountedDeps(t) \subseteq stored
    /\ \A t \in Tasks : Deps[t] = {} => claims[t] = 1

FanInInv ==
    /\ TypeOK
    /\ CounterExact
    /\ EdgeInv
    /\ AtMostOneClaim
    /\ ClaimedAfterDeps
    /\ InputsObtainable
    /\ NoEdgeLost
-----------------------------------------------------------------------------
(* The protocol implements DagExecution: every task runs at most once, and   *)
(* only after its dependencies.                                              *)
Dag == INSTANCE DagExecution

DagSpec == Dag!Spec
=============================================================================
