---------------------------- MODULE FanInProofs -----------------------------
(* Machine-checked proofs about FanIn, for every finite DAG.                 *)
EXTENDS FanIn, FiniteSetTheorems, TLAPS

(* The dependencies of a task, and the counted ones among them, are finite   *)
(* sets, so their cardinalities are natural numbers.                         *)
LEMMA DepsFinite ==
    ASSUME NEW t \in Tasks
    PROVE  /\ IsFiniteSet(Deps[t]) /\ NumDeps(t) \in Nat
           /\ IsFiniteSet(CountedDeps(t)) /\ Cardinality(CountedDeps(t)) \in Nat
           /\ CountedDeps(t) \subseteq Deps[t]
           /\ NumDeps(t) = 0 <=> Deps[t] = {}
<1>1. Deps[t] \subseteq Tasks /\ IsFiniteSet(Tasks)
  BY DagAssumption
<1>2. IsFiniteSet(Deps[t])
  BY <1>1, FS_Subset
<1>3. CountedDeps(t) \subseteq Deps[t]
  BY DEF CountedDeps
<1>4. IsFiniteSet(CountedDeps(t))
  BY <1>2, <1>3, FS_Subset
<1>5. NumDeps(t) = 0 <=> Deps[t] = {}
  BY <1>2, FS_EmptySet DEF NumDeps
<1> QED
  BY <1>2, <1>3, <1>4, <1>5, FS_CardinalityType DEF NumDeps

(* An edge is a pair of a task and one it depends on. *)
LEMMA EdgePair ==
    ASSUME NEW t \in Tasks, NEW d \in Deps[t]
    PROVE  <<d, t>> \in Edges /\ d \in Tasks
BY DagAssumption DEF Edges

(* Counting one more edge of t adds its source to the counted dependencies   *)
(* of t, raises their number by one, and leaves every other task alone.      *)
LEMMA CountOne ==
    ASSUME NEW t \in Tasks, NEW d \in Deps[t], <<d, t>> \notin counted,
           counted' = counted \cup {<<d, t>>}
    PROVE  /\ CountedDeps(t)' = CountedDeps(t) \cup {d}
           /\ Cardinality(CountedDeps(t)') = Cardinality(CountedDeps(t)) + 1
           /\ \A s \in Tasks \ {t} : CountedDeps(s)' = CountedDeps(s)
<1>1. CountedDeps(t)' = CountedDeps(t) \cup {d} /\ d \notin CountedDeps(t)
  BY DEF CountedDeps
<1>2. Cardinality(CountedDeps(t) \cup {d}) = Cardinality(CountedDeps(t)) + 1
  BY <1>1, DepsFinite, FS_AddElement
<1>3. \A s \in Tasks \ {t} : CountedDeps(s)' = CountedDeps(s)
  BY DEF CountedDeps
<1> QED
  BY <1>1, <1>2, <1>3

(* If all dependencies but the uncounted d are counted, in number, then they *)
(* are exactly the others.                                                   *)
LEMMA AllOthersCounted ==
    ASSUME NEW t \in Tasks, NEW d \in Deps[t], <<d, t>> \notin counted,
           Cardinality(CountedDeps(t)) = NumDeps(t) - 1
    PROVE  CountedDeps(t) = Deps[t] \ {d}
<1>1. CountedDeps(t) \subseteq Deps[t] \ {d}
  BY DEF CountedDeps
<1>2. IsFiniteSet(Deps[t] \ {d}) /\ Cardinality(Deps[t] \ {d}) = NumDeps(t) - 1
  BY DepsFinite, FS_RemoveElement DEF NumDeps
<1> QED
  BY <1>1, <1>2, FS_Subset
-----------------------------------------------------------------------------
(* The inductive invariant holds initially: only leaves are claimed. *)
LEMMA FanInInit == Init => FanInInv
<1> SUFFICES ASSUME Init PROVE FanInInv
  OBVIOUS
<1>1. TypeOK
  BY DEF Init, TypeOK
<1>2. CounterExact
  <2>1. \A t \in Tasks : CountedDeps(t) = {}
    BY DEF Init, CountedDeps
  <2> QED
    BY <2>1, FS_EmptySet DEF Init, CounterExact
<1>3. \A t \in Tasks : claims[t] = (IF Deps[t] = {} THEN 1 ELSE 0) /\ runs[t] = 0
  BY DEF Init
<1>4. EdgeInv
  BY <1>3 DEF Init, EdgeInv, CountedDeps
<1>5. AtMostOneClaim
  BY <1>3 DEF AtMostOneClaim
<1>6. ClaimedAfterDeps
  BY <1>3 DEF ClaimedAfterDeps
<1>7. InputsObtainable
  BY <1>3 DEF InputsObtainable
<1>8. NoEdgeLost
  BY <1>3, DagAssumption DEF NoEdgeLost
<1> QED
  BY <1>1, <1>2, <1>4, <1>5, <1>6, <1>7, <1>8 DEF FanInInv

(* Running a task: it was claimed once and never run, so none of its edges   *)
(* is held or counted yet.                                                   *)
LEMMA ProcessTaskStep ==
    ASSUME FanInInv, NEW t \in Tasks, ProcessTask(t)
    PROVE  FanInInv'
<1> USE DEF ProcessTask
<1>1. runs[t] = 0 /\ claims[t] = 1 /\ runs'[t] = 1
  BY DEF FanInInv, TypeOK, AtMostOneClaim
<1>2. TypeOK'
  BY DagAssumption DEF FanInInv, TypeOK, OutEdges
<1>3. CounterExact'
  BY DEF FanInInv, CounterExact, CountedDeps
<1>4. \A s \in Tasks : runs'[s] >= runs[s] /\ (runs[s] > 0 => runs'[s] > 0)
  BY <1>1 DEF FanInInv, TypeOK
<1>5. \A g \in OutEdges(t) : g \notin counted /\ g \notin held
  BY <1>1 DEF FanInInv, EdgeInv, OutEdges
<1>6. EdgeInv'
  <2>1. (held \cap counted = {})'
    BY <1>5 DEF FanInInv, EdgeInv
  <2>2. \A g \in (held \cup counted)' : runs'[g[1]] > 0
    BY <1>1, <1>4 DEF FanInInv, EdgeInv, TypeOK, Edges, OutEdges
  <2>3. \A s \in Tasks : runs'[s] <= claims'[s]
    BY <1>1 DEF FanInInv, EdgeInv, TypeOK
  <2>4. ASSUME NEW s \in Tasks, claims'[s] > 0, NEW d \in Deps[s]
        PROVE  <<d, s>> \notin held'
    <3>1. runs[d] > 0
      BY <2>4 DEF FanInInv, ClaimedAfterDeps
    <3>2. d # t
      BY <3>1, <1>1
    <3> QED
      BY <2>4, <3>2 DEF FanInInv, EdgeInv, OutEdges
  <2>5. \A s \in Tasks : claims'[s] = 0 => CountedDeps(s)' \subseteq stored'
    BY DEF FanInInv, EdgeInv, CountedDeps
  <2>6. \A s \in Tasks : Deps[s] = {} => claims'[s] = 1
    BY DEF FanInInv, EdgeInv
  <2> QED
    BY <2>1, <2>2, <2>3, <2>4, <2>5, <2>6 DEF EdgeInv
<1>7. AtMostOneClaim' /\ InputsObtainable'
  BY DEF FanInInv, AtMostOneClaim, InputsObtainable
<1>8. ClaimedAfterDeps'
  BY <1>4, DagAssumption DEF FanInInv, ClaimedAfterDeps
<1>9. NoEdgeLost'
  <2> SUFFICES ASSUME NEW s \in Tasks, claims[s] = 0, NEW d \in Deps[s], runs'[d] > 0
               PROVE  <<d, s>> \in (held \cup counted)'
    BY DEF NoEdgeLost
  <2>1. CASE d = t
    BY <2>1, EdgePair DEF OutEdges
  <2>2. CASE d # t
    BY <2>2, DagAssumption DEF FanInInv, NoEdgeLost, TypeOK
  <2> QED
    BY <2>1, <2>2
<1> QED
  BY <1>2, <1>3, <1>6, <1>7, <1>8, <1>9 DEF FanInInv

(* Writing an output only adds to the store. *)
LEMMA StoreValueStep ==
    ASSUME FanInInv, NEW t \in Tasks, StoreValue(t)
    PROVE  FanInInv'
<1> USE DEF StoreValue
<1>1. TypeOK'
  BY DEF FanInInv, TypeOK
<1>2. CounterExact' /\ EdgeInv'
  BY DEF FanInInv, CounterExact, CountedDeps, EdgeInv
<1>3. AtMostOneClaim' /\ ClaimedAfterDeps' /\ NoEdgeLost'
  BY DEF FanInInv, AtMostOneClaim, ClaimedAfterDeps, NoEdgeLost
<1>4. InputsObtainable'
  BY DEF FanInInv, InputsObtainable
<1> QED
  BY <1>1, <1>2, <1>3, <1>4 DEF FanInInv

(* A held edge belongs to a task nobody has claimed.                         *)
LEMMA HeldUnclaimed ==
    ASSUME FanInInv, NEW t \in Tasks, NEW d \in Deps[t], <<d, t>> \in held
    PROVE  claims[t] = 0 /\ <<d, t>> \notin counted /\ runs[d] > 0 /\ d \in Tasks
<1>1. claims[t] \in Nat /\ ~(claims[t] > 0)
  BY DEF FanInInv, TypeOK, EdgeInv
<1>2. <<d, t>> \notin counted
  BY DEF FanInInv, EdgeInv
<1>3. runs[<<d, t>>[1]] > 0
  BY DEF FanInInv, EdgeInv
<1> QED
  BY <1>1, <1>2, <1>3, DagAssumption

(* Claiming t with edge <<d, t>> when every other edge is counted: all that  *)
(* claims may break is re-established.                                       *)
LEMMA ClaimStep ==
    ASSUME FanInInv, NEW t \in Tasks, NEW d \in Deps[t], <<d, t>> \in held,
           CountedDeps(t) = Deps[t] \ {d},
           claims' = [claims EXCEPT ![t] = @ + 1],
           held' = held \ {<<d, t>>},
           counted \subseteq counted',
           UNCHANGED <<runs, stored>>
    PROVE  /\ AtMostOneClaim' /\ ClaimedAfterDeps' /\ InputsObtainable'
           /\ \A s \in Tasks : claims'[s] > 0 => \A e \in Deps[s] : <<e, s>> \notin held'
           /\ claims'[t] = 1
<1>1. claims[t] = 0 /\ runs[d] > 0 /\ claims'[t] = 1
  BY HeldUnclaimed DEF FanInInv, TypeOK
<1>2. \A e \in Deps[t] \ {d} : <<e, t>> \in counted /\ e \in stored
  BY <1>1 DEF FanInInv, EdgeInv, CountedDeps
<1>3. \A e \in Deps[t] : runs[e] > 0
  <2>1. ASSUME NEW e \in Deps[t] \ {d} PROVE runs[<<e, t>>[1]] > 0
    BY <1>2 DEF FanInInv, EdgeInv
  <2> QED
    BY <1>1, <2>1
<1>4. \A s \in Tasks \ {t} : claims'[s] = claims[s]
  BY DEF FanInInv, TypeOK
<1>5. AtMostOneClaim'
  BY <1>1, <1>4 DEF FanInInv, AtMostOneClaim
<1>6. ClaimedAfterDeps'
  BY <1>3, <1>4 DEF FanInInv, ClaimedAfterDeps
<1>7. InputsObtainable'
  BY <1>2, <1>4 DEF FanInInv, InputsObtainable
<1>8. ASSUME NEW s \in Tasks, claims'[s] > 0, NEW e \in Deps[s]
      PROVE  <<e, s>> \notin held'
  <2>1. CASE s = t
    BY <2>1, <1>2 DEF FanInInv, EdgeInv
  <2>2. CASE s # t
    BY <2>2, <1>4, <1>8 DEF FanInInv, EdgeInv
  <2> QED
    BY <2>1, <2>2
<1> QED
  BY <1>1, <1>5, <1>6, <1>7, <1>8

(* Reading a counter that is one short claims a task nobody has claimed.     *)
LEMMA CheckReadyStep ==
    ASSUME FanInInv, NEW t \in Tasks, NEW d \in Deps[t], CheckReady(d, t)
    PROVE  FanInInv'
<1> USE DEF CheckReady
<1>1. claims[t] = 0 /\ <<d, t>> \notin counted
  BY HeldUnclaimed
<1>2. CountedDeps(t) = Deps[t] \ {d}
  BY <1>1, AllOthersCounted DEF FanInInv, CounterExact
<1>3. /\ AtMostOneClaim' /\ ClaimedAfterDeps' /\ InputsObtainable'
      /\ \A s \in Tasks : claims'[s] > 0 => \A e \in Deps[s] : <<e, s>> \notin held'
      /\ claims'[t] = 1
  BY <1>2, ClaimStep
<1>4. \A s \in Tasks \ {t} : claims'[s] = claims[s]
  BY DEF FanInInv, TypeOK
<1>5. TypeOK'
  BY DEF FanInInv, TypeOK
<1>6. CounterExact'
  BY DEF FanInInv, CounterExact, CountedDeps
<1>7. EdgeInv'
  <2>1. (held \cap counted = {})' /\ \A g \in (held \cup counted)' : runs'[g[1]] > 0
    BY DEF FanInInv, EdgeInv
  <2>2. \A s \in Tasks : runs'[s] <= claims'[s]
    BY <1>1, <1>3, <1>4 DEF FanInInv, EdgeInv, TypeOK
  <2>3. \A s \in Tasks : claims'[s] = 0 => CountedDeps(s)' \subseteq stored'
    BY <1>3, <1>4 DEF FanInInv, EdgeInv, CountedDeps
  <2>4. \A s \in Tasks : Deps[s] = {} => claims'[s] = 1
    BY <1>3, <1>4 DEF FanInInv, EdgeInv
  <2> QED
    BY <1>3, <2>1, <2>2, <2>3, <2>4 DEF EdgeInv
<1>8. NoEdgeLost'
  BY <1>3, <1>4 DEF FanInInv, NoEdgeLost
<1> QED
  BY <1>3, <1>5, <1>6, <1>7, <1>8 DEF FanInInv

(* Book-keeping counts an edge of a task that is already claimed: an edge    *)
(* that is neither held nor counted was used up by a claim.                  *)
LEMMA BookKeepStep ==
    ASSUME FanInInv, NEW t \in Tasks, NEW d \in Deps[t], BookKeep(d, t)
    PROVE  FanInInv'
<1> USE DEF BookKeep
<1>1. claims[t] # 0
  BY DEF FanInInv, NoEdgeLost
<1>2. <<d, t>> \notin counted /\ <<d, t>> \in Edges
  BY EdgePair
<1>3. /\ Cardinality(CountedDeps(t)') = Cardinality(CountedDeps(t)) + 1
      /\ \A s \in Tasks \ {t} : CountedDeps(s)' = CountedDeps(s)
  BY <1>2, CountOne
<1>4. TypeOK'
  BY <1>2 DEF FanInInv, TypeOK
<1>5. CounterExact'
  <2>1. ASSUME NEW s \in Tasks PROVE counter'[s] = Cardinality(CountedDeps(s)')
    <3>1. CASE s = t
      BY <3>1, <1>3 DEF FanInInv, TypeOK, CounterExact
    <3>2. CASE s # t
      BY <3>2, <1>3 DEF FanInInv, TypeOK, CounterExact
    <3> QED
      BY <3>1, <3>2
  <2> QED
    BY <2>1 DEF CounterExact
<1>6. EdgeInv'
  <2>1. (held \cap counted = {})'
    BY DEF FanInInv, EdgeInv
  <2>2. \A g \in (held \cup counted)' : runs'[g[1]] > 0
    <3>1. runs'[<<d, t>>[1]] > 0
      OBVIOUS
    <3> QED
      BY <3>1 DEF FanInInv, EdgeInv
  <2>3. \A s \in Tasks : claims'[s] = 0 => CountedDeps(s)' \subseteq stored'
    BY <1>1, <1>3 DEF FanInInv, EdgeInv
  <2>4. /\ \A s \in Tasks : runs'[s] <= claims'[s]
        /\ \A s \in Tasks : claims'[s] > 0 => \A e \in Deps[s] : <<e, s>> \notin held'
        /\ \A s \in Tasks : Deps[s] = {} => claims'[s] = 1
    BY DEF FanInInv, EdgeInv
  <2> QED
    BY <2>1, <2>2, <2>3, <2>4 DEF EdgeInv
<1>7. AtMostOneClaim' /\ ClaimedAfterDeps' /\ InputsObtainable' /\ NoEdgeLost'
  BY DEF FanInInv, AtMostOneClaim, ClaimedAfterDeps, InputsObtainable, NoEdgeLost
<1> QED
  BY <1>4, <1>5, <1>6, <1>7 DEF FanInInv

(* An increment gives the edge away or, when it is the last one, claims the  *)
(* task.                                                                     *)
LEMMA IncrementStep ==
    ASSUME FanInInv, NEW t \in Tasks, NEW d \in Deps[t], Increment(d, t)
    PROVE  FanInInv'
<1> USE DEF Increment
<1>1. claims[t] = 0 /\ <<d, t>> \notin counted /\ runs[d] > 0 /\ <<d, t>> \in Edges
  BY HeldUnclaimed, EdgePair
<1>2. /\ CountedDeps(t)' = CountedDeps(t) \cup {d}
      /\ Cardinality(CountedDeps(t)') = Cardinality(CountedDeps(t)) + 1
      /\ \A s \in Tasks \ {t} : CountedDeps(s)' = CountedDeps(s)
  BY <1>1, CountOne
<1>3. TypeOK'
  BY <1>1 DEF FanInInv, TypeOK
<1>4. CounterExact'
  <2>1. ASSUME NEW s \in Tasks PROVE counter'[s] = Cardinality(CountedDeps(s)')
    <3>1. CASE s = t
      BY <3>1, <1>2 DEF FanInInv, TypeOK, CounterExact
    <3>2. CASE s # t
      BY <3>2, <1>2 DEF FanInInv, TypeOK, CounterExact
    <3> QED
      BY <3>1, <3>2
  <2> QED
    BY <2>1 DEF CounterExact
<1>5. \A s \in Tasks \ {t} : claims'[s] = claims[s]
  BY DEF FanInInv, TypeOK
<1>6. /\ AtMostOneClaim' /\ ClaimedAfterDeps' /\ InputsObtainable'
      /\ \A s \in Tasks : claims'[s] > 0 => \A e \in Deps[s] : <<e, s>> \notin held'
      /\ claims'[t] \in {0, 1}
  <2>1. CASE counter[t] + 1 = NumDeps(t)
    <3>1. Cardinality(CountedDeps(t)) = NumDeps(t) - 1
      BY <2>1, DepsFinite DEF FanInInv, CounterExact
    <3>2. CountedDeps(t) = Deps[t] \ {d}
      BY <3>1, <1>1, AllOthersCounted
    <3>3. claims' = [claims EXCEPT ![t] = @ + 1] /\ counted \subseteq counted'
      BY <2>1
    <3> QED
      BY <3>2, <3>3, ClaimStep
  <2>2. CASE counter[t] + 1 # NumDeps(t)
    <3>1. claims' = claims
      BY <2>2 DEF FanInInv, TypeOK
    <3> QED
      BY <3>1, <1>1 DEF FanInInv, EdgeInv, AtMostOneClaim, ClaimedAfterDeps, InputsObtainable
  <2> QED
    BY <2>1, <2>2
<1>7. EdgeInv'
  <2>1. (held \cap counted = {})'
    BY DEF FanInInv, EdgeInv
  <2>2. \A g \in (held \cup counted)' : runs'[g[1]] > 0
    <3>1. runs'[<<d, t>>[1]] > 0
      BY <1>1
    <3> QED
      BY <3>1 DEF FanInInv, EdgeInv
  <2>3. \A s \in Tasks : runs'[s] <= claims'[s]
    BY <1>1, <1>5, <1>6 DEF FanInInv, EdgeInv, TypeOK
  <2>4. \A s \in Tasks : claims'[s] = 0 => CountedDeps(s)' \subseteq stored'
    BY <1>1, <1>2, <1>5 DEF FanInInv, EdgeInv
  <2>5. \A s \in Tasks : Deps[s] = {} => claims'[s] = 1
    BY <1>5 DEF FanInInv, EdgeInv
  <2> QED
    BY <1>6, <2>1, <2>2, <2>3, <2>4, <2>5 DEF EdgeInv
<1>8. NoEdgeLost'
  <2>1. ASSUME NEW s \in Tasks, claims'[s] = 0 PROVE claims[s] = 0
    BY <2>1, <1>1, <1>5
  <2> QED
    BY <2>1 DEF FanInInv, NoEdgeLost
<1> QED
  BY <1>3, <1>4, <1>6, <1>7, <1>8 DEF FanInInv

(* Every step, stuttering included, preserves the inductive invariant.       *)
LEMMA FanInStep == FanInInv /\ [Next]_vars => FanInInv'
<1> SUFFICES ASSUME FanInInv, [Next]_vars PROVE FanInInv'
  OBVIOUS
<1>1. CASE UNCHANGED vars
  BY <1>1 DEF vars, FanInInv, TypeOK, CounterExact, CountedDeps, EdgeInv,
              AtMostOneClaim, ClaimedAfterDeps, InputsObtainable, NoEdgeLost
<1>2. CASE Next
  BY <1>2, ProcessTaskStep, StoreValueStep, CheckReadyStep, BookKeepStep,
     IncrementStep DEF Next
<1> QED
  BY <1>1, <1>2
-----------------------------------------------------------------------------
(* The inductive invariant of the fan-in protocol holds in every reachable   *)
(* state, for every finite DAG: a fan-in task is claimed at most once        *)
(* (AtMostOneClaim), only after its dependencies ran (ClaimedAfterDeps), with*)
(* its inputs in the KV store or in the claiming Executor (InputsObtainable),*)
(* and no finished dependency is forgotten (NoEdgeLost).                     *)
THEOREM FanInInvariant == Spec => []FanInInv
<1>1. Init => FanInInv
  BY FanInInit
<1>2. FanInInv /\ [Next]_vars => FanInInv'
  BY FanInStep
<1> QED
  BY <1>1, <1>2, PTL DEF Spec

(* At most one Executor claims a fan-in task, whatever mixture of reading    *)
(* and incrementing check_dependency_counter calls the racing Executors make.*)
THEOREM ClaimedOnce == Spec => []AtMostOneClaim
<1>1. FanInInv => AtMostOneClaim
  BY DEF FanInInv
<1> QED
  BY <1>1, FanInInvariant, PTL

(* Whoever claims a task can read all of its inputs: at most one of them is  *)
(* missing from the KV store, the one the claiming Executor produced itself. *)
THEOREM ClaimedWithInputs == Spec => []InputsObtainable
<1>1. FanInInv => InputsObtainable
  BY DEF FanInInv
<1> QED
  BY <1>1, FanInInvariant, PTL

(* The counter protocol forgets nobody: until a task is claimed, each of its *)
(* finished dependencies is counted or still in some Executor's hands.       *)
THEOREM NothingForgotten == Spec => []NoEdgeLost
<1>1. FanInInv => NoEdgeLost
  BY DEF FanInInv
<1> QED
  BY <1>1, FanInInvariant, PTL

(* The protocol implements DagExecution: each task runs at most once, after  *)
(* all of its dependencies.                                                  *)
THEOREM FanInImplementsDag == Spec => DagSpec
<1>1. Init => Dag!Init
  BY DEF Init, Dag!Init
<1>2. FanInInv /\ [Next]_vars => [Dag!Next]_runs
  <2> SUFFICES ASSUME FanInInv, [Next]_vars PROVE [Dag!Next]_runs
    OBVIOUS
  <2>1. ASSUME NEW t \in Tasks, ProcessTask(t) PROVE Dag!Run(t)
    <3>1. runs[t] = 0 /\ claims[t] = 1
      BY <2>1 DEF ProcessTask, FanInInv, TypeOK, AtMostOneClaim
    <3>2. \A d \in Deps[t] : runs[d] # 0
      BY <3>1, DagAssumption DEF FanInInv, TypeOK, ClaimedAfterDeps
    <3>3. runs' = [runs EXCEPT ![t] = 1]
      BY <2>1, <3>1 DEF ProcessTask, FanInInv, TypeOK
    <3> QED
      BY <3>1, <3>2, <3>3 DEF Dag!Run
  <2>2. ASSUME NEW t \in Tasks, ProcessTask(t) PROVE Dag!Next
    BY <2>1, <2>2 DEF Dag!Next
  <2>3. ASSUME NEW t \in Tasks, StoreValue(t) PROVE UNCHANGED runs
    BY <2>3 DEF StoreValue
  <2>4. ASSUME NEW t \in Tasks, NEW d \in Deps[t],
               CheckReady(d, t) \/ BookKeep(d, t) \/ Increment(d, t)
        PROVE  UNCHANGED runs
    BY <2>4 DEF CheckReady, BookKeep, Increment
  <2>5. CASE UNCHANGED vars
    BY <2>5 DEF vars
  <2> QED
    BY <2>2, <2>3, <2>4, <2>5 DEF Next
<1> QED
  BY <1>1, <1>2, FanInInvariant, PTL DEF Spec, DagSpec, Dag!Spec
=============================================================================
