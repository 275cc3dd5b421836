--------------------------- MODULE LeafReuseProofs --------------------------
(* Reuse of a leaf Executor, for any number of containers, jobs and retries. *)
EXTENDS LeafReuse, TLAPS

USE DEF At, Becomes

LEMMA IdleType == Idle \in Container
  BY LeafReuseAssumption DEF Idle, Container, NoEvent

(* Replacing the state of one container by a state of the right type.        *)
LEMMA BecomesType ==
    ASSUME NEW e \in Executors, NEW x \in Container,
           ex \in [Executors -> Container], Becomes(e, x)
    PROVE  /\ ex' \in [Executors -> Container]
           /\ ex'[e] = x
           /\ \A f \in Executors : f # e => ex'[f] = ex[f]
  OBVIOUS

LEMMA ReuseInit == ASSUME Init PROVE ReuseInv
<1> USE LeafReuseAssumption
<1>1. TypeOK
  <2>1. ex \in [Executors -> Container] /\ executed \in [Jobs -> Nat]
    BY IdleType DEF Init
  <2>2. job \in 0..MaxJobs /\ path \in 0..MaxJobs
    BY DEF Init
  <2>3. iteration \in {NoCounter} \cup 0..MaxJobs /\ pending \subseteq Invocation
    BY DEF Init
  <2>4. storing \in BOOLEAN /\ seen \in BOOLEAN /\ value \in {"none", "output", "stop"}
    BY DEF Init
  <2>5. history \subseteq Events
    BY DEF Init
  <2> QED
    BY <2>1, <2>2, <2>3, <2>4, <2>5 DEF TypeOK
<1>2. CounterBelowJobs
  BY DEF Init, CounterBelowJobs
<1>3. OneAgent /\ CounterIsJobs /\ AgentIsCurrent
  BY DEF Init, OneAgent, CounterIsJobs, AgentIsCurrent, Idle, NoCounter, Jobs
<1> QED
  BY <1>1, <1>2, <1>3 DEF ReuseInv

(* The types and the bound of the counter are kept in any case.              *)
LEMMA TypeStep ==
    ASSUME TypeOK, CounterBelowJobs, [Next]_vars
    PROVE  TypeOK' /\ CounterBelowJobs'
<1> USE LeafReuseAssumption DEF TypeOK, CounterBelowJobs
<1>1. CASE StorePath
  <2>1. job + 1 \in 0..MaxJobs /\ history' \subseteq Events
    BY <1>1 DEF StorePath, Events
  <2>2. iteration # NoCounter => iteration \in Nat
    OBVIOUS
  <2> QED
    BY <1>1, <2>1, <2>2 DEF StorePath
<1>2. CASE InvokeLeaf
  <2>1. PICK direct \in BOOLEAN :
           pending' = pending \cup {[job |-> job, direct |-> direct, left |-> Retries]}
    BY <1>2 DEF InvokeLeaf
  <2>2. job \in Jobs /\ Retries \in 0..Retries
    BY <1>2 DEF InvokeLeaf, Jobs
  <2>3. [job |-> job, direct |-> direct, left |-> Retries] \in Invocation
    BY <2>2 DEF Invocation
  <2>4. pending' \subseteq Invocation /\ iteration' \in {NoCounter} \cup 0..MaxJobs
    BY <1>2, <2>1, <2>3 DEF InvokeLeaf
  <2>5. CounterBelowJobs'
    BY <1>2, <2>2 DEF InvokeLeaf, Jobs, NoCounter
  <2> QED
    BY <1>2, <2>4, <2>5 DEF InvokeLeaf
<1>3. CASE ReuseLeaf
  <2>1. iteration + 1 \in 0..MaxJobs /\ iteration \in Nat /\ iteration + 2 <= job
    BY <1>3 DEF ReuseLeaf
  <2>2. CounterBelowJobs'
    BY <1>3, <2>1 DEF ReuseLeaf, NoCounter
  <2> QED
    BY <1>3, <2>1, <2>2 DEF ReuseLeaf
<1>4. CASE WorkloadFinished
  <2>1. history' \subseteq Events
    BY <1>4 DEF WorkloadFinished, Events
  <2> QED
    BY <1>4, <2>1 DEF WorkloadFinished
<1>5. ASSUME NEW e \in Executors, Start(e) \/ Step(e) \/ TimeOut(e) PROVE TypeOK' /\ CounterBelowJobs'
  <2>1. /\ UNCHANGED <<job, storing, seen, iteration, path>>
        /\ value' \in {"none", "output", "stop"}
        /\ executed' \in [Jobs -> Nat]
        /\ history' \subseteq Events
    <3>1. CASE Start(e)
      BY <3>1 DEF Start, scheduler, redis
    <3>2. CASE GetPath(e) \/ ReadCounter(e) \/ Poll(e)
      BY <3>2 DEF GetPath, ReadCounter, Poll, scheduler, redis
    <3>3. CASE ProcessPath(e)
      <4>1. executed' \in [Jobs -> Nat]
        <5>1. executed' = [executed EXCEPT ![ex[e].job] = executed[ex[e].job] + 1]
          BY <3>3 DEF ProcessPath
        <5>2. CASE ex[e].job \in Jobs
          BY <5>1, <5>2
        <5>3. CASE ex[e].job \notin Jobs
          BY <5>1, <5>3
        <5> QED
          BY <5>2, <5>3
      <4>2. value' \in {"none", "output", "stop"}
        BY <3>3 DEF ProcessPath
      <4> QED
        BY <3>3, <4>1, <4>2 DEF ProcessPath, scheduler
    <3>4. CASE TimeOut(e)
      BY <3>4 DEF TimeOut, scheduler, redis, Events
    <3> QED
      BY <1>5, <3>1, <3>2, <3>3, <3>4 DEF Step
  <2>2. ex[e] \in Container
    OBVIOUS
  <2>3. pending' \subseteq Invocation
    <3>1. CASE TimeOut(e)
      <4>1. ex[e].event \in Invocation \cup {NoEvent}
        BY <2>2 DEF Container
      <4>2. ex[e].event.left > 0 => ex[e].event \in Invocation
        BY <4>1 DEF NoEvent
      <4>3. \A i \in Invocation : i.left > 0 => [i EXCEPT !.left = @ - 1] \in Invocation
        BY DEF Invocation
      <4> QED
        BY <3>1, <4>2, <4>3 DEF TimeOut, HandlerRaises
    <3>2. CASE Start(e) \/ Step(e)
      BY <3>2 DEF Start, Step, GetPath, ReadCounter, ProcessPath, Poll
    <3> QED
      BY <1>5, <3>1, <3>2
  <2>4. ex' \in [Executors -> Container]
    <3>1. CASE Start(e)
      <4>1. PICK i \in pending :
               ex' = [ex EXCEPT ![e] =
                 IF i.direct THEN [Idle EXCEPT !.pc = "counter", !.event = i, !.job = i.job]
                             ELSE [Idle EXCEPT !.pc = "path", !.event = i]]
        BY <3>1 DEF Start
      <4>2. i \in Invocation /\ i.job \in 0..MaxJobs
        BY DEF Invocation, Jobs
      <4>3. /\ [Idle EXCEPT !.pc = "counter", !.event = i, !.job = i.job] \in Container
            /\ [Idle EXCEPT !.pc = "path", !.event = i] \in Container
        BY <4>2, IdleType DEF Container
      <4> QED
        BY <4>1, <4>3
    <3>2. CASE GetPath(e)
      <4>1. [ex[e] EXCEPT !.pc = "counter", !.job = path] \in Container
        BY <2>2 DEF Container
      <4> QED
        BY <3>2, <4>1 DEF GetPath
    <3>3. CASE ReadCounter(e)
      <4>1. FirstCounter(ex[e]) \in {NoCounter} \cup 0..MaxJobs
        BY <2>2 DEF FirstCounter, Container
      <4>2. [ex[e] EXCEPT !.pc = "process", !.counter = FirstCounter(ex[e])] \in Container
        BY <2>2, <4>1 DEF Container
      <4> QED
        BY <3>3, <4>2 DEF ReadCounter
    <3>4. CASE ProcessPath(e)
      <4>1. [ex[e] EXCEPT !.pc = "poll"] \in Container
        BY <2>2 DEF Container
      <4> QED
        BY <3>4, <4>1 DEF ProcessPath
    <3>5. CASE Poll(e)
      <4>1. React(ex[e]) \in Container
        BY <2>2 DEF Container, React
      <4> QED
        BY <3>5, <4>1 DEF Poll
    <3>6. CASE TimeOut(e)
      BY <3>6, IdleType DEF TimeOut, HandlerRaises
    <3> QED
      BY <1>5, <3>1, <3>2, <3>3, <3>4, <3>5, <3>6 DEF Step
  <2> QED
    BY <2>1, <2>3, <2>4
<1>6. CASE UNCHANGED vars
  BY <1>6 DEF vars, scheduler, redis
<1> QED
  BY <1>1, <1>2, <1>3, <1>4, <1>5, <1>6 DEF Next

(* As long as the workload is sequential, one agent serves the leaf.         *)
LEMMA SequentialStep ==
    ASSUME ReuseInv, Sequential', [Next]_vars
    PROVE  OneAgent' /\ CounterIsJobs' /\ AgentIsCurrent'
<1> USE LeafReuseAssumption
<1>0. Sequential /\ TypeOK /\ CounterBelowJobs /\ OneAgent /\ CounterIsJobs /\ AgentIsCurrent
  <2>1. history \subseteq history'
    BY DEF Next, StorePath, InvokeLeaf, ReuseLeaf, WorkloadFinished, Start, Step, GetPath,
           ReadCounter, ProcessPath, Poll, TimeOut, vars
  <2> QED
    BY <2>1 DEF Sequential, ReuseInv
<1>1. CASE StorePath
  <2>0. job = 0 \/ (job \in Jobs /\ executed[job] = 1)
    <3>1. job = 0 \/ (job \in Jobs /\ executed[job] # 0)
      BY <1>0, <1>1 DEF StorePath, Sequential, TypeOK, Jobs
    <3> QED
      BY <1>0, <3>1 DEF CounterIsJobs, TypeOK
  <2>1. OneAgent'
    BY <1>0, <1>1 DEF StorePath, OneAgent
  <2>2. CounterIsJobs'
    BY <1>0, <1>1, <2>0 DEF StorePath, CounterIsJobs, TypeOK, Jobs
  <2>3. AgentIsCurrent'
    <3>1. CASE job = 0
      <4>1. pending = {} /\ \A e \in Executors : At(e, "idle")
        BY <1>0, <3>1 DEF CounterBelowJobs, OneAgent
      <4> QED
        BY <1>1, <4>1 DEF StorePath, AgentIsCurrent
    <3>2. CASE job \in Jobs /\ executed[job] = 1
      <4>1. /\ pending = {}
            /\ \A e \in Executors : At(e, "idle") \/ (At(e, "poll") /\ iteration = ex[e].counter)
        BY <1>0, <3>2 DEF AgentIsCurrent
      <4> QED
        BY <1>1, <4>1 DEF StorePath, AgentIsCurrent
    <3> QED
      BY <2>0, <3>1, <3>2
  <2> QED
    BY <2>1, <2>2, <2>3
<1>2. CASE InvokeLeaf
  <2>1. OneAgent'
    BY <1>0, <1>2 DEF InvokeLeaf, OneAgent
  <2>2. CounterIsJobs'
    BY <1>0, <1>2 DEF InvokeLeaf, CounterIsJobs, TypeOK, Jobs
  <2>3. AgentIsCurrent'
    BY <1>0, <1>2 DEF InvokeLeaf, CounterIsJobs, AgentIsCurrent, OneAgent, TypeOK, Jobs
  <2> QED
    BY <2>1, <2>2, <2>3
<1>3. CASE ReuseLeaf
  <2>1. OneAgent'
    BY <1>0, <1>3 DEF ReuseLeaf, OneAgent
  <2>2. CounterIsJobs'
    BY <1>0, <1>3 DEF ReuseLeaf, CounterIsJobs, TypeOK, Jobs
  <2>3. AgentIsCurrent'
    BY <1>0, <1>3 DEF ReuseLeaf, CounterIsJobs, AgentIsCurrent, OneAgent, TypeOK, Jobs
  <2> QED
    BY <2>1, <2>2, <2>3
<1>4. CASE WorkloadFinished
  BY <1>4 DEF WorkloadFinished, Sequential
<1>5. ASSUME NEW e \in Executors, Start(e) PROVE OneAgent' /\ CounterIsJobs' /\ AgentIsCurrent'
  <2>1. PICK i \in pending :
           /\ pending' = pending \ {i}
           /\ ex' = [ex EXCEPT ![e] =
                IF i.direct THEN [Idle EXCEPT !.pc = "counter", !.event = i, !.job = i.job]
                            ELSE [Idle EXCEPT !.pc = "path", !.event = i]]
    BY <1>5 DEF Start
  <2>2. i \in Invocation /\ pending' = {}
    BY <1>0, <2>1 DEF TypeOK, OneAgent
  <2>3. UNCHANGED <<job, storing, seen, iteration, path, value, executed>>
    BY <1>5 DEF Start, scheduler, redis
  <2>5. seen /\ \A f \in Executors : At(f, "idle")
    BY <1>0, <2>1 DEF OneAgent
  <2>6. ex'[e].pc \in {"counter", "path"} /\ ex'[e].reused = FALSE
    BY <1>0, <2>1 DEF TypeOK, Idle
  <2>7. ex'[e].pc = "counter" => ex'[e].job = job
    BY <1>0, <2>1 DEF TypeOK, Idle, AgentIsCurrent
  <2>8. \A f \in Executors : f # e => ex'[f] = ex[f]
    BY <1>0, <2>1 DEF TypeOK
  <2>9. OneAgent'
    BY <1>0, <2>2, <2>3, <2>5, <2>8 DEF OneAgent
  <2>10. CounterIsJobs'
    BY <1>0, <2>3 DEF CounterIsJobs
  <2>11. ~storing /\ executed[job] = 0
    BY <1>0, <2>1 DEF AgentIsCurrent
  <2>12. AgentIsCurrent'
    BY <1>0, <2>2, <2>3, <2>5, <2>6, <2>7, <2>8, <2>11 DEF AgentIsCurrent
  <2> QED
    BY <2>9, <2>10, <2>12
<1>6. ASSUME NEW e \in Executors, NEW x \in Container, Becomes(e, x), ~At(e, "idle"),
             UNCHANGED <<job, storing, seen, iteration, path, pending>>,
             value' \in {"none", "output", "stop"}, executed' \in [Jobs -> Nat],
             \A j \in Jobs : executed'[j] <= 1 /\ (j # job => executed'[j] = executed[j]),
             storing => executed' = executed,
             x.pc = "idle" \/ x.pc = "poll" \/ (~storing /\ executed'[job] = 0),
             x.pc \in {"counter", "process"} => x.job = job,
             x.pc = "process" => x.counter = iteration,
             x.pc \in {"path", "counter"} /\ x.reused => x.counter = iteration,
             x.pc = "poll" =>
                iteration = IF storing \/ executed'[job] = 1 THEN x.counter ELSE x.counter + 1
      PROVE  OneAgent' /\ CounterIsJobs' /\ AgentIsCurrent'
  <2>1. /\ ex' \in [Executors -> Container]
        /\ ex'[e] = x
        /\ \A f \in Executors : f # e => ex'[f] = ex[f]
    BY <1>0, <1>6, BecomesType DEF TypeOK
  <2>2. /\ seen /\ pending = {} /\ job \in Jobs
        /\ \A f \in Executors : f # e => At(f, "idle")
    BY <1>0, <1>6 DEF OneAgent, CounterBelowJobs, TypeOK, Jobs
  <2>4. OneAgent'
    BY <1>0, <1>6, <2>1, <2>2 DEF OneAgent
  <2>5. CounterIsJobs'
    BY <1>0, <1>6, <2>2 DEF CounterIsJobs, TypeOK, Jobs
  <2>6. AgentIsCurrent'
    BY <1>0, <1>6, <2>1, <2>2 DEF AgentIsCurrent
  <2> QED
    BY <1>0, <2>4, <2>5, <2>6
<1>7. ASSUME NEW e \in Executors, Step(e) \/ TimeOut(e) PROVE OneAgent' /\ CounterIsJobs' /\ AgentIsCurrent'
  <2>1. /\ ex[e] \in Container /\ ex[e].counter \in {NoCounter} \cup 0..MaxJobs
        /\ iteration \in {NoCounter} \cup 0..MaxJobs /\ path \in 0..MaxJobs
        /\ value \in {"none", "output", "stop"} /\ executed \in [Jobs -> Nat]
    BY <1>0 DEF TypeOK, Container
  <2>2. ~At(e, "idle")
    BY <1>0, <1>7 DEF Step, GetPath, ReadCounter, ProcessPath, Poll, TimeOut
  <2>3. /\ seen /\ job \in Jobs /\ path = job
        /\ \A j \in Jobs : executed[j] <= 1
    BY <1>0, <2>2 DEF OneAgent, CounterIsJobs, CounterBelowJobs, TypeOK, Jobs
  <2>4. CASE GetPath(e)
    <3> DEFINE x == [ex[e] EXCEPT !.pc = "counter", !.job = path]
    <3>1. x \in Container /\ x.pc = "counter" /\ x.job = path
          /\ x.counter = ex[e].counter /\ x.reused = ex[e].reused
      BY <1>0, <2>1 DEF Container
    <3> HIDE DEF x
    <3>2. Becomes(e, x) /\ At(e, "path") /\ UNCHANGED <<scheduler, redis, pending, executed>>
      BY <1>0, <2>4 DEF GetPath, x
    <3> QED
      BY <1>0, <1>6, <2>1, <2>2, <2>3, <3>1, <3>2 DEF scheduler, redis, AgentIsCurrent
  <2>5. CASE ReadCounter(e)
    <3> DEFINE x == [ex[e] EXCEPT !.pc = "process", !.counter = FirstCounter(ex[e])]
    <3>1. FirstCounter(ex[e]) = iteration
      BY <1>0, <2>5 DEF ReadCounter, FirstCounter, AgentIsCurrent
    <3>2. x \in Container /\ x.pc = "process" /\ x.job = ex[e].job /\ x.counter = iteration
      BY <1>0, <2>1, <3>1 DEF Container
    <3> HIDE DEF x
    <3>3. Becomes(e, x) /\ At(e, "counter") /\ UNCHANGED <<scheduler, redis, pending, executed>>
      BY <1>0, <2>5 DEF ReadCounter, x
    <3> QED
      BY <1>0, <1>6, <2>1, <2>2, <2>3, <3>2, <3>3 DEF scheduler, redis, AgentIsCurrent
  <2>6. CASE ProcessPath(e)
    <3> DEFINE x == [ex[e] EXCEPT !.pc = "poll"]
    <3>1. x \in Container /\ x.pc = "poll" /\ x.counter = ex[e].counter
      BY <1>0, <2>1 DEF Container
    <3> HIDE DEF x
    <3>2. /\ ex[e].job = job /\ executed[job] = 0 /\ ~storing
          /\ ex[e].counter = iteration
      BY <1>0, <2>6 DEF ProcessPath, AgentIsCurrent
    <3>3. /\ Becomes(e, x) /\ value' \in {"none", "output", "stop"}
          /\ executed' = [executed EXCEPT ![job] = 1]
          /\ UNCHANGED <<job, storing, seen, iteration, path, pending>>
      BY <1>0, <2>1, <2>3, <2>6, <3>2 DEF ProcessPath, x, scheduler
    <3>4. /\ executed' \in [Jobs -> Nat] /\ executed'[job] = 1
          /\ \A j \in Jobs : executed'[j] <= 1 /\ (j # job => executed'[j] = executed[j])
      BY <1>0, <2>1, <2>3, <3>3
    <3> QED
      BY <1>0, <1>6, <2>2, <3>1, <3>2, <3>3, <3>4
  <2>7. CASE Poll(e)
    <3> DEFINE x == React(ex[e])
    <3>1. /\ x \in Container /\ x.pc = "path" /\ x.counter = iteration
      BY <1>0, <2>1 DEF Container, React
    <3> HIDE DEF x
    <3>2. Becomes(e, x) /\ At(e, "poll") /\ iteration > ex[e].counter
          /\ UNCHANGED <<scheduler, redis, pending, executed>>
      BY <1>0, <2>7 DEF Poll, x
    <3>3. ~storing /\ executed[job] # 1
      BY <1>0, <2>1, <3>2 DEF AgentIsCurrent, NoCounter
    <3>4. executed[job] = 0
      BY <1>0, <2>1, <2>3, <3>3
    <3> QED
      BY <1>0, <1>6, <2>1, <2>2, <2>3, <3>1, <3>2, <3>3, <3>4 DEF scheduler, redis
  <2>8. CASE TimeOut(e)
    <3>1. ex[e].event.left = 0
      <4>1. Retries = 0
        BY <2>8 DEF TimeOut, Sequential
      <4> QED
        BY <2>1, <4>1 DEF Container, Invocation, NoEvent
    <3>2. Becomes(e, Idle) /\ UNCHANGED <<scheduler, redis, pending, executed>>
      BY <1>0, <2>8, <3>1 DEF TimeOut, HandlerRaises
    <3>3. Idle.pc = "idle"
      BY <1>0 DEF Idle
    <3> QED
      BY <1>0, <1>6, <2>1, <2>2, <2>3, <3>2, <3>3, IdleType DEF scheduler, redis
  <2> QED
    BY <1>0, <1>7, <2>4, <2>5, <2>6, <2>7, <2>8 DEF Step
<1>8. CASE UNCHANGED vars
  BY <1>0, <1>8 DEF vars, scheduler, redis, OneAgent, CounterIsJobs, AgentIsCurrent
<1> QED
  BY <1>1, <1>2, <1>3, <1>4, <1>5, <1>7, <1>8 DEF Next

(* The invariant of the reuse protocol.                                      *)
THEOREM ReuseInvariant == Spec => []ReuseInv
<1>1. Init => ReuseInv
  BY ReuseInit
<1>2. ReuseInv /\ [Next]_vars => ReuseInv'
  BY TypeStep, SequentialStep DEF ReuseInv
<1> QED
  BY <1>1, <1>2, PTL DEF Spec

(* The leaf's path is processed once for every job of a sequential workload: *)
(* the increment of the iteration counter never reaches two Executors, nor   *)
(* one that was invoked for the same job.                                    *)
THEOREM ExecutedOnce == Spec => []EachJobOnce
<1>1. ReuseInv => EachJobOnce
  BY DEF ReuseInv, CounterIsJobs, EachJobOnce
<1> QED
  BY <1>1, ReuseInvariant, PTL

(* An Executor that polls has not missed the last job.                       *)
THEOREM PollerReacts == Spec => []PollerWillReact
<1>1. ReuseInv => PollerWillReact
  <2> SUFFICES ASSUME ReuseInv, Sequential, NEW e \in Executors, At(e, "poll"), ~storing,
                      executed[job] = 0
               PROVE  iteration > ex[e].counter
    BY DEF PollerWillReact
  <2>1. ex[e].counter \in Int
    BY DEF ReuseInv, TypeOK, Container, NoCounter
  <2>2. iteration = ex[e].counter + 1
    BY DEF ReuseInv, AgentIsCurrent
  <2> QED
    BY <2>1, <2>2
<1> QED
  BY <1>1, ReuseInvariant, PTL
=============================================================================
