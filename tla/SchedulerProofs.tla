--------------------------- MODULE SchedulerProofs --------------------------
(* The Scheduler's graph of tasks stays consistent, for all graphs, clients  *)
(* and sequences of operations: what the transition functions do to it, one  *)
(* lemma each, then what the handlers do with them.                          *)
EXTENDS ClientFutures, FiniteSetTheorems, TLAPS

(* An edge is known at both ends or at none.                                 *)
Linked(t) == \A j, k \in Keys : j \in t[k].deps <=> k \in t[j].dependents
(* A task waits only for its dependencies, only its dependents wait for it,  *)
(* and one that is unknown has neither.                                      *)
Within(ts) ==
    /\ ts.waitingOn \subseteq ts.deps /\ ts.waiters \subseteq ts.dependents
    /\ ts.state = "unknown" => ts.deps = {} /\ ts.dependents = {}
GraphOK(t) == t \in [Keys -> Task] /\ Linked(t) /\ \A k \in Keys : Within(t[k])
-----------------------------------------------------------------------------
(* A change of the tasks that leaves the edges alone.                        *)
Keeps(ts, us) ==
    us \in Task /\ us.deps = ts.deps /\ us.dependents = ts.dependents /\ Within(us)

LEMMA KeepsGraph ==
    ASSUME NEW t, GraphOK(t), NEW u, u = [j \in Keys |-> u[j]],
           \A j \in Keys : Keeps(t[j], u[j])
    PROVE  GraphOK(u)
<1>1. u \in [Keys -> Task]
  BY DEF Keeps
<1>2. Linked(u)
  BY DEF Keeps, GraphOK, Linked
<1> QED
  BY <1>1, <1>2 DEF Keeps, GraphOK

(* The fields of a task of a consistent graph.                               *)
LEMMA TaskFields ==
    ASSUME NEW t, GraphOK(t), NEW k \in Keys
    PROVE  /\ t[k] \in Task /\ t[k].state \in States
           /\ t[k].deps \subseteq Keys /\ t[k].dependents \subseteq Keys
           /\ t[k].waitingOn \subseteq t[k].deps /\ t[k].waiters \subseteq t[k].dependents
           /\ Keeps(t[k], t[k])
BY DEF GraphOK, Task, Within, Keeps

(* A new state, which is not "unknown".                                      *)
LEMMA NewStateKeeps ==
    ASSUME NEW t, GraphOK(t), NEW k \in Keys, NEW s \in States \ {"unknown"}
    PROVE  LET u == [t EXCEPT ![k].state = s] IN
           GraphOK(u) /\ u[k].state = s
<1> DEFINE u == [t EXCEPT ![k].state = s]
<1>1. t \in [Keys -> Task] /\ t[k] \in Task /\ Within(t[k])
  BY DEF GraphOK
<1>2. Keeps(t[k], [t[k] EXCEPT !.state = s]) /\ [t[k] EXCEPT !.state = s].state = s
  BY <1>1 DEF Task, Keeps, Within
<1>3. u = [j \in Keys |-> IF j = k THEN [t[k] EXCEPT !.state = s] ELSE t[j]]
  BY <1>1
<1>4. \A j \in Keys : Keeps(t[j], u[j])
  BY <1>2, <1>3, TaskFields
<1>5. GraphOK(u)
  <2> HIDE DEF u
  <2> QED
    BY <1>3, <1>4, KeepsGraph
<1> QED
  BY <1>2, <1>3, <1>5
-----------------------------------------------------------------------------
(* What is shown of every transition: it leaves a consistent graph and       *)
(* recommends transitions of tasks.                                          *)
Yields(r) ==
    /\ {"t", "recs"} \subseteq DOMAIN r
    /\ GraphOK(r.t) /\ DOMAIN r.recs \subseteq Keys

(* The keys of recommendations.                                              *)
LEMMA RecsDomain ==
    /\ \A S, finish : DOMAIN Recs(S, finish) = S
    /\ DOMAIN <<>> = {}
BY DEF Recs
LEMMA UpdateDomain ==
    ASSUME NEW old, NEW new, DOMAIN old \subseteq Keys, DOMAIN new \subseteq Keys
    PROVE  DOMAIN Update(old, new) \subseteq Keys
BY DEF Update

(* A transition that ends, and one that raises an exception.                 *)
LEMMA YieldYields ==
    ASSUME NEW u, GraphOK(u), NEW recs, DOMAIN recs \subseteq Keys, NEW out
    PROVE  Yields(Yield(u, recs, out))
BY DEF Yields, Yield
LEMMA RaiseYields ==
    ASSUME NEW u, GraphOK(u)
    PROVE  Yields(Raise(u))
BY RecsDomain DEF Yields, Raise

(* The transitions that only set the state.                                  *)
LEMMA WaitingProcessingYields ==
    ASSUME NEW t, GraphOK(t), NEW k \in Keys
    PROVE  Yields(WaitingProcessing(t, k))
<1> DEFINE u == [t EXCEPT ![k].state = "processing"]
<1>1. GraphOK(u)
  BY NewStateKeeps DEF States
<1> HIDE DEF u
<1>2. Yields(Yield(u, <<>>, Silence))
  BY <1>1, YieldYields, RecsDomain
<1> QED
  BY <1>2 DEF WaitingProcessing, u

LEMMA ProcessingMemoryYields ==
    ASSUME NEW t, GraphOK(t), NEW k \in Keys
    PROVE  Yields(ProcessingMemory(t, k))
<1> DEFINE u == [t EXCEPT ![k].state = "memory"]
           out == Report(t, "key-in-memory", k)
<1>1. GraphOK(u)
  BY NewStateKeeps DEF States
<1> HIDE DEF u, out
<1>2. Yields(Yield(u, Recs({k}, "memory"), out))
  BY <1>1, YieldYields, RecsDomain
<1> QED
  BY <1>2 DEF ProcessingMemory, u, out

(* Leaving dependencies, and blaming tasks, change no edge.                  *)
LEMMA LeaveKeeps ==
    ASSUME NEW t, GraphOK(t), NEW k \in Keys, NEW from
    PROVE  GraphOK(Leave(t, k, from))
<1> DEFINE u == Leave(t, k, from)
<1>1. u = [j \in Keys |-> IF j \in from THEN [t[j] EXCEPT !.waiters = @ \ {k}] ELSE t[j]]
  BY DEF Leave
<1> HIDE DEF u
<1>2. ASSUME NEW j \in Keys PROVE Keeps(t[j], u[j])
  <2>1. t[j] \in Task /\ Within(t[j])
    BY DEF GraphOK
  <2>2. Keeps(t[j], [t[j] EXCEPT !.waiters = @ \ {k}])
    BY <2>1 DEF Task, Keeps, Within
  <2> QED
    BY <1>1, <2>2, TaskFields
<1>3. GraphOK(u)
  BY <1>1, <1>2, KeepsGraph
<1> QED
  BY <1>3 DEF u

LEMMA BlameKeeps ==
    ASSUME NEW t, GraphOK(t), NEW keys
    PROVE  GraphOK(Blame(t, keys))
<1> DEFINE u == Blame(t, keys)
<1>1. u = [j \in Keys |-> IF j \in keys THEN [t[j] EXCEPT !.blame = TRUE] ELSE t[j]]
  BY DEF Blame
<1> HIDE DEF u
<1>2. ASSUME NEW j \in Keys PROVE Keeps(t[j], u[j])
  <2>1. t[j] \in Task /\ Within(t[j])
    BY DEF GraphOK
  <2>2. Keeps(t[j], [t[j] EXCEPT !.blame = TRUE])
    BY <2>1 DEF Task, Keeps, Within
  <2> QED
    BY <1>1, <2>2, TaskFields
<1>3. GraphOK(u)
  BY <1>1, <1>2, KeepsGraph
<1> QED
  BY <1>3 DEF u

(* The keys of tasks that are released.                                      *)
LEMMA ToReleaseKeys ==
    ASSUME NEW t, NEW k, NEW from \in SUBSET Keys
    PROVE  ToRelease(t, k, from) \subseteq Keys
BY DEF ToRelease

(* A change of one task that leaves its edges alone.                         *)
LEMMA OneTaskKeeps ==
    ASSUME NEW t, GraphOK(t), NEW k \in Keys, NEW us, Keeps(t[k], us),
           NEW u, u = [t EXCEPT ![k] = us]
    PROVE  GraphOK(u)
<1>1. u = [j \in Keys |-> IF j = k THEN us ELSE t[j]]
  BY DEF GraphOK
<1>2. \A j \in Keys : Keeps(t[j], u[j])
  BY <1>1, TaskFields
<1>3. u = [j \in Keys |-> u[j]]
  BY <1>1
<1> QED
  BY <1>2, <1>3, KeepsGraph
-----------------------------------------------------------------------------
LEMMA ReleasedWaitingYields ==
    ASSUME NEW t, GraphOK(t), NEW k \in Keys, NEW outputs
    PROVE  Yields(ReleasedWaiting(t, k, outputs))
<1> DEFINE ts == t[k]
           idle == {d \in ts.deps : t[d].state = "released"}
           missing == ts.waitingOn \cup (ts.deps \ outputs)
           waiters == {d \in ts.dependents : t[d].state = "waiting"}
           own == [ts EXCEPT !.state = "waiting", !.waitingOn = missing, !.waiters = waiters]
           v == [j \in Keys |-> IF j = k THEN own
                     ELSE IF j \in ts.deps \ idle THEN [t[j] EXCEPT !.waiters = @ \cup {k}]
                     ELSE t[j]]
           b == [t EXCEPT ![k].state = "waiting", ![k].blame = TRUE]
           recs == Update(Recs(idle, "waiting"),
                          Recs(IF missing = {} THEN {k} ELSE {}, "processing"))
<1>1. /\ ts \in Task /\ ts.deps \subseteq Keys /\ ts.dependents \subseteq Keys
      /\ ts.waitingOn \subseteq ts.deps /\ Within(ts)
  BY DEF GraphOK, Task, Within
<1>2. Yields(Yield(t, Recs({k}, "forgotten"), Silence))
  BY YieldYields, RecsDomain
<1>3. Yields(Yield(b, Recs({k}, "erred"), Silence))
  <2>1. Keeps(ts, [ts EXCEPT !.state = "waiting", !.blame = TRUE])
    BY <1>1 DEF Task, States, Keeps, Within
  <2>2. b = [t EXCEPT ![k] = [ts EXCEPT !.state = "waiting", !.blame = TRUE]]
    BY DEF GraphOK
  <2>3. GraphOK(b)
    BY <2>1, <2>2, OneTaskKeeps
  <2> HIDE DEF b
  <2> QED
    BY <2>3, YieldYields, RecsDomain
<1>4. Yields(Yield(v, recs, Silence))
  <2>1. Keeps(ts, own)
    BY <1>1 DEF Task, States, Keeps, Within
  <2>2. ASSUME NEW j \in ts.deps \ {k}
        PROVE  Keeps(t[j], [t[j] EXCEPT !.waiters = @ \cup {k}])
    <3>1. j \in Keys /\ k \in t[j].dependents /\ t[j] \in Task /\ Within(t[j])
      BY <1>1 DEF GraphOK, Linked
    <3> QED
      BY <3>1 DEF Task, Keeps, Within
  <2>3. \A j \in Keys : Keeps(t[j], v[j])
    BY <2>1, <2>2, TaskFields
  <2>4. v = [j \in Keys |-> v[j]]
    OBVIOUS
  <2> HIDE DEF v
  <2>5. GraphOK(v)
    BY <2>3, <2>4, KeepsGraph
  <2>6. DOMAIN recs \subseteq Keys
    <3> DEFINE own2 == IF missing = {} THEN {k} ELSE {}
    <3>1. idle \in SUBSET Keys /\ own2 \in SUBSET Keys
      BY <1>1
    <3> HIDE DEF idle, own2
    <3>2. DOMAIN Recs(idle, "waiting") \subseteq Keys /\ DOMAIN Recs(own2, "processing") \subseteq Keys
      BY <3>1, RecsDomain
    <3> QED
      BY <3>2, UpdateDomain DEF own2
  <2> QED
    BY <2>5, <2>6, YieldYields
<1>5. ReleasedWaiting(t, k, outputs) =
          IF ts.lost THEN Yield(t, Recs({k}, "forgotten"), Silence)
          ELSE IF \E d \in ts.deps : t[d].blame THEN Yield(b, Recs({k}, "erred"), Silence)
          ELSE Yield(v, recs, Silence)
  BY Zenon DEF ReleasedWaiting
<1> HIDE DEF v, b, recs, ts
<1> QED
  BY <1>2, <1>3, <1>4, <1>5, Zenon

LEMMA WaitingReleasedYields ==
    ASSUME NEW t, GraphOK(t), NEW k \in Keys
    PROVE  Yields(WaitingReleased(t, k))
<1> DEFINE from == {d \in t[k].deps : k \in t[d].waiters}
           back == ~t[k].blame /\ ~Unneeded(t, k)
           l == Leave(t, k, from)
           kept == IF t[k].lost \/ back THEN l[k].waiters ELSE {}
           us == [l[k] EXCEPT !.state = "released", !.waitingOn = {}, !.waiters = kept]
           u == [l EXCEPT ![k].state = "released", ![k].waitingOn = {},
                     ![k].waiters = IF t[k].lost \/ back THEN @ ELSE {}]
           recs == Update(Recs(ToRelease(t, k, from), "released"),
                          IF t[k].lost THEN Recs({k}, "forgotten")
                          ELSE Recs(IF back THEN {k} ELSE {}, "waiting"))
<1>1. GraphOK(l)
  BY LeaveKeeps
<1>2. u = [l EXCEPT ![k] = us]
  BY <1>1 DEF GraphOK
<1>3. Keeps(l[k], us)
  <2> HIDE DEF l, back
  <2>1. l[k] \in Task /\ Within(l[k])
    BY <1>1 DEF GraphOK
  <2> QED
    BY <2>1 DEF Task, States, Keeps, Within
<1>4. GraphOK(u)
  <2> HIDE DEF u, us, l
  <2> QED
    BY <1>1, <1>2, <1>3, OneTaskKeeps
<1>5. from \subseteq Keys
  BY TaskFields
<1>6. DOMAIN recs \subseteq Keys
  <2>1. ToRelease(t, k, from) \subseteq Keys
    BY <1>5, ToReleaseKeys
  <2> HIDE DEF from, back
  <2> QED
    BY <2>1, RecsDomain, UpdateDomain
<1>7. Yields(Yield(u, recs, Silence))
  <2> HIDE DEF u, recs
  <2> QED
    BY <1>4, <1>6, YieldYields
<1> QED
  BY <1>7 DEF WaitingReleased

(* Nobody waits for a task any more.                                         *)
LEMMA NoWaitersKeeps ==
    ASSUME NEW t, GraphOK(t), NEW k \in Keys
    PROVE  GraphOK([t EXCEPT ![k].waiters = {}])
<1>1. t[k] \in Task /\ Within(t[k])
  BY DEF GraphOK
<1>2. Keeps(t[k], [t[k] EXCEPT !.waiters = {}])
  BY <1>1 DEF Task, Keeps, Within
<1>3. [t EXCEPT ![k].waiters = {}] = [t EXCEPT ![k] = [t[k] EXCEPT !.waiters = {}]]
  BY DEF GraphOK
<1> QED
  BY <1>2, <1>3, OneTaskKeeps

LEMMA ProcessingReleasedYields ==
    ASSUME NEW t, GraphOK(t), NEW k \in Keys
    PROVE  Yields(ProcessingReleased(t, k))
<1> DEFINE from == {d \in t[k].deps : t[d].state # "released"}
           u == [t EXCEPT ![k].state = "released"]
           l == Leave(u, k, from)
           v == [l EXCEPT ![k].waiters = {}]
           first == Recs(IF t[k].lost THEN {k} ELSE {}, "forgotten")
           second == Recs(ToRelease(u, k, from), "released")
<1>1. GraphOK(u)
  BY NewStateKeeps DEF States
<1>2. from \subseteq Keys
  BY TaskFields
<1> HIDE DEF u, from
<1>3. GraphOK(l)
  BY <1>1, LeaveKeeps
<1> HIDE DEF l
<1>4. GraphOK(v)
  BY <1>3, NoWaitersKeeps
<1>5. DOMAIN first \subseteq Keys
  BY RecsDomain
<1>6. DOMAIN second \subseteq Keys
  BY <1>2, RecsDomain, ToReleaseKeys
<1> HIDE DEF v, first, second
<1>7. Yields(Yield(u, Recs({k}, "waiting"), Silence))
  BY <1>1, YieldYields, RecsDomain
<1>8. Yields(Yield(v, Update(first, second), Silence))
  BY <1>4, <1>5, <1>6, YieldYields, UpdateDomain
<1>9. ProcessingReleased(t, k) =
          IF ~t[k].lost /\ ~Unneeded(t, k) THEN Yield(u, Recs({k}, "waiting"), Silence)
          ELSE Yield(v, Update(first, second), Silence)
  BY Zenon DEF ProcessingReleased, u, v, l, from, first, second
<1> QED
  BY <1>7, <1>8, <1>9, Zenon

LEMMA MemoryReleasedYields ==
    ASSUME NEW t, GraphOK(t), NEW k \in Keys
    PROVE  Yields(MemoryReleased(t, k))
<1> DEFINE ts == t[k]
           running == {d \in ts.waiters : t[d].state = "processing"}
           u == [j \in Keys |->
                    IF j = k THEN [ts EXCEPT !.state = "released"]
                    ELSE IF j \in ts.waiters /\ t[j].state = "waiting"
                    THEN [t[j] EXCEPT !.waitingOn = @ \cup {k}]
                    ELSE t[j]]
           rest == Recs(IF Unneeded(t, k) THEN {} ELSE {k}, "waiting")
           own == IF ~ts.spec \/ ts.lost THEN Recs({k}, "forgotten") ELSE rest
           out == Report(t, "lost-data", k)
<1>1. ts \in Task /\ Within(ts) /\ ts.waiters \subseteq Keys
  BY DEF GraphOK, Task
<1>2. Keeps(ts, [ts EXCEPT !.state = "released"])
  BY <1>1 DEF Task, States, Keeps, Within
<1>3. ASSUME NEW j \in ts.waiters
      PROVE  Keeps(t[j], [t[j] EXCEPT !.waitingOn = @ \cup {k}])
  <2>1. j \in ts.dependents /\ j \in Keys
    BY <1>1 DEF Within
  <2>2. k \in t[j].deps /\ t[j] \in Task /\ Within(t[j])
    BY <2>1 DEF GraphOK, Linked
  <2> QED
    BY <2>2 DEF Task, Keeps, Within
<1>4. \A j \in Keys : Keeps(t[j], u[j])
  BY <1>2, <1>3, TaskFields
<1>5. u = [j \in Keys |-> u[j]]
  OBVIOUS
<1>6. running \subseteq Keys
  BY <1>1
<1> HIDE DEF u, running
<1>7. GraphOK(u)
  BY <1>4, <1>5, KeepsGraph
<1>8. DOMAIN Recs(running, "waiting") \subseteq Keys
  BY <1>6, RecsDomain
<1>9. DOMAIN rest \subseteq Keys /\ DOMAIN Recs({k}, "forgotten") \subseteq Keys
  BY RecsDomain
<1> HIDE DEF rest, out
<1>10. DOMAIN own \subseteq Keys
  BY <1>9
<1> HIDE DEF own
<1>11. Yields(Yield(u, Update(Recs(running, "waiting"), own), out))
  BY <1>7, <1>8, <1>10, YieldYields, UpdateDomain
<1> QED
  BY <1>11, Zenon DEF MemoryReleased, u, running, own, rest, out

LEMMA ProcessingErredYields ==
    ASSUME NEW t, GraphOK(t), NEW k \in Keys
    PROVE  Yields(ProcessingErred(t, k))
<1> DEFINE b == Blame(t, t[k].dependents \cup {k})
           u == Leave(b, k, t[k].deps)
           us == [u[k] EXCEPT !.state = "erred", !.waiters = {}]
           v == [u EXCEPT ![k].state = "erred", ![k].waiters = {}]
           first == Recs(t[k].dependents, "erred")
           second == Recs(ToRelease(t, k, t[k].deps), "released")
           out == Report(t, "task-erred", k)
<1>1. GraphOK(b)
  BY BlameKeeps
<1> HIDE DEF b
<1>2. GraphOK(u)
  BY <1>1, LeaveKeeps
<1> HIDE DEF u
<1>3. u[k] \in Task /\ Within(u[k]) /\ u \in [Keys -> Task]
  BY <1>2 DEF GraphOK
<1>4. Keeps(u[k], us)
  BY <1>3 DEF Task, States, Keeps, Within
<1>5. v = [u EXCEPT ![k] = us]
  BY <1>3
<1> HIDE DEF us, v
<1>6. GraphOK(v)
  BY <1>2, <1>4, <1>5, OneTaskKeeps
<1>7. t[k].dependents \subseteq Keys /\ ToRelease(t, k, t[k].deps) \subseteq Keys
  BY TaskFields, ToReleaseKeys
<1>8. DOMAIN first \subseteq Keys /\ DOMAIN second \subseteq Keys
  BY <1>7, RecsDomain
<1> HIDE DEF first, second, out
<1>9. Yields(Yield(v, Update(first, second), out))
  BY <1>6, <1>8, YieldYields, UpdateDomain
<1> QED
  BY <1>9, Zenon DEF ProcessingErred, v, u, b, first, second, out

LEMMA ReleasedErredYields ==
    ASSUME NEW t, GraphOK(t), NEW k \in Keys
    PROVE  Yields(ReleasedErred(t, k))
<1> DEFINE b == Blame(t, t[k].dependents)
           u == [b EXCEPT ![k].state = "erred"]
           recs == Recs(t[k].dependents, "erred")
           out == Report(t, "task-erred", k)
<1>1. GraphOK(b)
  BY BlameKeeps
<1> HIDE DEF b
<1>2. GraphOK(u)
  BY <1>1, NewStateKeeps DEF States
<1> HIDE DEF u, out
<1>3. DOMAIN recs \subseteq Keys
  BY TaskFields, RecsDomain
<1> HIDE DEF recs
<1>4. Yields(Yield(u, recs, out)) /\ Yields(Raise(t))
  BY <1>2, <1>3, YieldYields, RaiseYields
<1>5. ReleasedErred(t, k) = IF ~t[k].blame THEN Raise(t) ELSE Yield(u, recs, out)
  BY Zenon DEF ReleasedErred, u, b, recs, out
<1> QED
  BY <1>4, <1>5, Zenon

LEMMA ErredReleasedYields ==
    ASSUME NEW t, GraphOK(t), NEW k \in Keys
    PROVE  Yields(ErredReleased(t, k))
<1> DEFINE us == [t[k] EXCEPT !.state = "released", !.blame = FALSE]
           u == [t EXCEPT ![k].state = "released", ![k].blame = FALSE]
           some == {d \in t[k].dependents : t[d].state = "erred"}
           recs == Recs(some, "waiting")
           out == Report(t, "task-retried", k)
<1>1. t[k] \in Task /\ Within(t[k]) /\ t \in [Keys -> Task]
  BY DEF GraphOK
<1>2. Keeps(t[k], us)
  BY <1>1 DEF Task, States, Keeps, Within
<1>3. u = [t EXCEPT ![k] = us]
  BY <1>1
<1>4. some \subseteq Keys
  BY TaskFields
<1> HIDE DEF us, u, some, out
<1>5. GraphOK(u)
  BY <1>2, <1>3, OneTaskKeeps
<1>6. DOMAIN recs \subseteq Keys
  BY <1>4, RecsDomain
<1> HIDE DEF recs
<1>7. Yields(Yield(u, recs, out))
  BY <1>5, <1>6, YieldYields
<1> QED
  BY <1>7, Zenon DEF ErredReleased, u, recs, some, out
-----------------------------------------------------------------------------
(* _propagate_forgotten_lambda removes both ends of each edge of the task,   *)
(* because both ends know of it.                                             *)
LEMMA CutOutFields ==
    ASSUME NEW t, GraphOK(t), NEW k \in Keys, NEW j \in Keys, j # k
    PROVE  LET us == CutOut(t, k)[j] IN
           /\ us \in Task /\ Within(us)
           /\ us.deps = t[j].deps \ {k} /\ us.dependents = t[j].dependents \ {k}
<1> DEFINE after == j \in t[k].dependents
           before == j \in t[k].deps
           deps == IF after THEN t[j].deps \ {k} ELSE t[j].deps
           waitingOn == IF after THEN t[j].waitingOn \ {k} ELSE t[j].waitingOn
           dependents == IF before THEN t[j].dependents \ {k} ELSE t[j].dependents
           waiters == IF before THEN t[j].waiters \ {k} ELSE t[j].waiters
           lost == t[j].lost \/ after
           us == [t[j] EXCEPT !.lost = lost, !.deps = deps, !.waitingOn = waitingOn,
                              !.dependents = dependents, !.waiters = waiters]
<1>1. CutOut(t, k)[j] = us
  BY DEF CutOut
<1>2. t[j] \in Task /\ Within(t[j])
  BY DEF GraphOK
<1>3. (k \in t[j].deps <=> after) /\ (k \in t[j].dependents <=> before)
  BY DEF GraphOK, Linked
<1>4. /\ deps = t[j].deps \ {k} /\ dependents = t[j].dependents \ {k}
      /\ waitingOn \subseteq deps /\ waiters \subseteq dependents
  BY <1>2, <1>3 DEF Within
<1>5. lost \in BOOLEAN
  BY <1>2 DEF Task
<1>6. deps \subseteq t[j].deps /\ dependents \subseteq t[j].dependents
  BY <1>4
<1> HIDE DEF after, before, deps, dependents, waitingOn, waiters, lost
<1>7. /\ us.deps = deps /\ us.dependents = dependents /\ us.waitingOn = waitingOn
      /\ us.waiters = waiters /\ us.state = t[j].state
  BY <1>2 DEF Task
<1>8. us \in Task
  BY <1>2, <1>4, <1>5, <1>6 DEF Task
<1>9. Within(us)
  <2> HIDE DEF us
  <2> QED
    BY <1>2, <1>4, <1>6, <1>7 DEF Within
<1> HIDE DEF us
<1> QED
  BY <1>1, <1>4, <1>7, <1>8, <1>9

LEMMA CutOutKeeps ==
    ASSUME NEW t, GraphOK(t), NEW k \in Keys
    PROVE  GraphOK(CutOut(t, k))
<1> DEFINE u == CutOut(t, k)
<1>1. u = [j \in Keys |-> u[j]] /\ u[k] = NoTask
  BY DEF CutOut
<1>2. ASSUME NEW j \in Keys, j # k
      PROVE  /\ u[j] \in Task /\ Within(u[j])
             /\ u[j].deps = t[j].deps \ {k} /\ u[j].dependents = t[j].dependents \ {k}
  BY <1>2, CutOutFields
<1> HIDE DEF u
<1>3. NoTask \in Task /\ Within(NoTask) /\ NoTask.deps = {} /\ NoTask.dependents = {}
  BY DEF NoTask, Task, States, Within
<1>4. \A j \in Keys : u[j] \in Task /\ Within(u[j])
  BY <1>1, <1>2, <1>3
<1>5. ASSUME NEW i \in Keys, NEW j \in Keys
      PROVE  i \in u[j].deps <=> j \in u[i].dependents
  <2>1. i \in t[j].deps <=> j \in t[i].dependents
    BY DEF GraphOK, Linked
  <2>2. CASE i # k /\ j # k
    BY <1>2, <2>1, <2>2
  <2>3. CASE i = k \/ j = k
    BY <1>1, <1>2, <1>3, <2>3
  <2> QED
    BY <2>2, <2>3
<1>6. Linked(u)
  BY <1>5 DEF Linked
<1>7. u \in [Keys -> Task]
  BY <1>1, <1>4
<1> QED
  BY <1>4, <1>6, <1>7 DEF GraphOK, u

LEMMA ForgottenYields ==
    ASSUME NEW t, GraphOK(t), NEW k \in Keys
    PROVE  Yields(MemoryForgotten(t, k)) /\ Yields(ReleasedForgotten(t, k))
<1> DEFINE u == CutOut(t, k)
           recs == Recs(PropagateForgotten(t, k), "forgotten")
           out == Report(t, "cancelled-key", k)
<1>1. GraphOK(u)
  BY CutOutKeeps
<1>2. PropagateForgotten(t, k) \subseteq Keys
  BY TaskFields DEF PropagateForgotten
<1>3. DOMAIN recs \subseteq Keys
  BY <1>2, RecsDomain
<1> HIDE DEF u, recs, out
<1>4. Yields(Yield(u, recs, out))
  BY <1>1, <1>3, YieldYields
<1> QED
  BY <1>4 DEF MemoryForgotten, ReleasedForgotten, u, recs, out
-----------------------------------------------------------------------------
LEMMA FuncYields ==
    ASSUME NEW t, GraphOK(t), NEW k \in Keys, NEW arc, NEW outputs
    PROVE  Yields(Func(t, k, arc, outputs))
<1>1. Yields(WaitingMemory(t, k))
  BY RaiseYields DEF WaitingMemory
<1> QED
  BY <1>1, ReleasedWaitingYields, WaitingProcessingYields, WaitingReleasedYields,
     ProcessingReleasedYields, ProcessingMemoryYields, ProcessingErredYields,
     MemoryReleasedYields, ReleasedErredYields, ErredReleasedYields, ForgottenYields
     DEF Func

(* Other values of two fields.                                               *)
LEMMA YieldsExcept ==
    ASSUME NEW r, Yields(r), NEW recs, DOMAIN recs \subseteq Keys, NEW x
    PROVE  Yields([r EXCEPT !.raises = x, !.recs = recs]) /\ Yields([r EXCEPT !.recs = recs, !.out = x])
<1> DEFINE u == [r EXCEPT !.raises = x, !.recs = recs]
           v == [r EXCEPT !.recs = recs, !.out = x]
<1>1. DOMAIN u = DOMAIN r /\ u.t = r.t /\ u.recs = recs
  BY DEF Yields
<1>2. DOMAIN v = DOMAIN r /\ v.t = r.t /\ v.recs = recs
  BY DEF Yields
<1> HIDE DEF u, v
<1> QED
  BY <1>1, <1>2 DEF Yields, u, v

(* transition, through "released" or not.                                    *)
LEMMA TransitionYields ==
    ASSUME NEW t, GraphOK(t), NEW k \in Keys, NEW finish, NEW outputs
    PROVE  Yields(Transition(t, k, finish, outputs))
<1> DEFINE start == t[k].state
           a == Func(t, k, <<start, "released">>, outputs)
           target == IF k \in DOMAIN a.recs THEN a.recs[k] ELSE finish
           b == Func(a.t, k, <<"released", target>>, outputs)
           one == Func(t, k, <<start, finish>>, outputs)
           bad == [a EXCEPT !.raises = TRUE, !.recs = <<>>]
           two == [b EXCEPT !.recs = Update(a.recs, b.recs), !.out = Then(a.out, b.out)]
<1>1. Yields(a) /\ Yields(one)
  BY FuncYields
<1> HIDE DEF a, one
<1>2. Yields(b)
  BY <1>1, FuncYields DEF Yields
<1> HIDE DEF b, target
<1>3. Yields(bad)
  BY <1>1, RecsDomain, YieldsExcept
<1>4. Yields(two)
  <2>1. DOMAIN Update(a.recs, b.recs) \subseteq Keys
    BY <1>1, <1>2, UpdateDomain DEF Yields
  <2> QED
    BY <1>2, <2>1, YieldsExcept
<1>5. Yields(Yield(t, <<>>, Silence)) /\ Yields(Raise(t))
  BY YieldYields, RaiseYields, RecsDomain
<1>6. Transition(t, k, finish, outputs) =
          IF start \in {"unknown", finish} THEN Yield(t, <<>>, Silence)
          ELSE IF <<start, finish>> \in Transitions THEN one
          ELSE IF start = "released" \/ <<"released", finish>> \notin Transitions THEN Raise(t)
          ELSE IF b.raises THEN bad ELSE two
  BY Zenon DEF Transition, one, a, b, target
<1> HIDE DEF bad, two, start
<1> QED
  BY <1>1, <1>3, <1>4, <1>5, <1>6, Zenon
-----------------------------------------------------------------------------
(* What the handlers carry from one step to the next: the calls still to     *)
(* make, and the messages.                                                   *)
IsSeq(s) == s \in Seq({s[i] : i \in DOMAIN s})
FrameOK(f) ==
    /\ "op" \in DOMAIN f
    /\ f.op = "transitions" => DOMAIN f.recs \subseteq Keys
    /\ f.op = "releases" => f.keys \subseteq Keys
    /\ f.op \in {"cancel", "cancelled"} => "key" \in DOMAIN f /\ f.key \in Keys
    /\ f.op = "graph" => /\ {"client", "graph", "keys"} \subseteq DOMAIN f
                         /\ f.client \in Clients
                         /\ f.graph \subseteq Keys /\ f.keys \subseteq Keys
Frames(s) == IsSeq(s) /\ \A i \in DOMAIN s : FrameOK(s[i])

(* The messages of clients and of Executors.                                 *)
ClientMessage ==
    [op : {"update-graph"}, graph : SUBSET Keys, keys : SUBSET Keys]
    \cup [op : {"client-desires-keys"}, keys : SUBSET Keys,
          client : Clients \cup {FireAndForget}]
    \cup [op : {"client-releases-keys"}, keys : SUBSET Keys]
    \cup [op : {"report-key"}, keys : (SUBSET Keys) \ {{}}]
    \cup [op : {"restart", "close-client", "register-client"}]
ExecutorMessage ==
    [op : {"executing-task", "executed-task", "lambda-result", "task-erred"}, key : Keys]

Carried ==
    /\ Frames(todo) /\ \A f \in again : FrameOK(f)
    /\ registered \subseteq Clients
    /\ up \in [Clients -> Seq(ClientMessage)]
    /\ batch \in Seq(ExecutorMessage) /\ queue \in Seq(ExecutorMessage)
    /\ \A m \in calls : m.keys \subseteq Keys

(* The inductive invariant.                                                  *)
SchedulerInv == GraphOK(tasks) /\ Carried
-----------------------------------------------------------------------------
(* Sequences of frames.                                                      *)
LEMMA SeqFrames ==
    ASSUME NEW S, NEW s \in Seq(S), \A f \in S : FrameOK(f)
    PROVE  Frames(s)
<1>1. Len(s) \in Nat /\ DOMAIN s = 1..Len(s) /\ s \in [1..Len(s) -> S]
  OBVIOUS
<1> DEFINE T == {s[i] : i \in DOMAIN s}
<1>2. s \in [1..Len(s) -> T]
  BY <1>1
<1>3. IsSeq(s)
  <2> HIDE DEF T
  <2>1. s \in Seq(T)
    BY <1>1, <1>2
  <2> QED
    BY <2>1 DEF IsSeq, T
<1> QED
  BY <1>1, <1>3 DEF Frames

LEMMA FramesSeq ==
    ASSUME NEW s, Frames(s)
    PROVE  \E S : s \in Seq(S) /\ \A f \in S : FrameOK(f)
<1>1. s \in Seq({s[i] : i \in DOMAIN s}) /\ \A f \in {s[i] : i \in DOMAIN s} : FrameOK(f)
  BY DEF Frames, IsSeq
<1> QED
  BY <1>1

LEMMA FramesConcat ==
    ASSUME NEW r, Frames(r), NEW s, Frames(s)
    PROVE  Frames(r \o s)
<1>1. PICK R : r \in Seq(R) /\ \A f \in R : FrameOK(f)
  BY FramesSeq
<1>2. PICK S : s \in Seq(S) /\ \A f \in S : FrameOK(f)
  BY FramesSeq
<1>3. r \in Seq(R \cup S) /\ s \in Seq(R \cup S)
  BY <1>1, <1>2
<1> DEFINE T == R \cup S
<1>4. \A f \in T : FrameOK(f)
  BY <1>1, <1>2
<1>5. r \o s \in Seq(T)
  <2> HIDE DEF T
  <2> QED
    BY <1>3 DEF T
<1> HIDE DEF T
<1> QED
  BY <1>4, <1>5, SeqFrames

LEMMA FramesHeadTail ==
    ASSUME NEW s, Frames(s), s # <<>>
    PROVE  FrameOK(Head(s)) /\ Frames(Tail(s))
<1>1. PICK S : s \in Seq(S) /\ \A f \in S : FrameOK(f)
  BY FramesSeq
<1>2. Head(s) \in S /\ Tail(s) \in Seq(S)
  BY <1>1
<1> QED
  BY <1>1, <1>2, SeqFrames

LEMMA FramesFew ==
    /\ Frames(<<>>)
    /\ \A f : FrameOK(f) => Frames(<<f>>)
    /\ \A f, g : FrameOK(f) /\ FrameOK(g) => Frames(<<f, g>>)
<1>1. Frames(<<>>)
  <2> DEFINE s == <<>>
             S == {}
  <2>1. s \in Seq(S)
    OBVIOUS
  <2>2. \A e \in S : FrameOK(e)
    OBVIOUS
  <2> HIDE DEF s, S
  <2>3. Frames(s)
    BY <2>1, <2>2, SeqFrames
  <2> QED
    BY <2>3 DEF s
<1>2. ASSUME NEW f, FrameOK(f) PROVE Frames(<<f>>)
  <2> DEFINE s == <<f>>
             S == {f}
  <2>1. s \in Seq(S)
    OBVIOUS
  <2>2. \A e \in S : FrameOK(e)
    BY <1>2
  <2> HIDE DEF s, S
  <2>3. Frames(s)
    BY <2>1, <2>2, SeqFrames
  <2> QED
    BY <2>3 DEF s
<1>3. ASSUME NEW f, NEW g, FrameOK(f), FrameOK(g) PROVE Frames(<<f, g>>)
  <2> DEFINE s == <<f, g>>
             S == {f, g}
  <2>1. s \in Seq(S)
    OBVIOUS
  <2>2. \A e \in S : FrameOK(e)
    BY <1>3
  <2> HIDE DEF s, S
  <2>3. Frames(s)
    BY <2>1, <2>2, SeqFrames
  <2> QED
    BY <2>3 DEF s
<1> QED
  BY <1>1, <1>2, <1>3

(* One frame for each element of a sequence.                                 *)
LEMMA FramesMap ==
    ASSUME NEW s, NEW n \in Nat, s = [i \in 1..n |-> s[i]], \A i \in 1..n : FrameOK(s[i])
    PROVE  Frames(s)
<1>1. s \in Seq({s[i] : i \in 1..n})
  OBVIOUS
<1> QED
  BY <1>1, SeqFrames

(* SetToSeq lists a finite set.                                              *)
LEMMA SetToSeqLists ==
    ASSUME NEW S, IsFiniteSet(S)
    PROVE  /\ Cardinality(S) \in Nat
           /\ SetToSeq(S) = [i \in 1..Cardinality(S) |-> SetToSeq(S)[i]]
           /\ \A i \in 1..Cardinality(S) : SetToSeq(S)[i] \in S
<1>1. PICK f : f \in Bijection(1..Cardinality(S), S)
  BY FS_CardinalityType DEF ExistsBijection
<1>2. f \in [1..Cardinality(S) -> S] /\ IsInjective(f)
  BY <1>1 DEF Bijection, Injection
<1>3. SetToSeq(S) \in [1..Cardinality(S) -> S]
  BY <1>2 DEF SetToSeq
<1> QED
  BY <1>3, FS_CardinalityType
-----------------------------------------------------------------------------
(* What the handlers of clients do to the tasks.                             *)
LEMMA ReleasedKeysKeeps ==
    ASSUME NEW t, GraphOK(t), NEW client, NEW keys
    PROVE  GraphOK(ReleasedKeys(t, client, keys))
<1> DEFINE u == ReleasedKeys(t, client, keys)
<1>1. u = [k \in Keys |-> IF k \in keys THEN [t[k] EXCEPT !.wants = @ \ {client}] ELSE t[k]]
  BY DEF ReleasedKeys
<1> HIDE DEF u
<1>2. ASSUME NEW k \in Keys PROVE Keeps(t[k], u[k])
  <2>1. t[k] \in Task /\ Within(t[k])
    BY DEF GraphOK
  <2> DEFINE wants == t[k].wants \ {client}
  <2>2. wants \in SUBSET (Clients \cup {FireAndForget})
    BY <2>1 DEF Task
  <2>3. Keeps(t[k], [t[k] EXCEPT !.wants = wants])
    <3> HIDE DEF wants
    <3> QED
      BY <2>1, <2>2 DEF Task, Keeps, Within
  <2> QED
    BY <1>1, <2>3, TaskFields
<1>3. GraphOK(u)
  BY <1>1, <1>2, KeepsGraph
<1> QED
  BY <1>3 DEF u

(* A task that is new has no edges, as it had when it was unknown.           *)
LEMMA NewTaskKeeps ==
    ASSUME NEW t, GraphOK(t), NEW k \in Keys, t[k].state = "unknown", NEW spec \in BOOLEAN
    PROVE  Keeps(t[k], NewTask(spec))
<1>1. t[k].deps = {} /\ t[k].dependents = {}
  BY DEF GraphOK, Within
<1>2. /\ NewTask(spec) \in Task /\ NewTask(spec).deps = {} /\ NewTask(spec).dependents = {}
      /\ NewTask(spec).waitingOn = {} /\ NewTask(spec).waiters = {}
  BY DEF NewTask, NoTask, Task, States
<1> QED
  BY <1>1, <1>2 DEF Keeps, Within

LEMMA WithTasksKeeps ==
    ASSUME NEW t, GraphOK(t), NEW graph, NEW touched
    PROVE  GraphOK(WithTasks(t, graph, touched))
<1> DEFINE u == WithTasks(t, graph, touched)
<1>1. u = [k \in Keys |->
               IF k \notin touched THEN t[k]
               ELSE IF t[k].state = "unknown" THEN NewTask(k \in graph)
               ELSE [t[k] EXCEPT !.spec = @ \/ k \in graph]]
  BY DEF WithTasks
<1> HIDE DEF u
<1>2. ASSUME NEW k \in Keys PROVE Keeps(t[k], u[k])
  <2>1. t[k] \in Task /\ Within(t[k])
    BY DEF GraphOK
  <2> DEFINE spec == t[k].spec \/ k \in graph
  <2>2. spec \in BOOLEAN /\ (k \in graph) \in BOOLEAN
    BY <2>1 DEF Task
  <2>3. Keeps(t[k], [t[k] EXCEPT !.spec = spec])
    <3> HIDE DEF spec
    <3> QED
      BY <2>1, <2>2 DEF Task, Keeps, Within
  <2>4. t[k].state = "unknown" => Keeps(t[k], NewTask(k \in graph))
    BY <2>2, NewTaskKeeps
  <2>5. Keeps(t[k], t[k])
    BY TaskFields
  <2>6. u[k] = IF k \notin touched THEN t[k]
               ELSE IF t[k].state = "unknown" THEN NewTask(k \in graph)
               ELSE [t[k] EXCEPT !.spec = spec]
    BY <1>1, Zenon
  <2> HIDE DEF spec
  <2> QED
    BY <2>3, <2>4, <2>5, <2>6, Zenon
<1>3. GraphOK(u)
  BY <1>1, <1>2, KeepsGraph
<1> QED
  BY <1>3 DEF u

LEMMA DesiredKeeps ==
    ASSUME NEW t, GraphOK(t), NEW keys, NEW client \in Clients \cup {FireAndForget}
    PROVE  GraphOK(Desired(t, keys, client))
<1> DEFINE u == Desired(t, keys, client)
           ts(k) == IF t[k].state = "unknown" THEN NewTask(FALSE) ELSE t[k]
<1>1. u = [k \in Keys |-> IF k \notin keys THEN t[k]
                          ELSE [ts(k) EXCEPT !.wants = @ \cup {client}]]
  BY DEF Desired
<1> HIDE DEF u
<1>2. ASSUME NEW k \in Keys PROVE Keeps(t[k], u[k])
  <2> DEFINE us == ts(k)
  <2>1. Keeps(t[k], t[k]) /\ Keeps(t[k], us)
    BY TaskFields, NewTaskKeeps
  <2> HIDE DEF us
  <2>2. us \in Task /\ Within(us) /\ us.deps = t[k].deps /\ us.dependents = t[k].dependents
    BY <2>1 DEF Keeps
  <2> DEFINE wants == us.wants \cup {client}
             vs == [us EXCEPT !.wants = wants]
  <2>3. wants \in SUBSET (Clients \cup {FireAndForget})
    BY <2>2 DEF Task
  <2>4. Keeps(t[k], vs)
    <3> HIDE DEF wants
    <3>1. /\ vs \in Task /\ vs.deps = us.deps /\ vs.dependents = us.dependents
          /\ vs.waitingOn = us.waitingOn /\ vs.waiters = us.waiters /\ vs.state = us.state
      BY <2>2, <2>3 DEF Task
    <3> HIDE DEF vs
    <3> QED
      BY <2>2, <3>1 DEF Keeps, Within
  <2>5. u[k] = IF k \notin keys THEN t[k] ELSE vs
    BY <1>1 DEF us
  <2> HIDE DEF vs
  <2> QED
    BY <2>1, <2>4, <2>5, Zenon
<1>3. GraphOK(u)
  <2>1. u = [k \in Keys |-> u[k]]
    BY <1>1
  <2> QED
    BY <2>1, <1>2, KeepsGraph
<1> QED
  BY <1>3 DEF u

LEMMA AllProcessingKeeps ==
    ASSUME NEW t, GraphOK(t)
    PROVE  GraphOK(AllProcessing(t))
<1> DEFINE u == AllProcessing(t)
<1>1. u = [k \in Keys |-> IF t[k].state = "unknown" THEN t[k]
                          ELSE [t[k] EXCEPT !.state = "processing"]]
  BY DEF AllProcessing
<1> HIDE DEF u
<1>2. ASSUME NEW k \in Keys PROVE Keeps(t[k], u[k])
  <2>1. t[k] \in Task /\ Within(t[k])
    BY DEF GraphOK
  <2>2. Keeps(t[k], [t[k] EXCEPT !.state = "processing"])
    BY <2>1 DEF Task, States, Keeps, Within
  <2> QED
    BY <1>1, <2>2, TaskFields
<1>3. GraphOK(u)
  BY <1>1, <1>2, KeepsGraph
<1> QED
  BY <1>3 DEF u

(* The dependencies of tasks are added at both ends.                         *)
LEMMA WithDependenciesKeeps ==
    ASSUME NEW t, GraphOK(t), NEW edges \in SUBSET (Keys \X Keys),
           \A g \in edges : t[g[1]].state # "unknown" /\ t[g[2]].state # "unknown"
    PROVE  GraphOK(WithDependencies(t, edges))
<1> DEFINE u == WithDependencies(t, edges)
           to(k) == {d \in Keys : <<k, d>> \in edges}
           on(k) == {j \in Keys : <<j, k>> \in edges}
<1>1. u = [k \in Keys |-> [t[k] EXCEPT !.deps = @ \cup to(k), !.dependents = @ \cup on(k)]]
  BY DEF WithDependencies
<1> HIDE DEF u
<1>2. ASSUME NEW k \in Keys
      PROVE  /\ u[k] \in Task /\ Within(u[k])
             /\ u[k].deps = t[k].deps \cup to(k) /\ u[k].dependents = t[k].dependents \cup on(k)
  <2>1. t[k] \in Task /\ Within(t[k])
    BY DEF GraphOK
  <2> DEFINE deps == t[k].deps \cup to(k)
             dependents == t[k].dependents \cup on(k)
             us == [t[k] EXCEPT !.deps = deps, !.dependents = dependents]
  <2>2. deps \in SUBSET Keys /\ dependents \in SUBSET Keys
    BY <2>1 DEF Task
  <2>3. t[k].state = "unknown" => to(k) = {} /\ on(k) = {}
    OBVIOUS
  <2>4. t[k].deps \subseteq deps /\ t[k].dependents \subseteq dependents
    OBVIOUS
  <2>5. t[k].state = "unknown" => deps = {} /\ dependents = {}
    BY <2>1, <2>3 DEF Within
  <2>6. u[k] = us
    BY <1>1
  <2>7. /\ us \in Task /\ us.deps = deps /\ us.dependents = dependents
        /\ us.waitingOn = t[k].waitingOn /\ us.waiters = t[k].waiters /\ us.state = t[k].state
    <3> HIDE DEF deps, dependents
    <3> QED
      BY <2>1, <2>2 DEF Task
  <2> HIDE DEF us
  <2>8. Within(us)
    <3> HIDE DEF deps, dependents
    <3> QED
      BY <2>1, <2>4, <2>5, <2>7 DEF Within
  <2> QED
    BY <2>6, <2>7, <2>8
<1>3. ASSUME NEW j \in Keys, NEW k \in Keys
      PROVE  j \in u[k].deps <=> k \in u[j].dependents
  <2>1. j \in t[k].deps <=> k \in t[j].dependents
    BY DEF GraphOK, Linked
  <2>2. j \in to(k) <=> k \in on(j)
    OBVIOUS
  <2> HIDE DEF to, on
  <2> QED
    BY <1>2, <2>1, <2>2
<1>4. Linked(u)
  BY <1>3 DEF Linked
<1>5. u \in [Keys -> Task]
  <2>1. u = [k \in Keys |-> u[k]]
    BY <1>1
  <2> QED
    BY <1>2, <2>1
<1> QED
  BY <1>2, <1>4, <1>5 DEF GraphOK, u
-----------------------------------------------------------------------------
(* The frames the handlers push.                                             *)
LEMMA TransitionsFrame ==
    ASSUME NEW recs, DOMAIN recs \subseteq Keys
    PROVE  FrameOK(TransitionsOf(recs))
BY DEF FrameOK, TransitionsOf
LEMMA ReleasesFrame ==
    ASSUME NEW client, NEW keys, keys \subseteq Keys
    PROVE  FrameOK(ReleasesOf(client, keys))
BY DEF FrameOK, ReleasesOf
LEMMA CancelFrame ==
    ASSUME NEW k \in Keys, NEW client, NEW force, NEW tries
    PROVE  FrameOK(CancelOf(k, client, force, tries))
BY DEF FrameOK, CancelOf
LEMMA RecommendedFrames ==
    ASSUME NEW recs, DOMAIN recs \subseteq Keys
    PROVE  Frames(Recommended(recs))
<1>1. Frames(<<>>) /\ Frames(<<TransitionsOf(recs)>>)
  BY TransitionsFrame, FramesFew
<1> QED
  BY <1>1, Zenon DEF Recommended
LEMMA FreeFrames ==
    ASSUME NEW free, NEW k \in Keys, NEW recs, DOMAIN recs \subseteq Keys
    PROVE  Frames((IF free THEN <<ReleasesOf(FireAndForget, {k})>> ELSE <<>>) \o Recommended(recs))
<1> DEFINE s == IF free THEN <<ReleasesOf(FireAndForget, {k})>> ELSE <<>>
           r == Recommended(recs)
<1>1. Frames(<<ReleasesOf(FireAndForget, {k})>>) /\ Frames(<<>>)
  BY ReleasesFrame, FramesFew
<1>2. Frames(s)
  BY <1>1, Zenon
<1>3. Frames(r)
  BY RecommendedFrames
<1> HIDE DEF s, r
<1>4. Frames(s \o r)
  BY <1>2, <1>3, FramesConcat
<1> QED
  BY <1>4, Zenon DEF s, r

(* A handler that goes on, and one that fails.                               *)
LEMMA PushFrames ==
    ASSUME Frames(todo), todo # <<>>, NEW s, Frames(s), Push(s)
    PROVE  Frames(todo')
<1>1. Frames(Tail(todo))
  BY FramesHeadTail
<1> QED
  BY <1>1, FramesConcat DEF Push
LEMMA FailFrames ==
    ASSUME NEW who, NEW out, Fail(who, out)
    PROVE  Frames(todo') /\ batch' \in Seq(ExecutorMessage)
<1> DEFINE f == [op |-> "remove", client |-> who]
<1>1. FrameOK(f)
  BY DEF FrameOK
<1> HIDE DEF f
<1>2. Frames(<<f>>) /\ Frames(<<>>)
  BY <1>1, FramesFew
<1>3. batch' = <<>> /\ (todo' = <<f>> \/ todo' = <<>>)
  BY DEF Fail, f
<1>4. <<>> \in Seq(ExecutorMessage)
  OBVIOUS
<1> QED
  BY <1>2, <1>3, <1>4, Zenon
-----------------------------------------------------------------------------
(* The steps of the handlers.                                                *)
LEMMA TransitionsKeep ==
    ASSUME SchedulerInv, TransitionsStep
    PROVE  SchedulerInv'
<1> DEFINE f == Head(todo)
           recs == f.recs
<1>1. todo # <<>> /\ f.op = "transitions"
  BY DEF TransitionsStep
<1>2. GraphOK(tasks) /\ Frames(todo)
  BY DEF SchedulerInv, Carried
<1>3. FrameOK(f)
  BY <1>1, <1>2, FramesHeadTail
<1>4. DOMAIN recs \subseteq Keys
  BY <1>1, <1>3 DEF FrameOK
<1>5. PICK k \in DOMAIN recs :
          LET rest == [j \in DOMAIN recs \ {k} |-> recs[j]]
              r == Transition(tasks, k, recs[k], stored)
              free == /\ <<tasks[k].state, recs[k]>> = <<"processing", "erred">>
                      /\ FireAndForget \in tasks[k].wants
          IN  /\ tasks' = r.t
              /\ IF r.raises THEN Fail(owner, r.out)
                 ELSE /\ Send(r.out)
                      /\ Push((IF free THEN <<ReleasesOf(FireAndForget, {k})>> ELSE <<>>)
                              \o Recommended(Update(rest, r.recs)))
                      /\ UNCHANGED <<batch, comms>>
  BY Zenon DEF TransitionsStep
<1> DEFINE rest == [j \in DOMAIN recs \ {k} |-> recs[j]]
           r == Transition(tasks, k, recs[k], stored)
           free == /\ <<tasks[k].state, recs[k]>> = <<"processing", "erred">>
                   /\ FireAndForget \in tasks[k].wants
           all == Update(rest, r.recs)
           s == (IF free THEN <<ReleasesOf(FireAndForget, {k})>> ELSE <<>>) \o Recommended(all)
<1>6. k \in Keys
  BY <1>4
<1>7. Yields(r)
  BY <1>2, <1>6, TransitionYields
<1>8. DOMAIN rest \subseteq Keys
  BY <1>4
<1> HIDE DEF f, r, free, rest
<1>9. DOMAIN all \subseteq Keys
  BY <1>7, <1>8, UpdateDomain DEF Yields
<1> HIDE DEF all
<1>10. Frames(s)
  BY <1>6, <1>9, FreeFrames
<1> HIDE DEF s
<1>11. tasks' = r.t /\ (Fail(owner, r.out) \/ (Push(s) /\ UNCHANGED <<batch, comms>>))
  BY <1>5, Zenon DEF r, rest, free, all, s
<1>12. GraphOK(tasks')
  BY <1>7, <1>11 DEF Yields
<1>13. Frames(todo') /\ batch' \in Seq(ExecutorMessage)
  BY <1>1, <1>2, <1>10, <1>11, FailFrames, PushFrames DEF SchedulerInv, Carried
<1>14. UNCHANGED <<registered, up, calls, again, queue>>
  BY DEF TransitionsStep, rpcs, remote
<1>15. Carried'
  BY <1>13, <1>14 DEF SchedulerInv, Carried
<1> QED
  BY <1>12, <1>15 DEF SchedulerInv

(* The frame on top of the stack.                                            *)
LEMMA TopFrame ==
    ASSUME SchedulerInv, todo # <<>>
    PROVE  GraphOK(tasks) /\ Frames(todo) /\ FrameOK(Head(todo))
BY FramesHeadTail DEF SchedulerInv, Carried

LEMMA ReleaseKeep ==
    ASSUME SchedulerInv, ReleaseKeys
    PROVE  SchedulerInv'
<1> DEFINE f == Head(todo)
           recs == ReleasedRecs(tasks, f.client, f.keys)
<1>1. todo # <<>> /\ f.op = "releases"
  BY DEF ReleaseKeys
<1>2. GraphOK(tasks) /\ Frames(todo) /\ f.keys \subseteq Keys
  BY <1>1, TopFrame DEF FrameOK
<1>3. \/ tasks' = ReleasedKeys(tasks, f.client, f.keys) /\ Push(Recommended(recs))
         /\ UNCHANGED <<batch, comms, down>>
      \/ tasks' = tasks /\ Fail(owner, Silence)
  BY Zenon DEF ReleaseKeys
<1>4. DOMAIN recs \subseteq Keys
  BY <1>2 DEF ReleasedRecs, Recs, Update
<1> HIDE DEF recs, f
<1>5. GraphOK(tasks')
  BY <1>2, <1>3, ReleasedKeysKeeps
<1>6. Frames(Recommended(recs))
  BY <1>4, RecommendedFrames
<1>7. Frames(todo') /\ batch' \in Seq(ExecutorMessage)
  BY <1>1, <1>2, <1>3, <1>6, FailFrames, PushFrames DEF SchedulerInv, Carried
<1>8. UNCHANGED <<registered, up, calls, again, queue>>
  BY DEF ReleaseKeys, rpcs, remote
<1>9. Carried'
  BY <1>7, <1>8 DEF SchedulerInv, Carried
<1> QED
  BY <1>5, <1>9 DEF SchedulerInv

(* cancel_key calls itself for the dependents.                               *)
DependentsCancelled(f) ==
    LET dependents == IF f.force \/ tasks[f.key].wants = {f.client}
                      THEN SetToSeq(tasks[f.key].dependents) ELSE <<>>
    IN  [i \in DOMAIN dependents |-> CancelOf(dependents[i], f.client, f.force, CancelTries)]
LEMMA DependentsFrames ==
    ASSUME GraphOK(tasks), NEW f, f.key \in Keys
    PROVE  Frames(DependentsCancelled(f))
<1> DEFINE ts == tasks[f.key]
           dependents == IF f.force \/ ts.wants = {f.client} THEN SetToSeq(ts.dependents) ELSE <<>>
           first == [i \in DOMAIN dependents |->
                        CancelOf(dependents[i], f.client, f.force, CancelTries)]
           q == SetToSeq(ts.dependents)
           n == Cardinality(ts.dependents)
<1>1. ts.dependents \subseteq Keys
  BY TaskFields
<1>2. IsFiniteSet(ts.dependents)
  BY <1>1, FS_Subset, SchedulerAssumption
<1>3. n \in Nat /\ q = [i \in 1..n |-> q[i]] /\ \A i \in 1..n : q[i] \in Keys
  BY <1>1, <1>2, SetToSeqLists
<1>4. dependents = q \/ dependents = <<>>
  OBVIOUS
<1> HIDE DEF q, n, ts, dependents
<1>5. \E m \in Nat : DOMAIN dependents = 1..m /\ \A i \in 1..m : dependents[i] \in Keys
  <2>1. DOMAIN q = 1..n /\ DOMAIN <<>> = 1..0
    BY <1>3
  <2> QED
    BY <1>3, <1>4, <2>1
<1>6. PICK m \in Nat : DOMAIN dependents = 1..m /\ \A i \in 1..m : dependents[i] \in Keys
  BY <1>5
<1>7. first = [i \in 1..m |-> first[i]] /\ \A i \in 1..m : FrameOK(first[i])
  BY <1>6, CancelFrame
<1> HIDE DEF first
<1>8. Frames(first)
  BY <1>7, FramesMap
<1> QED
  BY <1>8, Zenon DEF DependentsCancelled, first, dependents, ts

LEMMA CancelKeep ==
    ASSUME SchedulerInv, CancelKey
    PROVE  SchedulerInv'
<1> DEFINE f == Head(todo)
           put == CancelOf(f.key, f.client, FALSE, f.tries - 1)
           first == DependentsCancelled(f)
           last == [f EXCEPT !.op = "cancelled"]
<1>1. todo # <<>> /\ f.op = "cancel"
  BY DEF CancelKey
<1>2. GraphOK(tasks) /\ Frames(todo) /\ FrameOK(f)
  BY <1>1, TopFrame
<1>3. f.key \in Keys /\ "key" \in DOMAIN f /\ "op" \in DOMAIN f
  BY <1>1, <1>2 DEF FrameOK
<1>4. \/ Push(<<>>) /\ UNCHANGED again
      \/ Push(<<>>) /\ again' = IF f.tries = 0 THEN again ELSE again \cup {put}
      \/ Push(first \o <<last>>) /\ UNCHANGED again
  BY Zenon DEF CancelKey, DependentsCancelled
<1>5. FrameOK(put)
  BY <1>3, CancelFrame
<1>6. FrameOK(last)
  <2>1. DOMAIN last = DOMAIN f /\ last.op = "cancelled" /\ last.key = f.key
    BY <1>3
  <2> HIDE DEF last
  <2> QED
    BY <1>3, <2>1 DEF FrameOK
<1>7. Frames(first)
  BY <1>2, <1>3, DependentsFrames
<1> HIDE DEF f, put, last, first
<1>8. Frames(<<>>) /\ Frames(<<last>>)
  BY <1>6, FramesFew
<1>9. Frames(first \o <<last>>)
  BY <1>7, <1>8, FramesConcat
<1>10. Frames(todo')
  BY <1>1, <1>2, <1>4, <1>8, <1>9, PushFrames
<1>11. \A g \in again' : FrameOK(g)
  BY <1>4, <1>5 DEF SchedulerInv, Carried
<1>12. UNCHANGED <<tasks, registered, up, calls, batch, queue>>
  BY DEF CancelKey, streams, remote
<1> QED
  BY <1>10, <1>11, <1>12 DEF SchedulerInv, Carried

(* The rest of it releases the key for those who want it.                    *)
KeyReleased(f) ==
    LET clients == SetToSeq(IF f.force THEN tasks[f.key].wants ELSE {f.client})
    IN  [i \in DOMAIN clients |-> ReleasesOf(clients[i], {f.key})]
LEMMA KeyReleasedFrames ==
    ASSUME GraphOK(tasks), NEW f, f.key \in Keys
    PROVE  Frames(KeyReleased(f))
<1> DEFINE wants == IF f.force THEN tasks[f.key].wants ELSE {f.client}
           clients == SetToSeq(wants)
           n == Cardinality(wants)
           s == [i \in DOMAIN clients |-> ReleasesOf(clients[i], {f.key})]
<1>1. IsFiniteSet(wants)
  <2>1. IsFiniteSet(Clients \cup {FireAndForget})
    BY SchedulerAssumption, FS_AddElement
  <2>2. tasks[f.key].wants \subseteq Clients \cup {FireAndForget}
    BY DEF GraphOK, Task
  <2>3. IsFiniteSet(tasks[f.key].wants)
    BY <2>1, <2>2, FS_Subset
  <2>4. IsFiniteSet({f.client})
    BY FS_Singleton
  <2> QED
    BY <2>3, <2>4
<1> HIDE DEF wants
<1>2. n \in Nat /\ DOMAIN clients = 1..n
  BY <1>1, SetToSeqLists
<1> HIDE DEF clients, n
<1>3. s = [i \in 1..n |-> s[i]] /\ \A i \in 1..n : FrameOK(s[i])
  BY <1>2, ReleasesFrame
<1> HIDE DEF s
<1>4. Frames(s)
  BY <1>2, <1>3, FramesMap
<1> QED
  BY <1>4, Zenon DEF KeyReleased, s, clients, wants

LEMMA CancelledKeep ==
    ASSUME SchedulerInv, CancelledKey
    PROVE  SchedulerInv'
<1> DEFINE f == Head(todo)
<1>1. todo # <<>> /\ f.op = "cancelled" /\ Push(KeyReleased(f))
  BY Zenon DEF CancelledKey, KeyReleased
<1>2. GraphOK(tasks) /\ Frames(todo) /\ FrameOK(f)
  BY <1>1, TopFrame
<1>3. f.key \in Keys
  BY <1>1, <1>2 DEF FrameOK
<1>4. Frames(KeyReleased(f))
  BY <1>2, <1>3, KeyReleasedFrames
<1>5. Frames(todo')
  BY <1>1, <1>2, <1>4, PushFrames
<1>6. UNCHANGED <<tasks, registered, up, calls, again, batch, queue>>
  BY DEF CancelledKey, rpcs, remote
<1> QED
  BY <1>5, <1>6 DEF SchedulerInv, Carried

LEMMA RemoveKeep ==
    ASSUME SchedulerInv, RemoveClient
    PROVE  SchedulerInv'
<1> DEFINE c == Head(todo).client
           g == ReleasesOf(c, Wanted(tasks, c))
           h == [op |-> "delete", client |-> c]
<1>1. todo # <<>> /\ (Push(<<g, h>>) \/ Push(<<>>))
  BY DEF RemoveClient
<1>2. Wanted(tasks, c) \subseteq Keys
  BY DEF Wanted
<1>3. FrameOK(g) /\ FrameOK(h)
  BY <1>2, ReleasesFrame DEF FrameOK
<1> HIDE DEF g, h
<1>4. Frames(<<g, h>>) /\ Frames(<<>>)
  BY <1>3, FramesFew
<1>5. Frames(todo')
  BY <1>1, <1>4, TopFrame, PushFrames
<1>6. UNCHANGED <<tasks, registered, up, calls, again, batch, queue>>
  BY DEF RemoveClient, streams, rpcs, remote
<1> QED
  BY <1>5, <1>6 DEF SchedulerInv, Carried

LEMMA DeleteKeep ==
    ASSUME SchedulerInv, DeleteClient
    PROVE  SchedulerInv'
<1>1. todo # <<>> /\ Push(<<>>) /\ registered' \subseteq registered
  BY DEF DeleteClient
<1>2. Frames(todo')
  BY <1>1, TopFrame, FramesFew, PushFrames
<1>3. UNCHANGED <<tasks, up, calls, again, batch, queue>>
  BY DEF DeleteClient, streams, rpcs, remote
<1> QED
  BY <1>1, <1>2, <1>3 DEF SchedulerInv, Carried

LEMMA GraphCancelKeep ==
    ASSUME SchedulerInv, UpdateGraphCancel
    PROVE  SchedulerInv'
<1> DEFINE f == Head(todo)
<1>1. todo # <<>> /\ f.op = "graph"
  BY DEF UpdateGraphCancel
<1>2. GraphOK(tasks) /\ Frames(todo) /\ FrameOK(f)
  BY <1>1, TopFrame
<1>3. PICK k \in LostTasks(f) :
          Push(<<ReleasesOf(f.client, {k}), [f EXCEPT !.graph = @ \ {k}, !.keys = @ \ {k}]>>)
  BY DEF UpdateGraphCancel
<1> DEFINE g == ReleasesOf(f.client, {k})
           h == [f EXCEPT !.graph = @ \ {k}, !.keys = @ \ {k}]
<1>4. /\ {"op", "client", "graph", "keys"} \subseteq DOMAIN f /\ f.client \in Clients
      /\ f.graph \subseteq Keys /\ f.keys \subseteq Keys
  BY <1>1, <1>2 DEF FrameOK
<1>5. k \in Keys
  BY <1>4 DEF LostTasks
<1>6. /\ DOMAIN h = DOMAIN f /\ h.op = "graph" /\ h.client = f.client
      /\ h.graph = f.graph \ {k} /\ h.keys = f.keys \ {k}
  BY <1>1, <1>4
<1> HIDE DEF h, f
<1>7. FrameOK(h)
  BY <1>4, <1>6 DEF FrameOK
<1>8. FrameOK(g)
  BY <1>5, ReleasesFrame
<1>9. Push(<<g, h>>)
  BY <1>3, Zenon DEF h
<1> HIDE DEF g
<1>10. Frames(<<g, h>>)
  BY <1>7, <1>8, FramesFew
<1>11. Frames(todo')
  BY <1>1, <1>2, <1>9, <1>10, PushFrames
<1>12. UNCHANGED <<tasks, registered, up, calls, again, batch, queue>>
  BY DEF UpdateGraphCancel, rpcs, remote
<1> QED
  BY <1>11, <1>12 DEF SchedulerInv, Carried

(* The tasks of a graph and those that are asked for.                        *)
LEMMA TasksDesiredKeeps ==
    ASSUME GraphOK(tasks), NEW f, f.client \in Clients
    PROVE  GraphOK(TasksMade(f)) /\ GraphOK(TasksDesired(f))
<1>1. GraphOK(TasksMade(f))
  BY WithTasksKeeps DEF TasksMade
<1> QED
  BY <1>1, DesiredKeeps DEF TasksDesired

(* Edges between tasks that are known, some of them or all.                  *)
LEMMA SomeEdgesKeep ==
    ASSUME NEW t, GraphOK(t), NEW graph \in SUBSET Keys,
           NEW some \in SUBSET (NewEdges(t, graph) \ UnknownInputs(t, NewEdges(t, graph)))
    PROVE  GraphOK(WithDependencies(t, some))
<1>1. ASSUME NEW g \in some
      PROVE  /\ g \in Keys \X Keys
             /\ t[g[1]].state # "unknown" /\ t[g[2]].state # "unknown"
  BY DEF NewEdges, UnknownInputs
<1> QED
  BY <1>1, WithDependenciesKeeps

LEMMA UpdateGraphKeep ==
    ASSUME SchedulerInv, UpdateGraph
    PROVE  SchedulerInv'
<1> DEFINE f == Head(todo)
           graph == Unfinished(f)
           made == TasksDesired(f)
           edges == NewEdges(made, graph)
           t == WithDependencies(made, edges)
<1>1. /\ todo # <<>> /\ f.op = "graph" /\ UnknownInputs(made, edges) = {}
      /\ tasks' = AllProcessing(t) /\ Push(<<>>)
  BY Zenon DEF UpdateGraph
<1>2. GraphOK(tasks) /\ Frames(todo) /\ FrameOK(f)
  BY <1>1, TopFrame
<1>3. f.client \in Clients /\ graph \in SUBSET Keys
  BY <1>1, <1>2 DEF FrameOK, Unfinished
<1>4. GraphOK(made)
  BY <1>2, <1>3, TasksDesiredKeeps
<1> HIDE DEF made, graph, f
<1>5. edges \in SUBSET (NewEdges(made, graph) \ UnknownInputs(made, NewEdges(made, graph)))
  BY <1>1
<1> HIDE DEF edges
<1>6. GraphOK(t)
  BY <1>3, <1>4, <1>5, SomeEdgesKeep
<1> HIDE DEF t
<1>7. GraphOK(tasks')
  BY <1>1, <1>6, AllProcessingKeeps
<1>8. Frames(todo')
  BY <1>1, <1>2, FramesFew, PushFrames
<1>9. UNCHANGED <<registered, up, calls, again, batch, queue>>
  BY DEF UpdateGraph, rpcs
<1>10. Carried'
  BY <1>8, <1>9 DEF SchedulerInv, Carried
<1> QED
  BY <1>7, <1>10 DEF SchedulerInv

(* client_desires_keys, cut short.                                           *)
LEMMA DesiredInPartKeeps ==
    ASSUME NEW t, GraphOK(t), NEW keys, NEW client \in Clients \cup {FireAndForget},
           NEW part \in DesiredInPart(t, keys, client)
    PROVE  GraphOK(part.t)
<1> DEFINE u(some) == Desired(t, some, client)
           out(some) == DesireReports(u(some), {k \in some : ~ReportRaises(tasks, k)}, client)
<1>1. PICK some : part = [t |-> u(some), out |-> out(some)]
  BY Zenon DEF DesiredInPart
<1>2. GraphOK(u(some))
  BY DesiredKeeps
<1> HIDE DEF u, out
<1> QED
  BY <1>1, <1>2

(* update_graph, cut short.                                                  *)
LEMMA GraphInPartKeeps ==
    ASSUME GraphOK(tasks), NEW f, FrameOK(f), f.op = "graph", NEW part \in GraphInPart(f)
    PROVE  GraphOK(part.t)
<1> DEFINE graph == Unfinished(f)
           t == TasksDesired(f)
           edges == NewEdges(t, graph)
           out == DesireReports(t, f.keys, f.client)
<1>1. f.client \in Clients /\ graph \in SUBSET Keys
  BY DEF FrameOK, Unfinished
<1>2. GraphOK(TasksMade(f)) /\ GraphOK(t)
  BY <1>1, TasksDesiredKeeps
<1>3. \/ part \in {[t |-> tasks, out |-> Silence]}
      \/ part \in DesiredInPart(TasksMade(f), f.keys, f.client)
      \/ part \in {[t |-> u, out |-> out] : u \in DependenciesInPart(t, edges)}
  BY Zenon DEF GraphInPart
<1> HIDE DEF t, graph, out
<1>4. CASE part \in {[t |-> tasks, out |-> Silence]}
  BY <1>4
<1>5. CASE part \in DesiredInPart(TasksMade(f), f.keys, f.client)
  BY <1>1, <1>2, <1>5, DesiredInPartKeeps
<1>6. CASE part \in {[t |-> u, out |-> out] : u \in DependenciesInPart(t, edges)}
  <2>1. part.t \in DependenciesInPart(t, edges)
    BY <1>6
  <2>2. PICK some \in SUBSET (edges \ UnknownInputs(t, edges)) : part.t = WithDependencies(t, some)
    BY <2>1 DEF DependenciesInPart
  <2> QED
    BY <1>1, <1>2, <2>2, SomeEdgesKeep
<1> QED
  BY <1>3, <1>4, <1>5, <1>6

LEMMA UpdateGraphFailsKeep ==
    ASSUME SchedulerInv, UpdateGraphFails
    PROVE  SchedulerInv'
<1> DEFINE f == Head(todo)
<1>1. todo # <<>> /\ f.op = "graph"
  BY DEF UpdateGraphFails
<1>2. PICK part \in GraphInPart(f) : tasks' = part.t /\ Fail(owner, part.out)
  BY Zenon DEF UpdateGraphFails
<1>3. GraphOK(tasks) /\ FrameOK(f)
  BY <1>1, TopFrame
<1> HIDE DEF f
<1>4. GraphOK(tasks')
  BY <1>1, <1>2, <1>3, GraphInPartKeeps
<1>5. Frames(todo') /\ batch' \in Seq(ExecutorMessage)
  BY <1>2, FailFrames
<1>6. UNCHANGED <<registered, up, calls, again, queue>>
  BY DEF UpdateGraphFails, rpcs, remote
<1>7. Carried'
  BY <1>5, <1>6 DEF SchedulerInv, Carried
<1> QED
  BY <1>4, <1>7 DEF SchedulerInv

(* A message of an Executor.                                                 *)
LEMMA BatchHead ==
    ASSUME SchedulerInv, batch # <<>>
    PROVE  Head(batch).key \in Keys /\ Tail(batch) \in Seq(ExecutorMessage)
<1>1. Head(batch) \in ExecutorMessage /\ Tail(batch) \in Seq(ExecutorMessage)
  BY DEF SchedulerInv, Carried
<1> QED
  BY <1>1 DEF ExecutorMessage

LEMMA ResultKeep ==
    ASSUME SchedulerInv, ResultFromLambda
    PROVE  SchedulerInv'
<1> DEFINE k == Head(batch).key
           r == ProcessingMemory(tasks, k)
           free == FireAndForget \in tasks[k].wants
           s == (IF free THEN <<ReleasesOf(FireAndForget, {k})>> ELSE <<>>) \o Recommended(r.recs)
<1>1. batch # <<>> /\ batch' = Tail(batch)
  BY DEF ResultFromLambda, NextMessage
<1>2. k \in Keys /\ batch' \in Seq(ExecutorMessage) /\ GraphOK(tasks) /\ Frames(todo)
  BY <1>1, BatchHead DEF SchedulerInv, Carried
<1>3. (tasks' = r.t /\ Call(s)) \/ UNCHANGED <<tasks, down, todo>>
  BY Zenon DEF ResultFromLambda
<1>4. Yields(r)
  BY <1>2, ProcessingMemoryYields
<1> HIDE DEF k, r, free
<1>5. Frames(s)
  BY <1>2, <1>4, FreeFrames DEF Yields
<1> HIDE DEF s
<1>6. GraphOK(tasks')
  BY <1>2, <1>3, <1>4 DEF Yields
<1>7. Frames(todo')
  BY <1>2, <1>3, <1>5 DEF Call
<1>8. UNCHANGED <<registered, up, calls, again, queue>>
  BY DEF ResultFromLambda, rpcs, remote
<1>9. Carried'
  BY <1>2, <1>7, <1>8 DEF SchedulerInv, Carried
<1> QED
  BY <1>6, <1>9 DEF SchedulerInv

LEMMA StateKeep ==
    ASSUME SchedulerInv, StateFromLambda
    PROVE  SchedulerInv'
<1> DEFINE m == Head(batch)
           s == IF m.op = "task-erred" THEN "erred" ELSE "processing"
<1>1. batch # <<>> /\ batch' = Tail(batch)
  BY DEF StateFromLambda, NextMessage
<1>2. m.key \in Keys /\ batch' \in Seq(ExecutorMessage) /\ GraphOK(tasks)
  BY <1>1, BatchHead DEF SchedulerInv, Carried
<1>3. tasks' = tasks \/ tasks' = [tasks EXCEPT ![m.key].state = s]
  BY Zenon DEF StateFromLambda
<1>4. s \in States \ {"unknown"}
  BY DEF States
<1> HIDE DEF m, s
<1>5. GraphOK(tasks')
  BY <1>2, <1>3, <1>4, NewStateKeeps
<1>6. UNCHANGED <<todo, registered, up, calls, again, queue>>
  BY DEF StateFromLambda, streams, rpcs, remote
<1>7. Carried'
  BY <1>2, <1>6 DEF SchedulerInv, Carried
<1> QED
  BY <1>5, <1>7 DEF SchedulerInv

LEMMA HandlerKeeps ==
    ASSUME SchedulerInv, Handler
    PROVE  SchedulerInv'
BY TransitionsKeep, ReleaseKeep, CancelKeep, CancelledKeep, RemoveKeep, DeleteKeep,
   GraphCancelKeep, UpdateGraphKeep, UpdateGraphFailsKeep, ResultKeep, StateKeep DEF Handler
-----------------------------------------------------------------------------
(* The messages of a client's stream.                                        *)
LEMMA Taken ==
    ASSUME SchedulerInv, NEW c \in Clients, NEW op, Take(c, op)
    PROVE  /\ GraphOK(tasks) /\ up' \in [Clients -> Seq(ClientMessage)]
           /\ Head(up[c]) \in ClientMessage /\ Head(up[c]).op = op
<1>1. GraphOK(tasks) /\ up \in [Clients -> Seq(ClientMessage)]
  BY DEF SchedulerInv, Carried
<1>2. /\ up[c] # <<>> /\ Head(up[c]).op = op /\ up' = [up EXCEPT ![c] = Tail(@)]
  BY DEF Take
<1>3. up[c] \in Seq(ClientMessage)
  BY <1>1
<1>4. Head(up[c]) \in ClientMessage /\ Tail(up[c]) \in Seq(ClientMessage)
  BY <1>2, <1>3
<1> QED
  BY <1>1, <1>2, <1>4

LEMMA HandleUpdateGraphKeeps ==
    ASSUME SchedulerInv, NEW c \in Clients, HandleUpdateGraph(c)
    PROVE  SchedulerInv'
<1> DEFINE m == Head(up[c])
           f == [op |-> "graph", client |-> c, graph |-> m.graph, keys |-> m.keys]
<1>1. Take(c, "update-graph") /\ todo' = <<f>>
  BY DEF HandleUpdateGraph, Call
<1>2. /\ GraphOK(tasks) /\ up' \in [Clients -> Seq(ClientMessage)]
      /\ m \in ClientMessage /\ m.op = "update-graph"
  BY <1>1, Taken
<1>3. m.graph \subseteq Keys /\ m.keys \subseteq Keys
  BY <1>2 DEF ClientMessage
<1> HIDE DEF m
<1>4. FrameOK(f)
  BY <1>3 DEF FrameOK
<1> HIDE DEF f
<1>5. Frames(todo')
  BY <1>1, <1>4, FramesFew
<1>6. UNCHANGED <<tasks, registered, batch, calls, again, queue>>
  BY DEF HandleUpdateGraph, rpcs, remote
<1> QED
  BY <1>2, <1>5, <1>6 DEF SchedulerInv, Carried

LEMMA ClientDesiresKeep ==
    ASSUME SchedulerInv, NEW c \in Clients, ClientDesiresKeys(c)
    PROVE  SchedulerInv'
<1> DEFINE m == Head(up[c])
<1>1. /\ Take(c, "client-desires-keys") /\ tasks' = Desired(tasks, m.keys, m.client)
      /\ registered' = registered \cup ({m.client} \cap Clients)
  BY DEF ClientDesiresKeys
<1>2. /\ GraphOK(tasks) /\ up' \in [Clients -> Seq(ClientMessage)]
      /\ m \in ClientMessage /\ m.op = "client-desires-keys"
  BY <1>1, Taken
<1>3. m.client \in Clients \cup {FireAndForget}
  BY <1>2 DEF ClientMessage
<1> HIDE DEF m
<1>4. GraphOK(tasks')
  BY <1>1, <1>2, <1>3, DesiredKeeps
<1>5. registered' \subseteq Clients
  BY <1>1 DEF SchedulerInv, Carried
<1>6. UNCHANGED <<todo, batch, calls, again, queue>>
  BY DEF ClientDesiresKeys, rpcs, remote
<1>7. Carried'
  BY <1>2, <1>5, <1>6 DEF SchedulerInv, Carried
<1> QED
  BY <1>4, <1>7 DEF SchedulerInv

LEMMA ClientReleasesKeep ==
    ASSUME SchedulerInv, NEW c \in Clients, ClientReleasesKeys(c)
    PROVE  SchedulerInv'
<1> DEFINE m == Head(up[c])
<1>1. Take(c, "client-releases-keys") /\ todo' = <<ReleasesOf(c, m.keys)>>
  BY DEF ClientReleasesKeys, Call
<1>2. /\ up' \in [Clients -> Seq(ClientMessage)]
      /\ m \in ClientMessage /\ m.op = "client-releases-keys"
  BY <1>1, Taken
<1>3. m.keys \subseteq Keys
  BY <1>2 DEF ClientMessage
<1> HIDE DEF m
<1>4. Frames(todo')
  BY <1>1, <1>3, ReleasesFrame, FramesFew
<1>5. UNCHANGED <<tasks, registered, batch, calls, again, queue>>
  BY DEF ClientReleasesKeys, rpcs, remote
<1> QED
  BY <1>2, <1>4, <1>5 DEF SchedulerInv, Carried

LEMMA ReportFailsKeep ==
    ASSUME SchedulerInv, NEW c \in Clients, ReportFails(c)
    PROVE  SchedulerInv'
<1> DEFINE m == Head(up[c])
<1>1. PICK op \in {"client-desires-keys", "report-key"} : Take(c, op)
  BY DEF ReportFails
<1>2. /\ GraphOK(tasks) /\ up' \in [Clients -> Seq(ClientMessage)]
      /\ m \in ClientMessage /\ m.op = op
  BY <1>1, Taken
<1>3. PICK part \in IF m.op = "report-key" THEN {[t |-> tasks, out |-> Silence]}
                    ELSE DesiredInPart(tasks, m.keys, m.client) :
          tasks' = part.t /\ Fail(c, part.out)
  BY Zenon DEF ReportFails
<1>4. GraphOK(part.t)
  <2>1. CASE m.op = "report-key"
    BY <1>2, <1>3, <2>1
  <2>2. CASE m.op = "client-desires-keys"
    <3>1. m.client \in Clients \cup {FireAndForget}
      BY <1>2, <2>2 DEF ClientMessage
    <3>2. part \in DesiredInPart(tasks, m.keys, m.client)
      BY <1>3, <2>2
    <3> HIDE DEF m
    <3> QED
      BY <1>2, <3>1, <3>2, DesiredInPartKeeps
  <2> QED
    BY <1>2, <2>1, <2>2
<1>5. Frames(todo') /\ batch' \in Seq(ExecutorMessage)
  BY <1>3, FailFrames
<1>6. UNCHANGED <<registered, calls, again, queue>>
  BY DEF ReportFails, rpcs, remote
<1>7. Carried'
  BY <1>2, <1>5, <1>6 DEF SchedulerInv, Carried
<1> QED
  BY <1>3, <1>4, <1>7 DEF SchedulerInv

LEMMA RestartKeeps ==
    ASSUME SchedulerInv, NEW c \in Clients, Restart(c)
    PROVE  SchedulerInv'
<1> DEFINE all == registered \cup {FireAndForget}
           cs == SetToSeq(all)
           n == Cardinality(all)
           s == [i \in DOMAIN cs |-> ReleasesOf(cs[i], Wanted(tasks, cs[i]))]
<1>1. Take(c, "restart") /\ todo' = s
  BY Zenon DEF Restart, Call
<1>2. up' \in [Clients -> Seq(ClientMessage)]
  BY <1>1, Taken
<1>3. IsFiniteSet(all)
  <2>1. IsFiniteSet(registered)
    BY FS_Subset, SchedulerAssumption DEF SchedulerInv, Carried
  <2> QED
    BY <2>1, FS_AddElement
<1> HIDE DEF all
<1>4. n \in Nat /\ DOMAIN cs = 1..n
  BY <1>3, SetToSeqLists
<1> HIDE DEF cs, n
<1>5. \A e : Wanted(tasks, e) \subseteq Keys
  BY DEF Wanted
<1>6. s = [i \in 1..n |-> s[i]] /\ \A i \in 1..n : FrameOK(s[i])
  BY <1>4, <1>5, ReleasesFrame
<1> HIDE DEF s
<1>7. Frames(todo')
  BY <1>1, <1>4, <1>6, FramesMap
<1>8. UNCHANGED <<tasks, registered, batch, calls, again, queue>>
  BY DEF Restart, rpcs, remote
<1> QED
  BY <1>2, <1>7, <1>8 DEF SchedulerInv, Carried

LEMMA StreamKeeps ==
    ASSUME SchedulerInv, NEW c \in Clients, Stream(c)
    PROVE  SchedulerInv'
<1>1. CASE HandleReportKey(c)
  <2>1. up' \in [Clients -> Seq(ClientMessage)]
    BY <1>1, Taken DEF HandleReportKey
  <2>2. UNCHANGED <<tasks, todo, registered, batch, calls, again, queue>>
    BY <1>1 DEF HandleReportKey, rpcs, remote
  <2> QED
    BY <2>1, <2>2 DEF SchedulerInv, Carried
<1>2. CASE CloseClient(c)
  <2> DEFINE f == [op |-> "remove", client |-> c]
  <2>1. Take(c, "close-client") /\ todo' = <<f>>
    BY <1>2 DEF CloseClient, Call
  <2>2. up' \in [Clients -> Seq(ClientMessage)]
    BY <2>1, Taken
  <2>3. FrameOK(f)
    BY DEF FrameOK
  <2> HIDE DEF f
  <2>4. Frames(todo')
    BY <2>1, <2>3, FramesFew
  <2>5. UNCHANGED <<tasks, registered, batch, calls, again, queue>>
    BY <1>2 DEF CloseClient, rpcs, remote
  <2> QED
    BY <2>2, <2>4, <2>5 DEF SchedulerInv, Carried
<1>3. CASE AddClient(c)
  <2>1. /\ up[c] # <<>> /\ up' = [up EXCEPT ![c] = Tail(@)] /\ registered' \subseteq Clients
        /\ up \in [Clients -> Seq(ClientMessage)]
    BY <1>3 DEF AddClient, SchedulerInv, Carried
  <2>2. Tail(up[c]) \in Seq(ClientMessage)
    <3>1. up[c] \in Seq(ClientMessage)
      BY <2>1
    <3> QED
      BY <2>1, <3>1
  <2>3. up' \in [Clients -> Seq(ClientMessage)]
    BY <2>1, <2>2
  <2>4. UNCHANGED <<tasks, todo, batch, calls, again, queue>>
    BY <1>3 DEF AddClient, rpcs, remote
  <2> QED
    BY <2>1, <2>3, <2>4 DEF SchedulerInv, Carried
<1> QED
  BY <1>1, <1>2, <1>3, HandleUpdateGraphKeeps, ClientDesiresKeep, ClientReleasesKeep,
     ReportFailsKeep, RestartKeeps DEF Stream
-----------------------------------------------------------------------------
(* RPCs, calls put off and the messages of Executors.                        *)
LEMMA StimulusCancelKeeps ==
    ASSUME SchedulerInv, NEW m \in calls, StimulusCancel(m)
    PROVE  SchedulerInv'
<1> DEFINE ks == SetToSeq(m.keys)
           n == Cardinality(m.keys)
           s == [i \in DOMAIN ks |-> CancelOf(ks[i], m.client, m.force, CancelTries)]
<1>1. todo' = s /\ calls' \subseteq calls
  BY Zenon DEF StimulusCancel, Call
<1>2. m.keys \subseteq Keys
  BY DEF SchedulerInv, Carried
<1>3. IsFiniteSet(m.keys)
  BY <1>2, FS_Subset, SchedulerAssumption
<1>4. n \in Nat /\ DOMAIN ks = 1..n /\ \A i \in 1..n : ks[i] \in Keys
  BY <1>2, <1>3, SetToSeqLists
<1> HIDE DEF ks, n
<1>5. s = [i \in 1..n |-> s[i]] /\ \A i \in 1..n : FrameOK(s[i])
  BY <1>4, CancelFrame
<1> HIDE DEF s
<1>6. Frames(todo')
  BY <1>1, <1>4, <1>5, FramesMap
<1>7. UNCHANGED <<tasks, registered, batch, up, again, queue>>
  BY DEF StimulusCancel, streams, remote
<1> QED
  BY <1>1, <1>6, <1>7 DEF SchedulerInv, Carried

LEMMA StimulusRetryKeeps ==
    ASSUME SchedulerInv, NEW m \in calls, StimulusRetry(m)
    PROVE  SchedulerInv'
<1> DEFINE seen == ErredAbove(tasks, m.keys)
           roots == {k \in seen : \A d \in tasks[k].deps : tasks[d].state # "erred"}
           recs == Recs(roots, "waiting")
<1>1. (UNCHANGED todo \/ todo' = Recommended(recs)) /\ calls' \subseteq calls
  BY Zenon DEF StimulusRetry, Call
<1>2. roots \subseteq Keys
  BY DEF ErredAbove
<1>3. DOMAIN recs \subseteq Keys
  BY <1>2, RecsDomain
<1> HIDE DEF recs
<1>4. Frames(todo')
  BY <1>1, <1>3, RecommendedFrames DEF SchedulerInv, Carried
<1>5. UNCHANGED <<tasks, registered, batch, up, again, queue>>
  BY DEF StimulusRetry, streams, remote
<1> QED
  BY <1>1, <1>4, <1>5 DEF SchedulerInv, Carried

LEMMA StimulusTaskErredKeeps ==
    ASSUME SchedulerInv, NEW m \in calls, StimulusTaskErred(m)
    PROVE  SchedulerInv'
<1>1. PICK k \in m.keys, retries \in BOOLEAN :
          LET r == Transition(tasks, k, IF retries THEN "waiting" ELSE "erred", stored)
              free == ~retries /\ FireAndForget \in tasks[k].wants
          IN  IF tasks[k].state = "processing"
              THEN /\ tasks' = r.t
                   /\ Send(r.out)
                   /\ Call((IF free THEN <<ReleasesOf(FireAndForget, {k})>> ELSE <<>>)
                           \o Recommended(r.recs))
              ELSE UNCHANGED <<tasks, down, todo>>
  BY Zenon DEF StimulusTaskErred
<1> DEFINE finish == IF retries THEN "waiting" ELSE "erred"
           r == Transition(tasks, k, finish, stored)
           free == ~retries /\ FireAndForget \in tasks[k].wants
           s == (IF free THEN <<ReleasesOf(FireAndForget, {k})>> ELSE <<>>) \o Recommended(r.recs)
<1>2. k \in Keys /\ GraphOK(tasks) /\ Frames(todo)
  BY DEF SchedulerInv, Carried
<1>3. Yields(r)
  BY <1>2, TransitionYields
<1> HIDE DEF r, free
<1>4. Frames(s)
  BY <1>2, <1>3, FreeFrames DEF Yields
<1> HIDE DEF s
<1>5. (tasks' = r.t /\ Call(s)) \/ UNCHANGED <<tasks, down, todo>>
  BY <1>1, Zenon DEF r, free, s
<1>6. GraphOK(tasks')
  BY <1>2, <1>3, <1>5 DEF Yields
<1>7. Frames(todo')
  BY <1>2, <1>4, <1>5 DEF Call
<1>8. calls' \subseteq calls /\ UNCHANGED <<registered, batch, up, again, queue>>
  BY DEF StimulusTaskErred, remote
<1>9. Carried'
  BY <1>7, <1>8 DEF SchedulerInv, Carried
<1> QED
  BY <1>6, <1>9 DEF SchedulerInv

LEMMA OtherSchedulerStepsKeep ==
    ASSUME SchedulerInv,
           ConsumeRedisQueue \/ Restarted \/ \E f \in again : CancelAgain(f)
    PROVE  SchedulerInv'
<1>1. CASE ConsumeRedisQueue
  <2>1. PICK n \in 1..Len(queue) :
            batch' = SubSeq(queue, 1, n) /\ queue' = SubSeq(queue, n + 1, Len(queue))
    BY <1>1 DEF ConsumeRedisQueue
  <2>2. queue \in Seq(ExecutorMessage)
    BY DEF SchedulerInv, Carried
  <2>3. batch' \in Seq(ExecutorMessage) /\ queue' \in Seq(ExecutorMessage)
    BY <2>1, <2>2
  <2>4. UNCHANGED <<tasks, registered, todo, up, calls, again>>
    BY <1>1 DEF ConsumeRedisQueue, streams, rpcs
  <2> QED
    BY <2>3, <2>4 DEF SchedulerInv, Carried
<1>2. CASE Restarted
  <2>1. UNCHANGED <<tasks, registered, todo, batch, up, calls, again, queue>>
    BY <1>2 DEF Restarted, rpcs, remote
  <2> QED
    BY <2>1 DEF SchedulerInv, Carried
<1>3. ASSUME NEW f \in again, CancelAgain(f)
      PROVE  SchedulerInv'
  <2>1. todo' = <<f>> /\ again' \subseteq again /\ FrameOK(f)
    BY <1>3 DEF CancelAgain, Call, SchedulerInv, Carried
  <2>2. Frames(todo')
    BY <2>1, FramesFew
  <2>3. UNCHANGED <<tasks, registered, batch, up, calls, queue>>
    BY <1>3 DEF CancelAgain, streams, remote
  <2> QED
    BY <2>1, <2>2, <2>3 DEF SchedulerInv, Carried
<1> QED
  BY <1>1, <1>2, <1>3

LEMMA ExecutorKeeps ==
    ASSUME SchedulerInv, Executor
    PROVE  SchedulerInv'
<1>1. PICK i \in DOMAIN jobs, k \in Keys :
          \/ ExecutorBegins(i, k) \/ ExecutorFails(i, k) \/ ExecutorCalls(i, k)
          \/ \E kept \in BOOLEAN : ExecutorEnds(i, k, kept)
  BY DEF Executor
<1>2. UNCHANGED <<tasks, registered, todo, batch, up, again>>
  BY <1>1 DEF ExecutorBegins, ExecutorFails, ExecutorCalls, ExecutorEnds, streams, rpcs
<1>3. queue \in Seq(ExecutorMessage)
  BY DEF SchedulerInv, Carried
<1>4. \A op \in {"executing-task", "executed-task", "lambda-result", "task-erred"} :
          queue \o <<Message(op, k)>> \in Seq(ExecutorMessage)
  <2>1. ASSUME NEW op \in {"executing-task", "executed-task", "lambda-result", "task-erred"}
        PROVE  queue \o <<Message(op, k)>> \in Seq(ExecutorMessage)
    <3> DEFINE e == Message(op, k)
    <3>1. e \in ExecutorMessage
      BY DEF Message, ExecutorMessage
    <3> HIDE DEF e
    <3>2. queue \o <<e>> \in Seq(ExecutorMessage)
      BY <1>3, <3>1
    <3> QED
      BY <3>2 DEF e
  <2> QED
    BY <2>1
<1>5. queue \o <<>> \in Seq(ExecutorMessage)
  BY <1>3
<1>6. /\ queue' \in Seq(ExecutorMessage)
      /\ \A m \in calls' : m.keys \subseteq Keys
  <2>1. CASE ExecutorBegins(i, k) \/ ExecutorFails(i, k)
    <3>1. calls' = calls /\ \/ queue' = queue \o <<Message("executing-task", k)>>
                            \/ queue' = queue \o <<Message("task-erred", k)>>
      BY <2>1 DEF ExecutorBegins, ExecutorFails, Publish, rpcs
    <3> QED
      BY <1>4, <3>1 DEF SchedulerInv, Carried
  <2>2. ASSUME NEW kept \in BOOLEAN, ExecutorEnds(i, k, kept)
        PROVE  <1>6!1 /\ <1>6!2
    <3>1. calls' = calls /\ \/ queue' = queue \o <<Message("lambda-result", k)>>
                            \/ queue' = queue \o <<Message("executed-task", k)>>
                            \/ queue' = queue \o <<>>
      BY <2>2 DEF ExecutorEnds, Publish, rpcs
    <3> QED
      BY <1>4, <1>5, <3>1 DEF SchedulerInv, Carried
  <2>3. CASE ExecutorCalls(i, k)
    <3> DEFINE m == [op |-> "task-erred-lambda", client |-> "none", keys |-> {k}, force |-> FALSE]
    <3>1. queue' = queue /\ calls' = calls \cup {m} /\ m.keys \subseteq Keys
      BY <2>3 DEF ExecutorCalls
    <3> HIDE DEF m
    <3> QED
      BY <1>3, <3>1 DEF SchedulerInv, Carried
  <2> QED
    BY <1>1, <2>1, <2>2, <2>3
<1> QED
  BY <1>2, <1>6 DEF SchedulerInv, Carried

LEMMA SchedulerNextKeeps ==
    ASSUME SchedulerInv, SchedulerNext
    PROVE  SchedulerInv'
<1>1. Rpc => SchedulerInv'
  BY StimulusCancelKeeps, StimulusRetryKeeps, StimulusTaskErredKeeps DEF Rpc
<1> QED
  BY <1>1, HandlerKeeps, StreamKeeps, OtherSchedulerStepsKeep, ExecutorKeeps DEF SchedulerNext
-----------------------------------------------------------------------------
(* The clients: they only send.                                              *)
LEMMA SendUpKeeps ==
    ASSUME SchedulerInv, NEW c \in Clients, NEW m \in ClientMessage, SendUp(c, m)
    PROVE  up' \in [Clients -> Seq(ClientMessage)]
<1>1. up \in [Clients -> Seq(ClientMessage)] /\ up' = [up EXCEPT ![c] = Append(@, m)]
  BY DEF SchedulerInv, Carried, SendUp
<1>2. up[c] \in Seq(ClientMessage)
  BY <1>1
<1>3. Append(up[c], m) \in Seq(ClientMessage)
  BY <1>2
<1> QED
  BY <1>1, <1>3

(* A step that leaves the Scheduler alone but for its messages.              *)
LEMMA ClientOnlyKeeps ==
    ASSUME SchedulerInv, UNCHANGED schedulerOnly,
           up' \in [Clients -> Seq(ClientMessage)], \A m \in calls' : m.keys \subseteq Keys
    PROVE  SchedulerInv'
<1>1. UNCHANGED <<tasks, registered, todo, batch, again, queue>>
  BY DEF schedulerOnly, remote
<1> QED
  BY <1>1 DEF SchedulerInv, Carried

LEMMA GraphToFuturesKeeps ==
    ASSUME SchedulerInv, NEW c \in Clients, NEW graph \in SUBSET Keys, NEW keys \in SUBSET Keys,
           GraphToFutures(c, graph, keys)
    PROVE  SchedulerInv'
<1> DEFINE m == [op |-> "update-graph", graph |-> graph, keys |-> keys]
<1>1. SendUp(c, m) /\ UNCHANGED schedulerOnly /\ calls' = calls
  BY DEF GraphToFutures
<1>2. m \in ClientMessage
  BY DEF ClientMessage
<1> HIDE DEF m
<1>3. up' \in [Clients -> Seq(ClientMessage)]
  BY <1>1, <1>2, SendUpKeeps
<1>4. \A e \in calls' : e.keys \subseteq Keys
  BY <1>1 DEF SchedulerInv, Carried
<1> QED
  BY <1>1, <1>3, <1>4, ClientOnlyKeeps

(* The other messages of a client.                                           *)
LEMMA ClientSends ==
    ASSUME SchedulerInv, NEW c \in Clients, NEW m, SendUp(c, m),
           m \in [op : {"client-desires-keys"}, keys : SUBSET Keys,
                  client : Clients \cup {FireAndForget}]
           \/ m \in [op : {"client-releases-keys"}, keys : SUBSET Keys]
           \/ m \in [op : {"report-key"}, keys : (SUBSET Keys) \ {{}}]
           \/ m \in [op : {"restart", "close-client", "register-client"}],
           UNCHANGED schedulerOnly, calls' = calls
    PROVE  SchedulerInv'
<1>1. m \in ClientMessage
  BY DEF ClientMessage
<1>2. up' \in [Clients -> Seq(ClientMessage)]
  BY <1>1, SendUpKeeps
<1>3. \A e \in calls' : e.keys \subseteq Keys
  BY DEF SchedulerInv, Carried
<1> QED
  BY <1>2, <1>3, ClientOnlyKeeps

(* A step that sends nothing.                                                *)
LEMMA SilentKeeps ==
    ASSUME SchedulerInv, UNCHANGED schedulerOnly, up' = up, calls' = calls
    PROVE  SchedulerInv'
<1>1. up' \in [Clients -> Seq(ClientMessage)] /\ \A e \in calls' : e.keys \subseteq Keys
  BY DEF SchedulerInv, Carried
<1> QED
  BY <1>1, ClientOnlyKeeps

LEMMA CallSchedulerKeeps ==
    ASSUME SchedulerInv, NEW c, NEW k \in Keys, NEW m, m.keys = {k}, CallScheduler(c, k, m)
    PROVE  SchedulerInv'
<1>1. calls' = calls \cup {m} /\ up' = up /\ UNCHANGED schedulerOnly
  BY DEF CallScheduler
<1>2. up' \in [Clients -> Seq(ClientMessage)] /\ \A e \in calls' : e.keys \subseteq Keys
  BY <1>1 DEF SchedulerInv, Carried
<1> QED
  BY <1>1, <1>2, ClientOnlyKeeps

LEMMA OperationsKeep ==
    ASSUME SchedulerInv, NEW c \in Clients, NEW k \in Keys,
           \/ SubmitTask(c, k)
           \/ FutureByKey(c, k) \/ FireAndForgetKey(c, k) \/ Release(c, k)
           \/ \E force \in BOOLEAN : Cancel(c, k, force)
           \/ Retry(c, k) \/ GatherAgain(c, k)
    PROVE  SchedulerInv'
<1>1. CASE SubmitTask(c, k)
  <2>1. CASE GraphToFutures(c, {k}, {k})
    BY <2>1, GraphToFuturesKeeps
  <2>2. CASE UNCHANGED <<link, schedulerOnly, up, down, calls>>
    BY <2>2, SilentKeeps
  <2> QED
    BY <1>1, <2>1, <2>2 DEF SubmitTask
<1>2. CASE FutureByKey(c, k)
  <2> DEFINE m == [op |-> "client-desires-keys", keys |-> {k}, client |-> c]
  <2>1. SendUp(c, m) /\ UNCHANGED schedulerOnly /\ calls' = calls
    BY <1>2 DEF FutureByKey
  <2>2. m \in [op : {"client-desires-keys"}, keys : SUBSET Keys, client : Clients \cup {FireAndForget}]
    OBVIOUS
  <2> HIDE DEF m
  <2> QED
    BY <2>1, <2>2, ClientSends
<1>3. CASE FireAndForgetKey(c, k)
  <2> DEFINE m == [op |-> "client-desires-keys", keys |-> {k}, client |-> FireAndForget]
  <2>1. SendUp(c, m) /\ UNCHANGED schedulerOnly /\ calls' = calls
    BY <1>3 DEF FireAndForgetKey
  <2>2. m \in [op : {"client-desires-keys"}, keys : SUBSET Keys, client : Clients \cup {FireAndForget}]
    OBVIOUS
  <2> HIDE DEF m
  <2> QED
    BY <2>1, <2>2, ClientSends
<1>4. CASE Release(c, k)
  <2> DEFINE m == [op |-> "client-releases-keys", keys |-> {k}]
  <2>1. (SendUp(c, m) \/ up' = up) /\ UNCHANGED schedulerOnly /\ calls' = calls
    BY <1>4 DEF Release
  <2>2. m \in [op : {"client-releases-keys"}, keys : SUBSET Keys]
    OBVIOUS
  <2> HIDE DEF m
  <2> QED
    BY <2>1, <2>2, ClientSends, SilentKeeps
<1>5. ASSUME NEW force \in BOOLEAN, Cancel(c, k, force)
      PROVE  SchedulerInv'
  BY <1>5, CallSchedulerKeeps DEF Cancel
<1>6. CASE Retry(c, k)
  BY <1>6, CallSchedulerKeeps DEF Retry
<1>7. CASE GatherAgain(c, k)
  <2> DEFINE m == [op |-> "report-key", keys |-> {k}]
  <2>1. SendUp(c, m) /\ UNCHANGED schedulerOnly /\ calls' = calls
    BY <1>7 DEF GatherAgain
  <2>2. m \in [op : {"report-key"}, keys : (SUBSET Keys) \ {{}}]
    OBVIOUS
  <2> HIDE DEF m
  <2> QED
    BY <2>1, <2>2, ClientSends
<1> QED
  BY <1>1, <1>2, <1>3, <1>4, <1>5, <1>6, <1>7

LEMMA UserKeeps ==
    ASSUME SchedulerInv, NEW c \in Clients, User(c)
    PROVE  SchedulerInv'
<1>1. ASSUME NEW graph \in Graphs, NEW keys \in SUBSET graph, Compute(c, graph, keys)
      PROVE  SchedulerInv'
  <2>1. graph \in SUBSET Keys /\ keys \in SUBSET Keys
    BY GraphsAssumption
  <2> QED
    BY <1>1, <2>1, GraphToFuturesKeeps DEF Compute
<1>2. ASSUME NEW graph \in Graphs, MapTasks(c, graph)
      PROVE  SchedulerInv'
  <2>1. graph \in SUBSET Keys
    BY GraphsAssumption
  <2> QED
    BY <1>2, <2>1, GraphToFuturesKeeps DEF MapTasks
<1>3. ASSUME NEW graph \in Graphs, NormalizeCollection(c, graph)
      PROVE  SchedulerInv'
  BY <1>3, SilentKeeps DEF NormalizeCollection
<1>4. CASE AskRestart(c) \/ Close(c)
  <2> DEFINE r == [op |-> "restart"]
             e == [op |-> "close-client"]
  <2>1. (SendUp(c, r) \/ SendUp(c, e)) /\ UNCHANGED schedulerOnly /\ calls' = calls
    BY <1>4 DEF AskRestart, Close
  <2>2. /\ r \in [op : {"restart", "close-client", "register-client"}]
        /\ e \in [op : {"restart", "close-client", "register-client"}]
    OBVIOUS
  <2> HIDE DEF r, e
  <2> QED
    BY <2>1, <2>2, ClientSends
<1> QED
  BY <1>1, <1>2, <1>3, <1>4, OperationsKeep DEF User

LEMMA ListenKeeps ==
    ASSUME SchedulerInv, NEW c \in Clients, Listen(c)
    PROVE  SchedulerInv'
<1>1. CASE HandleReport(c) \/ HandleRestart(c)
  BY <1>1, SilentKeeps DEF HandleReport, HandleRestart
<1>2. CASE Reconnect(c)
  <2> DEFINE m == [op |-> "register-client"]
  <2>1. /\ up' = [up EXCEPT ![c] = <<m>>] /\ UNCHANGED schedulerOnly /\ calls' = calls
        /\ up \in [Clients -> Seq(ClientMessage)]
    BY <1>2 DEF Reconnect, SchedulerInv, Carried
  <2>2. m \in ClientMessage
    BY DEF ClientMessage
  <2> HIDE DEF m
  <2>3. <<m>> \in Seq(ClientMessage)
    BY <2>2
  <2>4. up' \in [Clients -> Seq(ClientMessage)]
    BY <2>1, <2>3
  <2>5. \A e \in calls' : e.keys \subseteq Keys
    BY <2>1 DEF SchedulerInv, Carried
  <2> QED
    BY <2>1, <2>4, <2>5, ClientOnlyKeeps
<1> QED
  BY <1>1, <1>2 DEF Listen

(* Every step of the system keeps the graph consistent.                      *)
LEMMA NextKeeps ==
    ASSUME SchedulerInv, [Next]_allVars
    PROVE  SchedulerInv'
<1>1. CASE UNCHANGED allVars
  <2>1. UNCHANGED <<tasks, registered, todo, batch, up, calls, again, queue>>
    BY <1>1 DEF allVars, vars, streams, rpcs, remote
  <2> QED
    BY <2>1 DEF SchedulerInv, Carried
<1>2. ASSUME NEW m \in replies, Answered(m)
      PROVE  SchedulerInv'
  <2>1. UNCHANGED <<tasks, registered, todo, batch, up, calls, again, queue>>
    BY <1>2 DEF Answered, streams, remote
  <2> QED
    BY <2>1 DEF SchedulerInv, Carried
<1>3. CASE Flush
  <2>1. UNCHANGED <<tasks, registered, todo, batch, up, calls, again, queue>>
    BY <1>3 DEF Flush, streams, rpcs
  <2> QED
    BY <2>1 DEF SchedulerInv, Carried
<1> QED
  BY <1>1, <1>2, <1>3, SchedulerNextKeeps, UserKeeps, ListenKeeps DEF Next

LEMMA InitOK == SystemInit => SchedulerInv
<1> SUFFICES ASSUME SystemInit PROVE SchedulerInv
  OBVIOUS
<1>1. /\ tasks = [k \in Keys |-> NoTask] /\ registered = Clients
      /\ todo = <<>> /\ batch = <<>> /\ queue = <<>> /\ again = {} /\ calls = {}
      /\ up = [c \in Clients |-> <<>>]
  BY DEF SystemInit, Init
<1>2. NoTask \in Task /\ Within(NoTask) /\ NoTask.deps = {} /\ NoTask.dependents = {}
  BY DEF NoTask, Task, States, Within
<1>3. GraphOK(tasks)
  BY <1>1, <1>2 DEF GraphOK, Linked
<1>4. <<>> \in Seq(ClientMessage) /\ <<>> \in Seq(ExecutorMessage)
  OBVIOUS
<1>5. Frames(todo)
  BY <1>1, FramesFew
<1>6. Carried
  BY <1>1, <1>4, <1>5 DEF Carried
<1> QED
  BY <1>3, <1>6 DEF SchedulerInv
-----------------------------------------------------------------------------
(* What the handlers carry names tasks of the graph, and the graph is        *)
(* consistent, always.                                                       *)
THEOREM SchedulerInvHolds == Spec => []SchedulerInv
<1>1. SchedulerInv /\ [Next]_allVars => SchedulerInv'
  BY NextKeeps
<1> QED
  BY <1>1, InitOK, PTL DEF Spec

(* The assertions of validate_task_state about edges: a dependency and its   *)
(* dependent always know each other, and only tasks that are known wait for  *)
(* each other, whatever clients and Executors do, so that the sets of        *)
(* _propagate_forgotten_lambda have what it removes from them.               *)
THEOREM EdgesMatchHolds == Spec => []EdgesMatch
<1>1. SchedulerInv => EdgesMatch
  <2> SUFFICES ASSUME SchedulerInv, NEW k \in Keys
               PROVE  ValidateSubsets(tasks[k]) /\ ValidateDependencies(k) /\ ValidateDependents(k)
    BY DEF EdgesMatch
  <2>1. GraphOK(tasks)
    BY DEF SchedulerInv
  <2>2. /\ tasks[k].deps \subseteq Keys /\ tasks[k].dependents \subseteq Keys
        /\ tasks[k].waitingOn \subseteq tasks[k].deps
        /\ tasks[k].waiters \subseteq tasks[k].dependents
    BY <2>1, TaskFields
  <2>3. ValidateDependencies(k) /\ ValidateDependents(k)
    BY <2>1, <2>2 DEF GraphOK, Linked, ValidateDependencies, ValidateDependents
  <2> QED
    BY <2>2, <2>3 DEF ValidateSubsets
<1> QED
  BY <1>1, SchedulerInvHolds, PTL
-----------------------------------------------------------------------------
(* A client that is told that a task is finished can read its output, for    *)
(* all graphs, clients and sequences of operations: what the Scheduler holds *)
(* for true of the outputs, and what every message on its way says.          *)

(* The keys whose output was stored; a user may have wiped them since.       *)
Written == stored \cup wiped

(* What is true of outputs W: the tasks in memory have one, so have those    *)
(* that are recommended to go there, and the keys that messages to clients   *)
(* and of Executors say are done.                                            *)
TasksDone(t, W) == \A k \in Keys : t[k].state = "memory" => k \in W
RecsDone(recs, W) == \A k \in DOMAIN recs : recs[k] = "memory" => k \in W
FrameDone(f, W) == f.op = "transitions" => RecsDone(f.recs, W)
FramesDone(s, W) == \A i \in DOMAIN s : FrameDone(s[i], W)

ReportOps == {"key-in-memory", "lost-data", "cancelled-key", "task-erred", "task-retried"}
Reported(W) ==
    {m \in [op : ReportOps, key : Keys] : m.op = "key-in-memory" => m.key \in W}
    \cup [op : {"restart", "closed"}, key : {"none"}]
Published(W) ==
    {m \in ExecutorMessage : m.op \in {"lambda-result", "executed-task"} => m.key \in W}

(* The inductive invariant, besides SchedulerInv.                            *)
ToldTrue ==
    /\ TasksDone(tasks, Written) /\ FramesDone(todo, Written)
    /\ \A f \in again : f.op = "cancel"
    /\ down \in [Clients -> Seq(Reported(Written))]
    /\ batch \in Seq(Published(Written)) /\ queue \in Seq(Published(Written))
    /\ futures \in [Clients -> [Keys -> Statuses]] /\ FinishedIsStored
-----------------------------------------------------------------------------
(* What is shown of every transition, given that a task that goes to memory  *)
(* has an output.                                                            *)
Reports(W) == [Clients -> Seq(Reported(W))]
Tells(r, W) ==
    /\ {"t", "recs", "out"} \subseteq DOMAIN r
    /\ TasksDone(r.t, W) /\ RecsDone(r.recs, W) /\ r.out \in Reports(W)

LEMMA TellReports ==
    ASSUME NEW W, NEW clients, NEW op \in ReportOps, NEW k \in Keys,
           op = "key-in-memory" => k \in W
    PROVE  Tell(clients, op, k) \in Reports(W)
<1> DEFINE m == Message(op, k)
<1>1. m \in Reported(W)
  BY DEF Message, Reported
<1> HIDE DEF m
<1>2. <<m>> \in Seq(Reported(W)) /\ <<>> \in Seq(Reported(W))
  BY <1>1
<1>3. Tell(clients, op, k) = [c \in Clients |-> IF c \in clients THEN <<m>> ELSE <<>>]
  BY DEF Tell, m
<1> QED
  BY <1>2, <1>3 DEF Reports
LEMMA SilenceReports ==
    ASSUME NEW W
    PROVE  Silence \in Reports(W)
BY DEF Silence, Reports
LEMMA ThenReports ==
    ASSUME NEW W, NEW first \in Reports(W), NEW second \in Reports(W)
    PROVE  Then(first, second) \in Reports(W)
<1> DEFINE R == Reported(W)
<1>1. first \in [Clients -> Seq(R)] /\ second \in [Clients -> Seq(R)]
  BY DEF Reports
<1> HIDE DEF R
<1>2. Then(first, second) \in [Clients -> Seq(R)]
  BY <1>1 DEF Then
<1> QED
  BY <1>2 DEF Reports, R

LEMMA RecsTell ==
    ASSUME NEW W
    PROVE  /\ \A S, finish : finish # "memory" => RecsDone(Recs(S, finish), W)
           /\ RecsDone(<<>>, W)
BY DEF RecsDone, Recs
LEMMA UpdateTells ==
    ASSUME NEW W, NEW old, NEW new, RecsDone(old, W), RecsDone(new, W)
    PROVE  RecsDone(Update(old, new), W)
BY DEF RecsDone, Update

LEMMA YieldTells ==
    ASSUME NEW W, NEW u, TasksDone(u, W), NEW recs, RecsDone(recs, W), NEW out \in Reports(W)
    PROVE  Tells(Yield(u, recs, out), W)
BY DEF Tells, Yield
LEMMA RaiseTells ==
    ASSUME NEW W, NEW u, TasksDone(u, W)
    PROVE  Tells(Raise(u), W)
BY SilenceReports, RecsTell DEF Tells, Raise

(* Which tasks are in memory: no more than before, but for one that goes.    *)
LEMMA SameDone ==
    ASSUME NEW W, NEW t, TasksDone(t, W), NEW u,
           \A j \in Keys : u[j].state = "memory" => t[j].state = "memory"
    PROVE  TasksDone(u, W)
BY DEF TasksDone
LEMMA NewStateDone ==
    ASSUME NEW W, NEW t, GraphOK(t), TasksDone(t, W), NEW k \in Keys, NEW s,
           s = "memory" => k \in W
    PROVE  TasksDone([t EXCEPT ![k].state = s], W)
<1> DEFINE u == [t EXCEPT ![k].state = s]
<1>1. t \in [Keys -> Task]
  BY DEF GraphOK
<1>2. \A j \in Keys : u[j].state = IF j = k THEN s ELSE t[j].state
  BY <1>1 DEF Task
<1> HIDE DEF u
<1>3. TasksDone(u, W)
  BY <1>2 DEF TasksDone
<1> QED
  BY <1>3 DEF u
LEMMA LeaveStates ==
    ASSUME NEW t, GraphOK(t), NEW k, NEW from, NEW j \in Keys
    PROVE  Leave(t, k, from)[j].state = t[j].state
BY DEF Leave, GraphOK, Task
LEMMA BlameStates ==
    ASSUME NEW t, GraphOK(t), NEW keys, NEW j \in Keys
    PROVE  Blame(t, keys)[j].state = t[j].state
BY DEF Blame, GraphOK, Task
LEMMA CutOutStates ==
    ASSUME NEW t, GraphOK(t), NEW k \in Keys, NEW j \in Keys, CutOut(t, k)[j].state = "memory"
    PROVE  t[j].state = "memory"
<1>1. CutOut(t, k)[k].state = "unknown"
  BY DEF CutOut, NoTask
<1>2. j # k
  BY <1>1
<1>3. t[j] \in Task
  BY DEF GraphOK
<1> DEFINE after == j \in t[k].dependents
           before == j \in t[k].deps
           deps == IF after THEN t[j].deps \ {k} ELSE t[j].deps
           waitingOn == IF after THEN t[j].waitingOn \ {k} ELSE t[j].waitingOn
           dependents == IF before THEN t[j].dependents \ {k} ELSE t[j].dependents
           waiters == IF before THEN t[j].waiters \ {k} ELSE t[j].waiters
           lost == t[j].lost \/ after
           us == [t[j] EXCEPT !.lost = lost, !.deps = deps, !.waitingOn = waitingOn,
                              !.dependents = dependents, !.waiters = waiters]
<1>4. CutOut(t, k)[j] = us
  BY <1>2 DEF CutOut
<1> HIDE DEF lost, deps, waitingOn, dependents, waiters
<1>5. us.state = t[j].state
  BY <1>3 DEF Task
<1> QED
  BY <1>4, <1>5
-----------------------------------------------------------------------------
LEMMA ReleasedWaitingTells ==
    ASSUME NEW W, NEW t, GraphOK(t), TasksDone(t, W), NEW k \in Keys, NEW outputs
    PROVE  Tells(ReleasedWaiting(t, k, outputs), W)
<1> DEFINE ts == t[k]
           idle == {d \in ts.deps : t[d].state = "released"}
           missing == ts.waitingOn \cup (ts.deps \ outputs)
           own == [ts EXCEPT !.state = "waiting", !.waitingOn = missing,
                       !.waiters = {d \in ts.dependents : t[d].state = "waiting"}]
           v == [j \in Keys |-> IF j = k THEN own
                     ELSE IF j \in ts.deps \ idle THEN [t[j] EXCEPT !.waiters = @ \cup {k}]
                     ELSE t[j]]
           b == [t EXCEPT ![k].state = "waiting", ![k].blame = TRUE]
           recs == Update(Recs(idle, "waiting"),
                          Recs(IF missing = {} THEN {k} ELSE {}, "processing"))
<1>1. t \in [Keys -> Task] /\ ts \in Task
  BY DEF GraphOK
<1>2. \A j \in Keys : b[j].state = "memory" => t[j].state = "memory"
  BY <1>1 DEF Task
<1>3. own.state = "waiting"
  BY <1>1 DEF Task
<1> HIDE DEF own
<1>4. \A j \in Keys : v[j].state = "memory" => t[j].state = "memory"
  BY <1>1, <1>3 DEF Task
<1> HIDE DEF b, v
<1>5. TasksDone(b, W) /\ TasksDone(v, W)
  BY <1>2, <1>4, SameDone
<1>6. RecsDone(recs, W)
  BY RecsTell, UpdateTells
<1> HIDE DEF recs
<1>7. /\ Tells(Yield(t, Recs({k}, "forgotten"), Silence), W)
      /\ Tells(Yield(b, Recs({k}, "erred"), Silence), W)
      /\ Tells(Yield(v, recs, Silence), W)
  BY <1>5, <1>6, YieldTells, RecsTell, SilenceReports
<1>8. ReleasedWaiting(t, k, outputs) =
          IF ts.lost THEN Yield(t, Recs({k}, "forgotten"), Silence)
          ELSE IF \E d \in ts.deps : t[d].blame THEN Yield(b, Recs({k}, "erred"), Silence)
          ELSE Yield(v, recs, Silence)
  BY Zenon DEF ReleasedWaiting, b, v, own, recs
<1> QED
  BY <1>7, <1>8, Zenon

LEMMA WaitingProcessingTells ==
    ASSUME NEW W, NEW t, GraphOK(t), TasksDone(t, W), NEW k \in Keys
    PROVE  Tells(WaitingProcessing(t, k), W)
<1> DEFINE u == [t EXCEPT ![k].state = "processing"]
<1>1. TasksDone(u, W)
  BY NewStateDone
<1> HIDE DEF u
<1>2. Tells(Yield(u, <<>>, Silence), W)
  BY <1>1, YieldTells, RecsTell, SilenceReports
<1> QED
  BY <1>2 DEF WaitingProcessing, u

(* The one transition to memory.                                             *)
LEMMA ProcessingMemoryTells ==
    ASSUME NEW W, NEW t, GraphOK(t), TasksDone(t, W), NEW k \in Keys, k \in W
    PROVE  Tells(ProcessingMemory(t, k), W)
<1> DEFINE u == [t EXCEPT ![k].state = "memory"]
           recs == Recs({k}, "memory")
           out == Report(t, "key-in-memory", k)
<1>1. TasksDone(u, W)
  BY NewStateDone
<1>2. RecsDone(recs, W)
  BY DEF RecsDone, Recs
<1>3. out \in Reports(W)
  BY TellReports DEF Report, ReportOps
<1> HIDE DEF u, recs, out
<1>4. Tells(Yield(u, recs, out), W)
  BY <1>1, <1>2, <1>3, YieldTells
<1> QED
  BY <1>4 DEF ProcessingMemory, u, recs, out

LEMMA WaitingReleasedTells ==
    ASSUME NEW W, NEW t, GraphOK(t), TasksDone(t, W), NEW k \in Keys
    PROVE  Tells(WaitingReleased(t, k), W)
<1> DEFINE from == {d \in t[k].deps : k \in t[d].waiters}
           back == ~t[k].blame /\ ~Unneeded(t, k)
           l == Leave(t, k, from)
           u == [l EXCEPT ![k].state = "released", ![k].waitingOn = {},
                     ![k].waiters = IF t[k].lost \/ back THEN @ ELSE {}]
           recs == Update(Recs(ToRelease(t, k, from), "released"),
                          IF t[k].lost THEN Recs({k}, "forgotten")
                          ELSE Recs(IF back THEN {k} ELSE {}, "waiting"))
<1>1. GraphOK(l) /\ \A j \in Keys : l[j].state = t[j].state
  BY LeaveKeeps, LeaveStates
<1> HIDE DEF l
<1>2. l \in [Keys -> Task]
  BY <1>1 DEF GraphOK
<1>3. \A j \in Keys : u[j].state = "memory" => t[j].state = "memory"
  BY <1>1, <1>2 DEF Task
<1> HIDE DEF u, back, from
<1>4. TasksDone(u, W)
  BY <1>3, SameDone
<1>5. RecsDone(recs, W)
  BY RecsTell, UpdateTells
<1> HIDE DEF recs
<1>6. Tells(Yield(u, recs, Silence), W)
  BY <1>4, <1>5, YieldTells, SilenceReports
<1> QED
  BY <1>6, Zenon DEF WaitingReleased, u, l, back, from, recs

LEMMA ProcessingReleasedTells ==
    ASSUME NEW W, NEW t, GraphOK(t), TasksDone(t, W), NEW k \in Keys
    PROVE  Tells(ProcessingReleased(t, k), W)
<1> DEFINE from == {d \in t[k].deps : t[d].state # "released"}
           u == [t EXCEPT ![k].state = "released"]
           l == Leave(u, k, from)
           v == [l EXCEPT ![k].waiters = {}]
           recs == Update(Recs(IF t[k].lost THEN {k} ELSE {}, "forgotten"),
                          Recs(ToRelease(u, k, from), "released"))
<1>1. GraphOK(u) /\ TasksDone(u, W)
  BY NewStateKeeps, NewStateDone DEF States
<1> HIDE DEF u
<1>2. GraphOK(l) /\ \A j \in Keys : l[j].state = u[j].state
  BY <1>1, LeaveKeeps, LeaveStates
<1> HIDE DEF l
<1>3. l \in [Keys -> Task]
  BY <1>2 DEF GraphOK
<1>4. \A j \in Keys : v[j].state = "memory" => u[j].state = "memory"
  BY <1>2, <1>3 DEF Task
<1> HIDE DEF v, from
<1>5. TasksDone(v, W)
  BY <1>1, <1>4, SameDone
<1>6. RecsDone(recs, W)
  BY RecsTell, UpdateTells
<1> HIDE DEF recs
<1>7. Tells(Yield(u, Recs({k}, "waiting"), Silence), W) /\ Tells(Yield(v, recs, Silence), W)
  BY <1>1, <1>5, <1>6, YieldTells, RecsTell, SilenceReports
<1>8. ProcessingReleased(t, k) =
          IF ~t[k].lost /\ ~Unneeded(t, k) THEN Yield(u, Recs({k}, "waiting"), Silence)
          ELSE Yield(v, recs, Silence)
  BY Zenon DEF ProcessingReleased, u, v, l, from, recs
<1> QED
  BY <1>7, <1>8, Zenon

LEMMA MemoryReleasedTells ==
    ASSUME NEW W, NEW t, GraphOK(t), TasksDone(t, W), NEW k \in Keys
    PROVE  Tells(MemoryReleased(t, k), W)
<1> DEFINE ts == t[k]
           running == {d \in ts.waiters : t[d].state = "processing"}
           u == [j \in Keys |->
                    IF j = k THEN [ts EXCEPT !.state = "released"]
                    ELSE IF j \in ts.waiters /\ t[j].state = "waiting"
                    THEN [t[j] EXCEPT !.waitingOn = @ \cup {k}]
                    ELSE t[j]]
           own == IF ~ts.spec \/ ts.lost THEN Recs({k}, "forgotten")
                  ELSE Recs(IF Unneeded(t, k) THEN {} ELSE {k}, "waiting")
           out == Report(t, "lost-data", k)
<1>1. t \in [Keys -> Task]
  BY DEF GraphOK
<1>2. \A j \in Keys : u[j].state = "memory" => t[j].state = "memory"
  BY <1>1 DEF Task
<1>3. out \in Reports(W)
  BY TellReports DEF Report, ReportOps
<1>4. RecsDone(own, W)
  BY RecsTell
<1> HIDE DEF u, own, running, out
<1>5. TasksDone(u, W)
  BY <1>2, SameDone
<1>6. RecsDone(Update(Recs(running, "waiting"), own), W)
  BY <1>4, RecsTell, UpdateTells
<1>7. Tells(Yield(u, Update(Recs(running, "waiting"), own), out), W)
  BY <1>3, <1>5, <1>6, YieldTells
<1> QED
  BY <1>7, Zenon DEF MemoryReleased, u, running, own, out

LEMMA ProcessingErredTells ==
    ASSUME NEW W, NEW t, GraphOK(t), TasksDone(t, W), NEW k \in Keys
    PROVE  Tells(ProcessingErred(t, k), W)
<1> DEFINE b == Blame(t, t[k].dependents \cup {k})
           u == Leave(b, k, t[k].deps)
           v == [u EXCEPT ![k].state = "erred", ![k].waiters = {}]
           recs == Update(Recs(t[k].dependents, "erred"),
                          Recs(ToRelease(t, k, t[k].deps), "released"))
           out == Report(t, "task-erred", k)
<1>1. GraphOK(b) /\ \A j \in Keys : b[j].state = t[j].state
  BY BlameKeeps, BlameStates
<1> HIDE DEF b
<1>2. GraphOK(u) /\ \A j \in Keys : u[j].state = t[j].state
  BY <1>1, LeaveKeeps, LeaveStates
<1> HIDE DEF u
<1>3. u \in [Keys -> Task]
  BY <1>2 DEF GraphOK
<1>4. \A j \in Keys : v[j].state = "memory" => t[j].state = "memory"
  BY <1>2, <1>3 DEF Task
<1>5. out \in Reports(W)
  BY TellReports DEF Report, ReportOps
<1>6. RecsDone(recs, W)
  BY RecsTell, UpdateTells
<1> HIDE DEF v, recs, out
<1>7. Tells(Yield(v, recs, out), W)
  BY <1>4, <1>5, <1>6, SameDone, YieldTells
<1> QED
  BY <1>7, Zenon DEF ProcessingErred, v, u, b, recs, out

LEMMA ReleasedErredTells ==
    ASSUME NEW W, NEW t, GraphOK(t), TasksDone(t, W), NEW k \in Keys
    PROVE  Tells(ReleasedErred(t, k), W)
<1> DEFINE b == Blame(t, t[k].dependents)
           u == [b EXCEPT ![k].state = "erred"]
           recs == Recs(t[k].dependents, "erred")
           out == Report(t, "task-erred", k)
<1>1. GraphOK(b) /\ \A j \in Keys : b[j].state = t[j].state
  BY BlameKeeps, BlameStates
<1> HIDE DEF b
<1>2. TasksDone(b, W)
  BY <1>1, SameDone
<1>3. TasksDone(u, W)
  BY <1>1, <1>2, NewStateDone
<1>4. out \in Reports(W)
  BY TellReports DEF Report, ReportOps
<1> HIDE DEF u, out
<1>5. Tells(Yield(u, recs, out), W) /\ Tells(Raise(t), W)
  BY <1>3, <1>4, RecsTell, YieldTells, RaiseTells
<1>6. ReleasedErred(t, k) = IF ~t[k].blame THEN Raise(t) ELSE Yield(u, recs, out)
  BY Zenon DEF ReleasedErred, u, b, out
<1> HIDE DEF recs
<1> QED
  BY <1>5, <1>6, Zenon

LEMMA ErredReleasedTells ==
    ASSUME NEW W, NEW t, GraphOK(t), TasksDone(t, W), NEW k \in Keys
    PROVE  Tells(ErredReleased(t, k), W)
<1> DEFINE u == [t EXCEPT ![k].state = "released", ![k].blame = FALSE]
           some == {d \in t[k].dependents : t[d].state = "erred"}
           out == Report(t, "task-retried", k)
<1>1. t \in [Keys -> Task]
  BY DEF GraphOK
<1>2. \A j \in Keys : u[j].state = "memory" => t[j].state = "memory"
  BY <1>1 DEF Task
<1>3. out \in Reports(W)
  BY TellReports DEF Report, ReportOps
<1> HIDE DEF u, some, out
<1>4. Tells(Yield(u, Recs(some, "waiting"), out), W)
  BY <1>2, <1>3, SameDone, RecsTell, YieldTells
<1> QED
  BY <1>4, Zenon DEF ErredReleased, u, some, out

LEMMA ForgottenTells ==
    ASSUME NEW W, NEW t, GraphOK(t), TasksDone(t, W), NEW k \in Keys
    PROVE  Tells(MemoryForgotten(t, k), W) /\ Tells(ReleasedForgotten(t, k), W)
<1> DEFINE u == CutOut(t, k)
           recs == Recs(PropagateForgotten(t, k), "forgotten")
           out == Report(t, "cancelled-key", k)
<1>1. TasksDone(u, W)
  BY CutOutStates, SameDone
<1>2. RecsDone(recs, W)
  BY RecsTell
<1>3. out \in Reports(W)
  BY TellReports DEF Report, ReportOps
<1> HIDE DEF u, recs, out
<1>4. Tells(Yield(u, recs, out), W)
  BY <1>1, <1>2, <1>3, YieldTells
<1> QED
  BY <1>4 DEF MemoryForgotten, ReleasedForgotten, u, recs, out
-----------------------------------------------------------------------------
LEMMA FuncTells ==
    ASSUME NEW W, NEW t, GraphOK(t), TasksDone(t, W), NEW k \in Keys, NEW arc, NEW outputs,
           arc = <<"processing", "memory">> => k \in W
    PROVE  Tells(Func(t, k, arc, outputs), W)
<1>1. Tells(WaitingMemory(t, k), W)
  BY RaiseTells DEF WaitingMemory
<1>2. arc = <<"processing", "memory">> => Tells(ProcessingMemory(t, k), W)
  BY ProcessingMemoryTells
<1> QED
  BY <1>1, <1>2, ReleasedWaitingTells, WaitingProcessingTells, WaitingReleasedTells,
     ProcessingReleasedTells, ProcessingErredTells, MemoryReleasedTells,
     ReleasedErredTells, ErredReleasedTells, ForgottenTells DEF Func

(* transition, through "released" or not.                                    *)
LEMMA TransitionTells ==
    ASSUME NEW W, NEW t, GraphOK(t), TasksDone(t, W), NEW k \in Keys, NEW finish, NEW outputs,
           finish = "memory" => k \in W
    PROVE  Tells(Transition(t, k, finish, outputs), W)
<1> DEFINE start == t[k].state
           a == Func(t, k, <<start, "released">>, outputs)
           target == IF k \in DOMAIN a.recs THEN a.recs[k] ELSE finish
           b == Func(a.t, k, <<"released", target>>, outputs)
           one == Func(t, k, <<start, finish>>, outputs)
           bad == [a EXCEPT !.raises = TRUE, !.recs = <<>>]
           recs == Update(a.recs, b.recs)
           out == Then(a.out, b.out)
           two == [b EXCEPT !.recs = recs, !.out = out]
<1>1. Tells(a, W) /\ Tells(one, W) /\ Yields(a)
  BY FuncTells, FuncYields
<1> HIDE DEF a, one, target
<1>2. Tells(b, W)
  <2>1. GraphOK(a.t) /\ TasksDone(a.t, W)
    BY <1>1 DEF Yields, Tells
  <2> QED
    BY <2>1, FuncTells
<1> HIDE DEF b
<1>3. Tells(bad, W)
  <2>1. DOMAIN bad = DOMAIN a /\ bad.t = a.t /\ bad.recs = <<>> /\ bad.out = a.out
    BY <1>1 DEF Tells
  <2> HIDE DEF bad
  <2> QED
    BY <1>1, <2>1, RecsTell DEF Tells
<1>4. RecsDone(recs, W) /\ out \in Reports(W)
  BY <1>1, <1>2, UpdateTells, ThenReports DEF Tells
<1> HIDE DEF recs, out
<1>5. Tells(two, W)
  <2>1. DOMAIN two = DOMAIN b /\ two.t = b.t /\ two.recs = recs /\ two.out = out
    BY <1>2 DEF Tells
  <2> HIDE DEF two
  <2> QED
    BY <1>2, <1>4, <2>1 DEF Tells
<1>6. Tells(Yield(t, <<>>, Silence), W) /\ Tells(Raise(t), W)
  BY YieldTells, RaiseTells, RecsTell, SilenceReports
<1>7. Transition(t, k, finish, outputs) =
          IF start \in {"unknown", finish} THEN Yield(t, <<>>, Silence)
          ELSE IF <<start, finish>> \in Transitions THEN one
          ELSE IF start = "released" \/ <<"released", finish>> \notin Transitions THEN Raise(t)
          ELSE IF b.raises THEN bad ELSE two
  BY Zenon DEF Transition, one, a, b, target, recs, out
<1> HIDE DEF bad, two, start
<1> QED
  BY <1>1, <1>3, <1>5, <1>6, <1>7, Zenon
-----------------------------------------------------------------------------
(* What the handlers report.                                                 *)
LEMMA ReportToTells ==
    ASSUME NEW W, NEW t, NEW op \in ReportOps, NEW k \in Keys, op = "key-in-memory" => k \in W,
           NEW client
    PROVE  ReportTo(t, op, k, client) \in Reports(W)
<1> DEFINE second == IF t[k].state = "unknown" THEN Tell(Clients, op, k) ELSE Report(t, op, k)
           first == Tell(client, op, k)
<1>1. first \in Reports(W) /\ second \in Reports(W)
  BY TellReports DEF Report
<1> HIDE DEF first, second
<1>2. Then(first, second) \in Reports(W)
  BY <1>1, ThenReports
<1> QED
  BY <1>2 DEF ReportTo, first, second

(* report_on_key says that a task is finished only if it is in memory.       *)
LEMMA ReportOnKeyTells ==
    ASSUME NEW W, NEW t, TasksDone(t, W), NEW k \in Keys, NEW client
    PROVE  ReportOnKey(t, k, client) \in Reports(W)
<1>1. t[k].state = "memory" => ReportTo(t, "key-in-memory", k, client) \in Reports(W)
  BY ReportToTells DEF ReportOps, TasksDone
<1>2. /\ ReportTo(t, "cancelled-key", k, client) \in Reports(W)
      /\ ReportTo(t, "task-erred", k, client) \in Reports(W)
  BY ReportToTells DEF ReportOps
<1> QED
  BY <1>1, <1>2, SilenceReports DEF ReportOnKey

LEMMA DueReported ==
    ASSUME NEW W, NEW t, TasksDone(t, W), NEW k \in Keys, t[k].state \in {"memory", "erred"},
           NEW client, NEW c \in Clients, c \in t[k].wants
    PROVE  ReportOnKey(t, k, client)[c][1] \in Reported(W)
<1> DEFINE R == Reported(W)
           out == ReportOnKey(t, k, client)
           op == IF t[k].state = "memory" THEN "key-in-memory" ELSE "task-erred"
           first == Tell(client, op, k)
           m == Message(op, k)
<1>1. out \in Reports(W)
  BY ReportOnKeyTells
<1>2. out[c] \in Seq(R)
  BY <1>1 DEF Reports
<1>3. out = Then(first, Report(t, op, k))
  BY DEF ReportOnKey, ReportTo
<1>4. Report(t, op, k)[c] = <<m>>
  BY DEF Report, Tell
<1>5. first[c] \in Seq({m})
  <2>1. first[c] = IF c \in client THEN <<m>> ELSE <<>>
    BY DEF Tell
  <2> HIDE DEF m, first
  <2> QED
    BY <2>1
<1> HIDE DEF first, m, out, op, R
<1>6. out[c] = first[c] \o <<m>>
  BY <1>3, <1>4 DEF Then
<1>7. Len(out[c]) >= 1
  BY <1>5, <1>6
<1> QED
  BY <1>2, <1>7 DEF R, out

LEMMA DesireTells ==
    ASSUME NEW W, NEW t, TasksDone(t, W), NEW keys \in SUBSET Keys, NEW client
    PROVE  DesireReports(t, keys, client) \in Reports(W)
<1> DEFINE R == Reported(W)
           D(c) == {k \in keys : t[k].state \in {"memory", "erred"} /\ c \in t[k].wants}
           times(c) == IF c = client THEN 2 ELSE 1
           msg(c, i) == ReportOnKey(t, SetToSeq(D(c))[(i + times(c) - 1) \div times(c)], {client})[c][1]
           s(c) == [i \in 1..(times(c) * Len(SetToSeq(D(c)))) |-> msg(c, i)]
<1>1. ASSUME NEW c \in Clients PROVE s(c) \in Seq(R)
  <2> DEFINE due == SetToSeq(D(c))
             n == Cardinality(D(c))
             x == times(c)
  <2>1. IsFiniteSet(D(c))
    BY FS_Subset, SchedulerAssumption
  <2> HIDE DEF D
  <2>2. n \in Nat /\ due = [i \in 1..n |-> due[i]] /\ \A i \in 1..n : due[i] \in D(c)
    BY <2>1, SetToSeqLists
  <2>3. x \in {1, 2}
    OBVIOUS
  <2> HIDE DEF due, n, times
  <2>4. Len(due) = n
    BY <2>2
  <2> HIDE DEF x
  <2>5. ASSUME NEW i \in 1..(x * n) PROVE (i + x - 1) \div x \in 1..n
    <3>1. CASE x = 1
      BY <2>2, <3>1
    <3>2. CASE x = 2
      BY <2>2, <3>2
    <3> QED
      BY <2>3, <3>1, <3>2
  <2>6. ASSUME NEW i \in 1..(x * n)
        PROVE  ReportOnKey(t, due[(i + x - 1) \div x], {client})[c][1] \in R
    <3> DEFINE k == due[(i + x - 1) \div x]
    <3>1. k \in D(c)
      BY <2>2, <2>5
    <3>2. k \in Keys /\ t[k].state \in {"memory", "erred"} /\ c \in t[k].wants
      BY <3>1 DEF D
    <3> HIDE DEF k, R
    <3>3. ReportOnKey(t, k, {client})[c][1] \in R
      BY <3>2, DueReported DEF R
    <3> QED
      BY <3>3 DEF k
  <2> DEFINE y == x * n
             g(i) == ReportOnKey(t, due[(i + x - 1) \div x], {client})[c][1]
             q == [i \in 1..y |-> g(i)]
  <2>7. y \in Nat
    BY <2>2, <2>3
  <2>8. \A i \in 1..y : g(i) \in R
    BY <2>6, Zenon
  <2>9. q \in Seq(R)
    <3> HIDE DEF R, y, g
    <3> QED
      BY <2>7, <2>8
  <2>10. s(c) = q
    BY <2>4 DEF due, x
  <2> HIDE DEF q, s
  <2> QED
    BY <2>9, <2>10
<1>2. DesireReports(t, keys, client) = [c \in Clients |-> s(c)]
  BY Zenon DEF DesireReports
<1> HIDE DEF s, R
<1> QED
  BY <1>1, <1>2 DEF Reports, R

(* What is sent, and what an exception leaves.                               *)
LEMMA SentReports ==
    ASSUME NEW W, down \in Reports(W), NEW out \in Reports(W)
    PROVE  Sent(out) \in Reports(W)
<1> DEFINE R == Reported(W)
<1>1. down \in [Clients -> Seq(R)] /\ out \in [Clients -> Seq(R)]
  BY DEF Reports
<1> HIDE DEF R
<1>2. Sent(out) \in [Clients -> Seq(R)]
  BY <1>1 DEF Sent
<1> QED
  BY <1>2 DEF Reports, R

LEMMA FailTells ==
    ASSUME NEW W, down \in Reports(W), NEW out \in Reports(W), NEW who, Fail(who, out)
    PROVE  /\ down' \in Reports(W) /\ FramesDone(todo', W)
           /\ batch' \in Seq(Published(W))
<1> DEFINE R == Reported(W)
           sent == Sent(out)
           m == Message("closed", "none")
           f == [op |-> "remove", client |-> who]
<1>1. sent \in [Clients -> Seq(R)]
  BY SentReports DEF Reports
<1>2. m \in R
  BY DEF Message, Reported
<1>3. \/ \E n \in 0..Len(sent[who]) :
            down' = [sent EXCEPT ![who] = Append(SubSeq(sent[who], 1, n), m)]
      \/ down' = sent
  BY DEF Fail, Send
<1> HIDE DEF R, sent, m
<1>4. ASSUME NEW n \in 0..Len(sent[who]), who \in Clients
      PROVE  Append(SubSeq(sent[who], 1, n), m) \in Seq(R)
  <2>1. sent[who] \in Seq(R)
    BY <1>1, <1>4
  <2>2. SubSeq(sent[who], 1, n) \in Seq(R)
    BY <2>1
  <2> QED
    BY <1>2, <2>2
<1>5. down' \in [Clients -> Seq(R)]
  BY <1>1, <1>3, <1>4
<1>6. batch' = <<>> /\ (todo' = <<f>> \/ todo' = <<>>)
  BY DEF Fail
<1>7. FramesDone(<<f>>, W) /\ FramesDone(<<>>, W)
  BY DEF FramesDone, FrameDone
<1>8. <<>> \in Seq(Published(W))
  OBVIOUS
<1> HIDE DEF f
<1> QED
  BY <1>5, <1>6, <1>7, <1>8 DEF Reports, R
-----------------------------------------------------------------------------
(* What the frames recommend.                                                *)
LEMMA DoneConcat ==
    ASSUME NEW W, NEW r, Frames(r), FramesDone(r, W), NEW s, Frames(s), FramesDone(s, W)
    PROVE  FramesDone(r \o s, W)
<1>1. PICK R : r \in Seq(R)
  BY FramesSeq
<1>2. PICK S : s \in Seq(S)
  BY FramesSeq
<1> DEFINE T == R \cup S
<1>3. r \in Seq(T) /\ s \in Seq(T)
  BY <1>1, <1>2
<1> HIDE DEF T
<1>4. ASSUME NEW i \in DOMAIN (r \o s)
      PROVE  \/ i \in DOMAIN r /\ (r \o s)[i] = r[i]
             \/ i - Len(r) \in DOMAIN s /\ (r \o s)[i] = s[i - Len(r)]
  BY <1>3
<1> QED
  BY <1>4 DEF FramesDone

LEMMA PushDone ==
    ASSUME NEW W, Frames(todo), todo # <<>>, FramesDone(todo, W),
           NEW s, Frames(s), FramesDone(s, W), Push(s)
    PROVE  FramesDone(todo', W)
<1>1. Frames(Tail(todo))
  BY FramesHeadTail
<1>2. FramesDone(Tail(todo), W)
  <2>1. PICK S : todo \in Seq(S)
    BY FramesSeq
  <2>2. \A i \in DOMAIN Tail(todo) : i + 1 \in DOMAIN todo /\ Tail(todo)[i] = todo[i + 1]
    BY <2>1
  <2> QED
    BY <2>2 DEF FramesDone
<1> QED
  BY <1>1, <1>2, DoneConcat DEF Push

LEMMA FewDone ==
    ASSUME NEW W
    PROVE  /\ FramesDone(<<>>, W)
           /\ \A f : FrameDone(f, W) => FramesDone(<<f>>, W)
           /\ \A f, g : FrameDone(f, W) /\ FrameDone(g, W) => FramesDone(<<f, g>>, W)
BY DEF FramesDone

LEMMA RecommendedDone ==
    ASSUME NEW W, NEW recs, RecsDone(recs, W)
    PROVE  FramesDone(Recommended(recs), W)
<1>1. FrameDone(TransitionsOf(recs), W)
  BY DEF TransitionsOf, FrameDone
<1>2. FramesDone(<<TransitionsOf(recs)>>, W) /\ FramesDone(<<>>, W)
  BY <1>1, FewDone
<1> QED
  BY <1>2, Zenon DEF Recommended

LEMMA FreeDone ==
    ASSUME NEW W, NEW free, NEW k \in Keys, NEW recs, DOMAIN recs \subseteq Keys, RecsDone(recs, W)
    PROVE  FramesDone((IF free THEN <<ReleasesOf(FireAndForget, {k})>> ELSE <<>>)
                      \o Recommended(recs), W)
<1> DEFINE f == ReleasesOf(FireAndForget, {k})
           s == IF free THEN <<f>> ELSE <<>>
           r == Recommended(recs)
<1>1. FrameOK(f) /\ FrameDone(f, W)
  BY ReleasesFrame DEF ReleasesOf, FrameDone
<1> HIDE DEF f
<1>2. Frames(<<f>>) /\ FramesDone(<<f>>, W) /\ Frames(<<>>) /\ FramesDone(<<>>, W)
  BY <1>1, FramesFew, FewDone
<1>3. Frames(s) /\ FramesDone(s, W)
  BY <1>2, Zenon
<1>4. Frames(r) /\ FramesDone(r, W)
  BY RecommendedFrames, RecommendedDone
<1> HIDE DEF s, r
<1>5. FramesDone(s \o r, W)
  BY <1>3, <1>4, DoneConcat
<1> QED
  BY <1>5, Zenon DEF s, r, f
-----------------------------------------------------------------------------
(* The changes of tasks that are no transitions bring none to memory.        *)
LEMMA ReleasedKeysDone ==
    ASSUME NEW W, NEW t, GraphOK(t), TasksDone(t, W), NEW client, NEW keys
    PROVE  TasksDone(ReleasedKeys(t, client, keys), W)
<1>1. t \in [Keys -> Task]
  BY DEF GraphOK
<1>2. \A j \in Keys : ReleasedKeys(t, client, keys)[j].state = t[j].state
  BY <1>1 DEF ReleasedKeys, Task
<1> QED
  BY <1>2, SameDone
LEMMA NewTaskState ==
    \A spec \in BOOLEAN : NewTask(spec) \in Task /\ NewTask(spec).state = "released"
BY DEF NewTask, NoTask, Task, States
LEMMA WithTasksDone ==
    ASSUME NEW W, NEW t, GraphOK(t), TasksDone(t, W), NEW graph, NEW touched
    PROVE  TasksDone(WithTasks(t, graph, touched), W)
<1> DEFINE u == WithTasks(t, graph, touched)
<1>1. t \in [Keys -> Task]
  BY DEF GraphOK
<1>2. ASSUME NEW j \in Keys, u[j].state = "memory" PROVE t[j].state = "memory"
  <2> DEFINE spec == t[j].spec \/ j \in graph
             new == NewTask(j \in graph)
             more == [t[j] EXCEPT !.spec = spec]
  <2>1. t[j] \in Task /\ (j \in graph) \in BOOLEAN
    BY <1>1
  <2>2. new.state = "released"
    BY <2>1, NewTaskState
  <2>3. more.state = t[j].state
    <3> HIDE DEF spec
    <3> QED
      BY <2>1 DEF Task
  <2>4. u[j] = IF j \notin touched THEN t[j] ELSE IF t[j].state = "unknown" THEN new ELSE more
    BY DEF WithTasks
  <2> HIDE DEF new, more, u
  <2> QED
    BY <1>2, <2>2, <2>3, <2>4
<1> HIDE DEF u
<1>3. TasksDone(u, W)
  BY <1>2, SameDone
<1> QED
  BY <1>3 DEF u
LEMMA DesiredDone ==
    ASSUME NEW W, NEW t, GraphOK(t), TasksDone(t, W), NEW keys, NEW client
    PROVE  TasksDone(Desired(t, keys, client), W)
<1> DEFINE u == Desired(t, keys, client)
<1>1. t \in [Keys -> Task]
  BY DEF GraphOK
<1>2. ASSUME NEW j \in Keys, u[j].state = "memory" PROVE t[j].state = "memory"
  <2> DEFINE old == IF t[j].state = "unknown" THEN NewTask(FALSE) ELSE t[j]
             new == [old EXCEPT !.wants = @ \cup {client}]
  <2>1. old \in Task /\ (old.state = "memory" => t[j].state = "memory")
    BY <1>1, NewTaskState
  <2>2. u[j] = t[j] \/ u[j] = new
    BY DEF Desired
  <2> HIDE DEF old
  <2>3. new.state = old.state
    BY <2>1 DEF Task
  <2> HIDE DEF new, u
  <2> QED
    BY <1>2, <2>1, <2>2, <2>3
<1> HIDE DEF u
<1>3. TasksDone(u, W)
  BY <1>2, SameDone
<1> QED
  BY <1>3 DEF u
LEMMA WithDependenciesDone ==
    ASSUME NEW W, NEW t, GraphOK(t), TasksDone(t, W), NEW edges
    PROVE  TasksDone(WithDependencies(t, edges), W)
<1>1. t \in [Keys -> Task]
  BY DEF GraphOK
<1>2. ASSUME NEW j \in Keys PROVE WithDependencies(t, edges)[j].state = t[j].state
  <2> DEFINE deps == t[j].deps \cup {d \in Keys : <<j, d>> \in edges}
             dependents == t[j].dependents \cup {d \in Keys : <<d, j>> \in edges}
  <2>1. WithDependencies(t, edges)[j] = [t[j] EXCEPT !.deps = deps, !.dependents = dependents]
    BY DEF WithDependencies
  <2> HIDE DEF deps, dependents
  <2> QED
    BY <1>1, <2>1 DEF Task
<1> QED
  BY <1>2, SameDone
LEMMA AllProcessingDone ==
    ASSUME NEW W, NEW t, GraphOK(t), TasksDone(t, W)
    PROVE  TasksDone(AllProcessing(t), W)
<1>1. t \in [Keys -> Task]
  BY DEF GraphOK
<1>2. \A j \in Keys : AllProcessing(t)[j].state = "memory" => t[j].state = "memory"
  BY <1>1 DEF AllProcessing, Task
<1> QED
  BY <1>2, SameDone

(* client_desires_keys, cut short.                                           *)
LEMMA DesiredInPartTells ==
    ASSUME NEW W, NEW t, GraphOK(t), TasksDone(t, W), NEW keys \in SUBSET Keys, NEW client,
           NEW part \in DesiredInPart(t, keys, client)
    PROVE  TasksDone(part.t, W) /\ part.out \in Reports(W)
<1> DEFINE u(some) == Desired(t, some, client)
           told(some) == {k \in some : ~ReportRaises(tasks, k)}
           out(some) == DesireReports(u(some), told(some), client)
<1>1. PICK some \in SUBSET keys : part = [t |-> u(some), out |-> out(some)]
  BY Zenon DEF DesiredInPart
<1>2. TasksDone(u(some), W)
  BY DesiredDone
<1>3. told(some) \in SUBSET Keys
  OBVIOUS
<1> HIDE DEF u, told
<1>4. out(some) \in Reports(W)
  BY <1>2, <1>3, DesireTells
<1> HIDE DEF out
<1> QED
  BY <1>1, <1>2, <1>4

LEMMA TasksDesiredDone ==
    ASSUME NEW W, GraphOK(tasks), TasksDone(tasks, W), NEW f, f.client \in Clients
    PROVE  TasksDone(TasksMade(f), W) /\ TasksDone(TasksDesired(f), W)
<1>1. TasksDone(TasksMade(f), W)
  BY WithTasksDone DEF TasksMade
<1> QED
  BY <1>1, TasksDesiredKeeps, DesiredDone DEF TasksDesired

LEMMA GraphInPartTells ==
    ASSUME NEW W, GraphOK(tasks), TasksDone(tasks, W), NEW f, FrameOK(f), f.op = "graph",
           NEW part \in GraphInPart(f)
    PROVE  TasksDone(part.t, W) /\ part.out \in Reports(W)
<1> DEFINE t == TasksDesired(f)
           edges == NewEdges(t, Unfinished(f))
           out == DesireReports(t, f.keys, f.client)
<1>1. f.client \in Clients /\ f.keys \in SUBSET Keys
  BY DEF FrameOK
<1>2. /\ GraphOK(TasksMade(f)) /\ GraphOK(t)
      /\ TasksDone(TasksMade(f), W) /\ TasksDone(t, W)
  BY <1>1, TasksDesiredKeeps, TasksDesiredDone
<1>3. \/ part \in {[t |-> tasks, out |-> Silence]}
      \/ part \in DesiredInPart(TasksMade(f), f.keys, f.client)
      \/ part \in {[t |-> u, out |-> out] : u \in DependenciesInPart(t, edges)}
  BY Zenon DEF GraphInPart
<1> HIDE DEF t, edges
<1>4. out \in Reports(W)
  BY <1>1, <1>2, DesireTells
<1> HIDE DEF out
<1>5. CASE part \in {[t |-> tasks, out |-> Silence]}
  BY <1>5, SilenceReports
<1>6. CASE part \in DesiredInPart(TasksMade(f), f.keys, f.client)
  BY <1>1, <1>2, <1>6, DesiredInPartTells
<1>7. CASE part \in {[t |-> u, out |-> out] : u \in DependenciesInPart(t, edges)}
  <2>1. part.t \in DependenciesInPart(t, edges) /\ part.out = out
    BY <1>7
  <2>2. PICK some : part.t = WithDependencies(t, some)
    BY <2>1 DEF DependenciesInPart
  <2> QED
    BY <1>2, <1>4, <2>1, <2>2, WithDependenciesDone
<1> QED
  BY <1>3, <1>5, <1>6, <1>7
-----------------------------------------------------------------------------
(* The steps of the handlers.                                                *)
LEMMA ToldNow ==
    ASSUME ToldTrue
    PROVE  /\ TasksDone(tasks, Written) /\ FramesDone(todo, Written)
           /\ down \in Reports(Written) /\ batch \in Seq(Published(Written))
           /\ \A f \in again : f.op = "cancel"
BY DEF ToldTrue, Reports

(* Outputs and futures do not change.                                        *)
LEMMA ToldAfter ==
    ASSUME ToldTrue, UNCHANGED <<stored, queue, clientVars>>,
           TasksDone(tasks', Written), FramesDone(todo', Written), down' \in Reports(Written),
           batch' \in Seq(Published(Written)), \A f \in again' : f.op = "cancel"
    PROVE  ToldTrue'
<1>1. Written' = Written /\ UNCHANGED <<queue, futures>>
  BY DEF Written, clientVars
<1>2. FinishedIsStored'
  BY <1>1 DEF ToldTrue, FinishedIsStored, Written
<1> QED
  BY <1>1, <1>2 DEF ToldTrue, Reports

(* The frame on top of the stack.                                            *)
LEMMA TopDone ==
    ASSUME SchedulerInv, ToldTrue, todo # <<>>
    PROVE  FrameDone(Head(todo), Written)
<1>1. PICK S : todo \in Seq(S)
  BY FramesSeq DEF SchedulerInv, Carried
<1>2. 1 \in DOMAIN todo /\ Head(todo) = todo[1]
  BY <1>1
<1> QED
  BY <1>2 DEF ToldTrue, FramesDone

LEMMA TransitionsTold ==
    ASSUME SchedulerInv, ToldTrue, UNCHANGED clientVars, TransitionsStep
    PROVE  ToldTrue'
<1> DEFINE f == Head(todo)
           recs == f.recs
<1>1. todo # <<>> /\ f.op = "transitions"
  BY DEF TransitionsStep
<1>2. GraphOK(tasks) /\ Frames(todo) /\ FrameOK(f) /\ FrameDone(f, Written)
  BY <1>1, TopFrame, TopDone
<1>3. DOMAIN recs \subseteq Keys /\ RecsDone(recs, Written)
  BY <1>1, <1>2 DEF FrameOK, FrameDone
<1>4. PICK k \in DOMAIN recs :
          LET rest == [j \in DOMAIN recs \ {k} |-> recs[j]]
              r == Transition(tasks, k, recs[k], stored)
              free == /\ <<tasks[k].state, recs[k]>> = <<"processing", "erred">>
                      /\ FireAndForget \in tasks[k].wants
          IN  /\ tasks' = r.t
              /\ IF r.raises THEN Fail(owner, r.out)
                 ELSE /\ Send(r.out)
                      /\ Push((IF free THEN <<ReleasesOf(FireAndForget, {k})>> ELSE <<>>)
                              \o Recommended(Update(rest, r.recs)))
                      /\ UNCHANGED <<batch, comms>>
  BY Zenon DEF TransitionsStep
<1> DEFINE rest == [j \in DOMAIN recs \ {k} |-> recs[j]]
           r == Transition(tasks, k, recs[k], stored)
           free == /\ <<tasks[k].state, recs[k]>> = <<"processing", "erred">>
                   /\ FireAndForget \in tasks[k].wants
           all == Update(rest, r.recs)
           s == (IF free THEN <<ReleasesOf(FireAndForget, {k})>> ELSE <<>>) \o Recommended(all)
<1>5. k \in Keys /\ (recs[k] = "memory" => k \in Written)
  BY <1>3 DEF RecsDone
<1>6. Yields(r) /\ Tells(r, Written)
  BY <1>2, <1>5, ToldNow, TransitionYields, TransitionTells
<1>7. DOMAIN rest \subseteq Keys /\ RecsDone(rest, Written)
  BY <1>3 DEF RecsDone
<1> HIDE DEF f, r, free, rest
<1>8. DOMAIN all \subseteq Keys /\ RecsDone(all, Written)
  BY <1>6, <1>7, UpdateDomain, UpdateTells DEF Yields, Tells
<1> HIDE DEF all
<1>9. Frames(s) /\ FramesDone(s, Written)
  BY <1>5, <1>8, FreeFrames, FreeDone
<1> HIDE DEF s
<1>10. /\ tasks' = r.t
       /\ \/ Fail(owner, r.out)
          \/ Send(r.out) /\ Push(s) /\ UNCHANGED <<batch, comms>>
  BY <1>4, Zenon DEF r, rest, free, all, s
<1>11. TasksDone(tasks', Written) /\ r.out \in Reports(Written)
  BY <1>6, <1>10 DEF Tells
<1>12. UNCHANGED <<stored, queue, again>>
  BY DEF TransitionsStep, rpcs, remote
<1>13. CASE Fail(owner, r.out)
  BY <1>11, <1>12, <1>13, ToldNow, FailTells, ToldAfter
<1>14. CASE Send(r.out) /\ Push(s) /\ UNCHANGED <<batch, comms>>
  <2>1. FramesDone(todo', Written)
    BY <1>1, <1>2, <1>9, <1>14, ToldNow, PushDone
  <2>2. down' \in Reports(Written)
    BY <1>11, <1>14, ToldNow, SentReports DEF Send
  <2> QED
    BY <1>11, <1>12, <1>14, <2>1, <2>2, ToldNow, ToldAfter
<1> QED
  BY <1>10, <1>13, <1>14

LEMMA ReleaseTold ==
    ASSUME SchedulerInv, ToldTrue, UNCHANGED clientVars, ReleaseKeys
    PROVE  ToldTrue'
<1> DEFINE f == Head(todo)
           recs == ReleasedRecs(tasks, f.client, f.keys)
<1>1. todo # <<>> /\ f.op = "releases"
  BY DEF ReleaseKeys
<1>2. GraphOK(tasks) /\ Frames(todo) /\ f.keys \subseteq Keys
  BY <1>1, TopFrame DEF FrameOK
<1>3. \/ tasks' = ReleasedKeys(tasks, f.client, f.keys) /\ Push(Recommended(recs))
         /\ UNCHANGED <<batch, comms, down>>
      \/ tasks' = tasks /\ Fail(owner, Silence)
  BY Zenon DEF ReleaseKeys
<1>4. DOMAIN recs \subseteq Keys /\ RecsDone(recs, Written)
  <2>1. RecsDone(recs, Written)
    BY RecsTell, UpdateTells DEF ReleasedRecs
  <2>2. DOMAIN recs \subseteq Keys
    BY <1>2 DEF ReleasedRecs, Recs, Update
  <2> QED
    BY <2>1, <2>2
<1> HIDE DEF recs, f
<1>5. TasksDone(tasks', Written)
  BY <1>2, <1>3, ToldNow, ReleasedKeysDone
<1>6. Frames(Recommended(recs)) /\ FramesDone(Recommended(recs), Written)
  BY <1>4, RecommendedFrames, RecommendedDone
<1>7. UNCHANGED <<stored, queue, again>>
  BY DEF ReleaseKeys, rpcs, remote
<1>8. CASE Fail(owner, Silence)
  BY <1>5, <1>7, <1>8, ToldNow, SilenceReports, FailTells, ToldAfter
<1>9. CASE Push(Recommended(recs)) /\ UNCHANGED <<batch, comms, down>>
  <2>1. FramesDone(todo', Written)
    BY <1>1, <1>2, <1>6, <1>9, ToldNow, PushDone
  <2> QED
    BY <1>5, <1>7, <1>9, <2>1, ToldNow, ToldAfter
<1> QED
  BY <1>3, <1>8, <1>9

(* Steps that push frames and recommend nothing.                             *)
LEMMA QuietTold ==
    ASSUME SchedulerInv, ToldTrue, UNCHANGED <<stored, queue, batch, tasks, clientVars>>,
           todo # <<>>, NEW s, Frames(s), \A i \in DOMAIN s : s[i].op # "transitions", Push(s),
           down' \in Reports(Written), \A f \in again' : f.op = "cancel"
    PROVE  ToldTrue'
<1>1. FramesDone(s, Written)
  BY DEF FramesDone, FrameDone
<1>2. FramesDone(todo', Written)
  BY <1>1, TopFrame, ToldNow, PushDone
<1> QED
  BY <1>2, ToldNow, ToldAfter

LEMMA CancelTold ==
    ASSUME SchedulerInv, ToldTrue, UNCHANGED clientVars, CancelKey
    PROVE  ToldTrue'
<1> DEFINE f == Head(todo)
           put == CancelOf(f.key, f.client, FALSE, f.tries - 1)
           first == DependentsCancelled(f)
           last == [f EXCEPT !.op = "cancelled"]
<1>1. todo # <<>> /\ f.op = "cancel"
  BY DEF CancelKey
<1>2. GraphOK(tasks) /\ Frames(todo) /\ FrameOK(f)
  BY <1>1, TopFrame
<1>3. f.key \in Keys /\ "key" \in DOMAIN f /\ "op" \in DOMAIN f
  BY <1>1, <1>2 DEF FrameOK
<1>4. \/ Push(<<>>) /\ UNCHANGED again
      \/ Push(<<>>) /\ again' = IF f.tries = 0 THEN again ELSE again \cup {put}
      \/ Push(first \o <<last>>) /\ UNCHANGED again
  BY Zenon DEF CancelKey, DependentsCancelled
<1>5. put.op = "cancel"
  BY DEF CancelOf
<1>6. Frames(first) /\ FramesDone(first, Written)
  BY <1>2, <1>3, DependentsFrames DEF DependentsCancelled, CancelOf, FramesDone, FrameDone
<1>7. FrameOK(last) /\ FrameDone(last, Written)
  <2>1. DOMAIN last = DOMAIN f /\ last.op = "cancelled" /\ last.key = f.key
    BY <1>3
  <2> HIDE DEF last
  <2> QED
    BY <1>3, <2>1 DEF FrameOK, FrameDone
<1> HIDE DEF f, put, last, first
<1>8. Frames(<<>>) /\ FramesDone(<<>>, Written) /\ Frames(<<last>>) /\ FramesDone(<<last>>, Written)
  BY <1>7, FramesFew, FewDone
<1>9. Frames(first \o <<last>>) /\ FramesDone(first \o <<last>>, Written)
  BY <1>6, <1>8, FramesConcat, DoneConcat
<1>10. FramesDone(todo', Written)
  BY <1>1, <1>2, <1>4, <1>8, <1>9, ToldNow, PushDone
<1>11. \A g \in again' : g.op = "cancel"
  BY <1>4, <1>5, ToldNow
<1>12. UNCHANGED <<stored, queue, batch, tasks, down>>
  BY DEF CancelKey, streams, remote
<1> QED
  BY <1>10, <1>11, <1>12, ToldNow, ToldAfter

LEMMA CancelledTold ==
    ASSUME SchedulerInv, ToldTrue, UNCHANGED clientVars, CancelledKey
    PROVE  ToldTrue'
<1> DEFINE f == Head(todo)
           out == ReportTo(tasks, "cancelled-key", f.key, {})
           s == KeyReleased(f)
<1>1. todo # <<>> /\ f.op = "cancelled" /\ Push(s) /\ Send(out)
  BY Zenon DEF CancelledKey, KeyReleased
<1>2. GraphOK(tasks) /\ FrameOK(f)
  BY <1>1, TopFrame
<1>3. f.key \in Keys
  BY <1>1, <1>2 DEF FrameOK
<1>4. Frames(s) /\ \A i \in DOMAIN s : s[i].op # "transitions"
  BY <1>2, <1>3, KeyReleasedFrames DEF KeyReleased, ReleasesOf
<1>5. out \in Reports(Written)
  BY <1>3, ReportToTells DEF ReportOps
<1> HIDE DEF f, s, out
<1>6. down' \in Reports(Written)
  BY <1>1, <1>5, ToldNow, SentReports DEF Send
<1>7. UNCHANGED <<stored, queue, batch, tasks, again>>
  BY DEF CancelledKey, rpcs, remote
<1> QED
  BY <1>1, <1>4, <1>6, <1>7, ToldNow, QuietTold

LEMMA RemoveTold ==
    ASSUME SchedulerInv, ToldTrue, UNCHANGED clientVars, RemoveClient \/ DeleteClient
    PROVE  ToldTrue'
<1> DEFINE c == Head(todo).client
           g == ReleasesOf(c, Wanted(tasks, c))
           h == [op |-> "delete", client |-> c]
<1>1. todo # <<>> /\ (Push(<<g, h>>) \/ Push(<<>>))
  BY DEF RemoveClient, DeleteClient
<1>2. Wanted(tasks, c) \subseteq Keys
  BY DEF Wanted
<1>3. FrameOK(g) /\ FrameOK(h) /\ g.op # "transitions" /\ h.op # "transitions"
  BY <1>2, ReleasesFrame DEF FrameOK, ReleasesOf
<1> HIDE DEF g, h
<1>4. Frames(<<g, h>>) /\ Frames(<<>>)
  BY <1>3, FramesFew
<1>5. PICK s : Push(s) /\ Frames(s) /\ \A i \in DOMAIN s : s[i].op # "transitions"
  <2>1. CASE Push(<<g, h>>)
    <3> DEFINE q == <<g, h>>
    <3>1. \A i \in DOMAIN q : q[i].op # "transitions"
      BY <1>3
    <3> HIDE DEF q
    <3> QED
      BY <1>4, <2>1, <3>1 DEF q
  <2>2. CASE Push(<<>>)
    <3> DEFINE q == <<>>
    <3>1. \A i \in DOMAIN q : q[i].op # "transitions"
      OBVIOUS
    <3> HIDE DEF q
    <3> QED
      BY <1>4, <2>2, <3>1 DEF q
  <2> QED
    BY <1>1, <2>1, <2>2
<1>6. UNCHANGED <<stored, queue, batch, tasks, again, down>>
  BY DEF RemoveClient, DeleteClient, streams, rpcs, remote
<1> QED
  BY <1>1, <1>5, <1>6, ToldNow, QuietTold

LEMMA GraphCancelTold ==
    ASSUME SchedulerInv, ToldTrue, UNCHANGED clientVars, UpdateGraphCancel
    PROVE  ToldTrue'
<1> DEFINE f == Head(todo)
<1>1. todo # <<>> /\ f.op = "graph"
  BY DEF UpdateGraphCancel
<1>2. FrameOK(f) /\ Frames(todo)
  BY <1>1, TopFrame
<1>3. PICK k \in LostTasks(f) :
          /\ Send(ReportTo(tasks, "cancelled-key", k, {f.client}))
          /\ Push(<<ReleasesOf(f.client, {k}), [f EXCEPT !.graph = @ \ {k}, !.keys = @ \ {k}]>>)
  BY DEF UpdateGraphCancel
<1> DEFINE g == ReleasesOf(f.client, {k})
           h == [f EXCEPT !.graph = @ \ {k}, !.keys = @ \ {k}]
           s == <<g, h>>
           out == ReportTo(tasks, "cancelled-key", k, {f.client})
<1>4. {"op", "client", "graph", "keys"} \subseteq DOMAIN f /\ f.client \in Clients
      /\ f.graph \subseteq Keys /\ f.keys \subseteq Keys
  BY <1>1, <1>2 DEF FrameOK
<1>5. k \in Keys
  BY <1>4 DEF LostTasks
<1>6. out \in Reports(Written)
  BY <1>5, ReportToTells DEF ReportOps
<1>7. /\ DOMAIN h = DOMAIN f /\ h.op = "graph" /\ h.client = f.client
      /\ h.graph = f.graph \ {k} /\ h.keys = f.keys \ {k}
  BY <1>1, <1>4
<1>8. Send(out) /\ Push(s)
  BY <1>3, Zenon
<1> HIDE DEF h, f, out
<1>9. FrameOK(h) /\ FrameOK(g)
  BY <1>4, <1>5, <1>7, ReleasesFrame DEF FrameOK
<1>10. h.op # "transitions" /\ g.op # "transitions"
  BY <1>7 DEF ReleasesOf
<1> HIDE DEF g
<1>11. Frames(s) /\ \A i \in DOMAIN s : s[i].op # "transitions"
  BY <1>9, <1>10, FramesFew
<1> HIDE DEF s
<1>12. down' \in Reports(Written)
  BY <1>6, <1>8, ToldNow, SentReports DEF Send
<1>13. UNCHANGED <<stored, queue, batch, tasks, again>>
  BY DEF UpdateGraphCancel, rpcs, remote
<1> QED
  BY <1>1, <1>8, <1>11, <1>12, <1>13, ToldNow, QuietTold

LEMMA UpdateGraphTold ==
    ASSUME SchedulerInv, ToldTrue, UNCHANGED clientVars, UpdateGraph
    PROVE  ToldTrue'
<1> DEFINE f == Head(todo)
           made == TasksDesired(f)
           edges == NewEdges(made, Unfinished(f))
           t == WithDependencies(made, edges)
           out == DesireReports(made, f.keys, f.client)
<1>1. /\ todo # <<>> /\ f.op = "graph" /\ UnknownInputs(made, edges) = {}
      /\ tasks' = AllProcessing(t) /\ Push(<<>>) /\ Send(out)
  BY Zenon DEF UpdateGraph
<1>2. GraphOK(tasks) /\ Frames(todo) /\ FrameOK(f)
  BY <1>1, TopFrame
<1>3. f.client \in Clients /\ f.keys \in SUBSET Keys /\ Unfinished(f) \in SUBSET Keys
  BY <1>1, <1>2 DEF FrameOK, Unfinished
<1>4. GraphOK(made) /\ TasksDone(made, Written)
  BY <1>2, <1>3, ToldNow, TasksDesiredKeeps, TasksDesiredDone
<1>5. GraphOK(t) /\ TasksDone(t, Written)
  <2>1. TasksDone(t, Written)
    BY <1>4, WithDependenciesDone
  <2> HIDE DEF made, f
  <2>2. GraphOK(t)
    BY <1>1, <1>3, <1>4, SomeEdgesKeep
  <2> QED
    BY <2>1, <2>2
<1>6. out \in Reports(Written)
  BY <1>3, <1>4, DesireTells
<1> HIDE DEF t, made, edges, f, out
<1>7. TasksDone(tasks', Written)
  BY <1>1, <1>5, AllProcessingDone
<1>8. FramesDone(todo', Written)
  BY <1>1, <1>2, ToldNow, FramesFew, FewDone, PushDone
<1>9. down' \in Reports(Written)
  BY <1>1, <1>6, ToldNow, SentReports DEF Send
<1>10. UNCHANGED <<stored, queue, batch, again>>
  BY DEF UpdateGraph, rpcs
<1> QED
  BY <1>7, <1>8, <1>9, <1>10, ToldNow, ToldAfter

LEMMA UpdateGraphFailsTold ==
    ASSUME SchedulerInv, ToldTrue, UNCHANGED clientVars, UpdateGraphFails
    PROVE  ToldTrue'
<1> DEFINE f == Head(todo)
<1>1. todo # <<>> /\ f.op = "graph"
  BY DEF UpdateGraphFails
<1>2. PICK part \in GraphInPart(f) : tasks' = part.t /\ Fail(owner, part.out)
  BY Zenon DEF UpdateGraphFails
<1>3. GraphOK(tasks) /\ FrameOK(f)
  BY <1>1, TopFrame
<1> HIDE DEF f
<1>4. TasksDone(part.t, Written) /\ part.out \in Reports(Written)
  BY <1>1, <1>3, ToldNow, GraphInPartTells
<1>5. UNCHANGED <<stored, queue, again>>
  BY DEF UpdateGraphFails, rpcs, remote
<1> QED
  BY <1>2, <1>4, <1>5, ToldNow, FailTells, ToldAfter

(* A message of an Executor that has a value has stored it.                  *)
LEMMA PublishedHead ==
    ASSUME ToldTrue, batch # <<>>
    PROVE  /\ Head(batch).key \in Keys /\ Tail(batch) \in Seq(Published(Written))
           /\ Head(batch).op \in {"lambda-result", "executed-task"} => Head(batch).key \in Written
<1>1. batch \in Seq(Published(Written))
  BY DEF ToldTrue
<1>2. Head(batch) \in Published(Written) /\ Tail(batch) \in Seq(Published(Written))
  BY <1>1
<1> QED
  BY <1>2 DEF Published, ExecutorMessage

LEMMA ResultTold ==
    ASSUME SchedulerInv, ToldTrue, UNCHANGED clientVars, ResultFromLambda
    PROVE  ToldTrue'
<1> DEFINE k == Head(batch).key
           r == ProcessingMemory(tasks, k)
           free == FireAndForget \in tasks[k].wants
           s == (IF free THEN <<ReleasesOf(FireAndForget, {k})>> ELSE <<>>) \o Recommended(r.recs)
<1>1. /\ batch # <<>> /\ batch' = Tail(batch)
      /\ Head(batch).op \in {"lambda-result", "executed-task"}
  BY DEF ResultFromLambda, NextMessage
<1>2. k \in Keys /\ k \in Written /\ batch' \in Seq(Published(Written))
  BY <1>1, PublishedHead
<1>3. \/ tasks' = r.t /\ Send(r.out) /\ Call(s)
      \/ UNCHANGED <<tasks, down, todo>>
  BY Zenon DEF ResultFromLambda
<1>4. Yields(r) /\ Tells(r, Written)
  BY <1>2, ToldNow, ProcessingMemoryYields, ProcessingMemoryTells DEF SchedulerInv
<1> HIDE DEF k, r, free
<1>5. FramesDone(s, Written)
  BY <1>2, <1>4, FreeDone DEF Yields, Tells
<1> HIDE DEF s
<1>6. TasksDone(tasks', Written) /\ FramesDone(todo', Written)
  BY <1>3, <1>4, <1>5, ToldNow DEF Tells, Call
<1>7. down' \in Reports(Written)
  BY <1>3, <1>4, ToldNow, SentReports DEF Tells, Send
<1>8. UNCHANGED <<stored, queue, again>>
  BY DEF ResultFromLambda, rpcs, remote
<1> QED
  BY <1>2, <1>6, <1>7, <1>8, ToldNow, ToldAfter

LEMMA StateTold ==
    ASSUME SchedulerInv, ToldTrue, UNCHANGED clientVars, StateFromLambda
    PROVE  ToldTrue'
<1> DEFINE m == Head(batch)
           s == IF m.op = "task-erred" THEN "erred" ELSE "processing"
<1>1. batch # <<>> /\ batch' = Tail(batch)
  BY DEF StateFromLambda, NextMessage
<1>2. m.key \in Keys /\ batch' \in Seq(Published(Written)) /\ GraphOK(tasks)
  BY <1>1, PublishedHead DEF SchedulerInv
<1>3. tasks' = tasks \/ tasks' = [tasks EXCEPT ![m.key].state = s]
  BY Zenon DEF StateFromLambda
<1>4. s # "memory"
  OBVIOUS
<1> DEFINE k == m.key
           u == [tasks EXCEPT ![k].state = s]
<1>5. TasksDone(u, Written) /\ (tasks' = tasks \/ tasks' = u)
  <2>1. tasks' = tasks \/ tasks' = u
    BY <1>3
  <2> HIDE DEF m, s
  <2>2. k \in Keys
    BY <1>2
  <2> HIDE DEF k
  <2>3. TasksDone(u, Written)
    BY <1>2, <1>4, <2>2, ToldNow, NewStateDone
  <2> QED
    BY <2>1, <2>3
<1> HIDE DEF u, m, s
<1>6. TasksDone(tasks', Written)
  BY <1>5, ToldNow
<1>7. UNCHANGED <<todo, down, stored, queue, again>>
  BY DEF StateFromLambda, streams, rpcs, remote
<1> QED
  BY <1>2, <1>6, <1>7, ToldNow, ToldAfter

LEMMA HandlerTold ==
    ASSUME SchedulerInv, ToldTrue, UNCHANGED clientVars, Handler
    PROVE  ToldTrue'
BY TransitionsTold, ReleaseTold, CancelTold, CancelledTold, RemoveTold, GraphCancelTold,
   UpdateGraphTold, UpdateGraphFailsTold, ResultTold, StateTold DEF Handler
-----------------------------------------------------------------------------
(* The messages of a client's stream.  A call of something quiet.            *)
LEMMA CallTold ==
    ASSUME SchedulerInv, ToldTrue, UNCHANGED <<stored, queue, batch, tasks, clientVars, down>>,
           NEW s, \A i \in DOMAIN s : s[i].op # "transitions", Call(s),
           again' \subseteq again
    PROVE  ToldTrue'
<1>1. FramesDone(todo', Written)
  BY DEF Call, FramesDone, FrameDone
<1> QED
  BY <1>1, ToldNow, ToldAfter

LEMMA ClientDesiresTold ==
    ASSUME SchedulerInv, ToldTrue, UNCHANGED clientVars, NEW c \in Clients, ClientDesiresKeys(c)
    PROVE  ToldTrue'
<1> DEFINE m == Head(up[c])
           t == Desired(tasks, m.keys, m.client)
           out == DesireReports(t, m.keys, m.client)
<1>1. Take(c, "client-desires-keys") /\ tasks' = t /\ Send(out)
  BY Zenon DEF ClientDesiresKeys
<1>2. GraphOK(tasks) /\ m \in ClientMessage /\ m.op = "client-desires-keys"
  BY <1>1, Taken
<1>3. m.keys \in SUBSET Keys
  BY <1>2 DEF ClientMessage
<1>4. TasksDone(t, Written)
  BY <1>2, ToldNow, DesiredDone
<1>5. out \in Reports(Written)
  BY <1>3, <1>4, DesireTells
<1> HIDE DEF m, t, out
<1>6. down' \in Reports(Written)
  BY <1>1, <1>5, ToldNow, SentReports DEF Send
<1>7. UNCHANGED <<todo, batch, stored, queue, again>>
  BY DEF ClientDesiresKeys, rpcs, remote
<1> QED
  BY <1>1, <1>4, <1>6, <1>7, ToldNow, ToldAfter

LEMMA ReportKeyTold ==
    ASSUME SchedulerInv, ToldTrue, UNCHANGED clientVars, NEW c \in Clients, HandleReportKey(c)
    PROVE  ToldTrue'
<1> DEFINE m == Head(up[c])
           k == CHOOSE k \in m.keys : TRUE
           out == ReportOnKey(tasks, k, {c})
<1>1. Take(c, "report-key") /\ Send(out)
  BY DEF HandleReportKey
<1>2. m \in ClientMessage /\ m.op = "report-key"
  BY <1>1, Taken
<1>3. m.keys \in SUBSET Keys /\ m.keys # {}
  BY <1>2 DEF ClientMessage
<1>4. k \in Keys
  BY <1>3
<1>5. out \in Reports(Written)
  BY <1>4, ToldNow, ReportOnKeyTells
<1> HIDE DEF out
<1>6. down' \in Reports(Written)
  BY <1>1, <1>5, ToldNow, SentReports DEF Send
<1>7. UNCHANGED <<tasks, todo, batch, stored, queue, again>>
  BY DEF HandleReportKey, rpcs, remote
<1> QED
  BY <1>6, <1>7, ToldNow, ToldAfter

LEMMA ReportFailsTold ==
    ASSUME SchedulerInv, ToldTrue, UNCHANGED clientVars, NEW c \in Clients, ReportFails(c)
    PROVE  ToldTrue'
<1> DEFINE m == Head(up[c])
<1>1. PICK op \in {"client-desires-keys", "report-key"} : Take(c, op)
  BY DEF ReportFails
<1>2. GraphOK(tasks) /\ m \in ClientMessage /\ m.op = op
  BY <1>1, Taken
<1>3. PICK part \in IF m.op = "report-key" THEN {[t |-> tasks, out |-> Silence]}
                    ELSE DesiredInPart(tasks, m.keys, m.client) :
          tasks' = part.t /\ Fail(c, part.out)
  BY Zenon DEF ReportFails
<1>4. TasksDone(part.t, Written) /\ part.out \in Reports(Written)
  <2>1. CASE m.op = "report-key"
    <3>1. part = [t |-> tasks, out |-> Silence]
      BY <1>3, <2>1
    <3> QED
      BY <3>1, ToldNow, SilenceReports
  <2>2. CASE m.op = "client-desires-keys"
    <3>1. m.keys \in SUBSET Keys
      BY <1>2, <2>2 DEF ClientMessage
    <3>2. part \in DesiredInPart(tasks, m.keys, m.client)
      BY <1>3, <2>2
    <3> HIDE DEF m
    <3> QED
      BY <1>2, <3>1, <3>2, ToldNow, DesiredInPartTells
  <2> QED
    BY <1>2, <2>1, <2>2
<1>5. UNCHANGED <<stored, queue, again>>
  BY DEF ReportFails, rpcs, remote
<1> QED
  BY <1>3, <1>4, <1>5, ToldNow, FailTells, ToldAfter

LEMMA StreamTold ==
    ASSUME SchedulerInv, ToldTrue, UNCHANGED clientVars, NEW c \in Clients, Stream(c)
    PROVE  ToldTrue'
<1>1. CASE HandleUpdateGraph(c) \/ ClientReleasesKeys(c) \/ CloseClient(c)
  <2> DEFINE m == Head(up[c])
             f == [op |-> "graph", client |-> c, graph |-> m.graph, keys |-> m.keys]
             g == ReleasesOf(c, m.keys)
             h == [op |-> "remove", client |-> c]
  <2>1. Call(<<f>>) \/ Call(<<g>>) \/ Call(<<h>>)
    BY <1>1 DEF HandleUpdateGraph, ClientReleasesKeys, CloseClient
  <2>2. f.op # "transitions" /\ g.op # "transitions" /\ h.op # "transitions"
    BY DEF ReleasesOf
  <2>3. UNCHANGED <<stored, queue, batch, tasks, down, again>>
    BY <1>1 DEF HandleUpdateGraph, ClientReleasesKeys, CloseClient, rpcs, remote
  <2> HIDE DEF f, g, h
  <2>4. PICK e : Call(<<e>>) /\ e.op # "transitions"
    BY <2>1, <2>2
  <2> DEFINE s == <<e>>
  <2>5. \A i \in DOMAIN s : s[i].op # "transitions"
    BY <2>4
  <2> HIDE DEF s
  <2> QED
    BY <2>3, <2>4, <2>5, CallTold DEF s
<1>2. CASE AddClient(c)
  <2>1. UNCHANGED <<tasks, todo, batch, down, stored, queue, again>>
    BY <1>2 DEF AddClient, rpcs, remote
  <2> QED
    BY <2>1, ToldNow, ToldAfter
<1>3. CASE Restart(c)
  <2> DEFINE cs == SetToSeq(registered \cup {FireAndForget})
             s == [i \in DOMAIN cs |-> ReleasesOf(cs[i], Wanted(tasks, cs[i]))]
  <2>1. Call(s)
    BY <1>3, Zenon DEF Restart
  <2>2. \A i \in DOMAIN s : s[i].op # "transitions"
    BY DEF ReleasesOf
  <2>3. UNCHANGED <<tasks, batch, down, stored, queue, again>>
    BY <1>3 DEF Restart, rpcs, remote
  <2> HIDE DEF s
  <2> QED
    BY <2>1, <2>2, <2>3, CallTold
<1> QED
  BY <1>1, <1>2, <1>3, ClientDesiresTold, ReportKeyTold, ReportFailsTold DEF Stream
-----------------------------------------------------------------------------
(* RPCs, calls put off and the messages of Executors.                        *)
LEMMA StimulusTaskErredTold ==
    ASSUME SchedulerInv, ToldTrue, UNCHANGED clientVars, NEW m \in calls, StimulusTaskErred(m)
    PROVE  ToldTrue'
<1>1. PICK k \in m.keys, retries \in BOOLEAN :
          LET r == Transition(tasks, k, IF retries THEN "waiting" ELSE "erred", stored)
              free == ~retries /\ FireAndForget \in tasks[k].wants
          IN  IF tasks[k].state = "processing"
              THEN /\ tasks' = r.t
                   /\ Send(r.out)
                   /\ Call((IF free THEN <<ReleasesOf(FireAndForget, {k})>> ELSE <<>>)
                           \o Recommended(r.recs))
              ELSE UNCHANGED <<tasks, down, todo>>
  BY Zenon DEF StimulusTaskErred
<1> DEFINE finish == IF retries THEN "waiting" ELSE "erred"
           r == Transition(tasks, k, finish, stored)
           free == ~retries /\ FireAndForget \in tasks[k].wants
           s == (IF free THEN <<ReleasesOf(FireAndForget, {k})>> ELSE <<>>) \o Recommended(r.recs)
<1>2. k \in Keys /\ GraphOK(tasks)
  BY DEF SchedulerInv, Carried
<1>3. finish # "memory"
  OBVIOUS
<1>4. Yields(r) /\ Tells(r, Written)
  BY <1>2, <1>3, ToldNow, TransitionYields, TransitionTells
<1> HIDE DEF r, free
<1>5. FramesDone(s, Written)
  BY <1>2, <1>4, FreeDone DEF Yields, Tells
<1> HIDE DEF s
<1>6. (tasks' = r.t /\ Send(r.out) /\ Call(s)) \/ UNCHANGED <<tasks, down, todo>>
  BY <1>1, Zenon DEF r, free, s
<1>7. TasksDone(tasks', Written) /\ FramesDone(todo', Written)
  BY <1>4, <1>5, <1>6, ToldNow DEF Tells, Call
<1>8. down' \in Reports(Written)
  BY <1>4, <1>6, ToldNow, SentReports DEF Tells, Send
<1>9. UNCHANGED <<batch, stored, queue, again>>
  BY DEF StimulusTaskErred, remote
<1> QED
  BY <1>7, <1>8, <1>9, ToldNow, ToldAfter

LEMMA RpcTold ==
    ASSUME SchedulerInv, ToldTrue, UNCHANGED clientVars, Rpc
    PROVE  ToldTrue'
<1>1. ASSUME NEW m \in calls, StimulusCancel(m)
      PROVE  ToldTrue'
  <2> DEFINE ks == SetToSeq(m.keys)
             s == [i \in DOMAIN ks |-> CancelOf(ks[i], m.client, m.force, CancelTries)]
  <2>1. Call(s)
    BY <1>1, Zenon DEF StimulusCancel
  <2>2. \A i \in DOMAIN s : s[i].op # "transitions"
    BY DEF CancelOf
  <2>3. UNCHANGED <<tasks, batch, down, stored, queue, again>>
    BY <1>1 DEF StimulusCancel, streams, remote
  <2> HIDE DEF s
  <2> QED
    BY <2>1, <2>2, <2>3, CallTold
<1>2. ASSUME NEW m \in calls, StimulusRetry(m)
      PROVE  ToldTrue'
  <2> DEFINE seen == ErredAbove(tasks, m.keys)
             roots == {k \in seen : \A d \in tasks[k].deps : tasks[d].state # "erred"}
             recs == Recs(roots, "waiting")
  <2>1. UNCHANGED todo \/ Call(Recommended(recs))
    BY <1>2, Zenon DEF StimulusRetry
  <2>2. FramesDone(Recommended(recs), Written)
    BY RecsTell, RecommendedDone
  <2> HIDE DEF recs
  <2>3. FramesDone(todo', Written)
    BY <2>1, <2>2, ToldNow DEF Call
  <2>4. UNCHANGED <<tasks, batch, down, stored, queue, again>>
    BY <1>2 DEF StimulusRetry, streams, remote
  <2> QED
    BY <2>3, <2>4, ToldNow, ToldAfter
<1> QED
  BY <1>1, <1>2, StimulusTaskErredTold DEF Rpc

LEMMA RestartedTold ==
    ASSUME SchedulerInv, ToldTrue, UNCHANGED clientVars,
           Restarted \/ \E f \in again : CancelAgain(f)
    PROVE  ToldTrue'
<1>1. CASE Restarted
  <2> DEFINE R == Reported(Written)
             m == Message("restart", "none")
             out == Tell(Clients, "restart", "none")
  <2>1. m \in R
    BY DEF Message, Reported
  <2>2. out = [c \in Clients |-> <<m>>]
    BY DEF Tell
  <2> HIDE DEF m, R, out
  <2>3. <<m>> \in Seq(R)
    BY <2>1
  <2>4. out \in Reports(Written)
    BY <2>2, <2>3 DEF Reports, R
  <2>5. down' \in Reports(Written)
    BY <1>1, <2>4, ToldNow, SentReports DEF Restarted, Send, out
  <2>6. UNCHANGED <<tasks, todo, batch, stored, queue, again>>
    BY <1>1 DEF Restarted, rpcs, remote
  <2> QED
    BY <2>5, <2>6, ToldNow, ToldAfter
<1>2. ASSUME NEW f \in again, CancelAgain(f)
      PROVE  ToldTrue'
  <2> DEFINE s == <<f>>
  <2>1. \A i \in DOMAIN s : s[i].op # "transitions"
    BY ToldNow
  <2>2. Call(s) /\ again' \subseteq again
    BY <1>2 DEF CancelAgain
  <2>3. UNCHANGED <<tasks, batch, down, stored, queue>>
    BY <1>2 DEF CancelAgain, streams, remote
  <2> HIDE DEF s
  <2> QED
    BY <2>1, <2>2, <2>3, CallTold
<1> QED
  BY <1>1, <1>2
-----------------------------------------------------------------------------
(* The queue, and the Executors: an output is stored before it is reported.  *)
LEMMA SomeMessages ==
    ASSUME NEW S, NEW s \in Seq(S), NEW n \in 1..Len(s)
    PROVE  SubSeq(s, 1, n) \in Seq(S) /\ SubSeq(s, n + 1, Len(s)) \in Seq(S)
OBVIOUS

LEMMA ConsumeTold ==
    ASSUME ToldTrue, UNCHANGED clientVars, ConsumeRedisQueue
    PROVE  ToldTrue'
<1> DEFINE P == Published(Written)
<1>1. queue \in Seq(P)
  BY DEF ToldTrue
<1>2. PICK n \in 1..Len(queue) :
          batch' = SubSeq(queue, 1, n) /\ queue' = SubSeq(queue, n + 1, Len(queue))
  BY DEF ConsumeRedisQueue
<1>3. batch' \in Seq(P) /\ queue' \in Seq(P)
  <2> HIDE DEF P
  <2> QED
    BY <1>1, <1>2, SomeMessages
<1>4. UNCHANGED <<tasks, todo, again, down, stored, wiped, futures>>
  BY DEF ConsumeRedisQueue, streams, rpcs, clientVars
<1>5. Written' = Written
  BY <1>4 DEF Written
<1>6. FinishedIsStored'
  BY <1>4 DEF ToldTrue, FinishedIsStored
<1> QED
  BY <1>3, <1>4, <1>5, <1>6 DEF ToldTrue

(* What is true of outputs is true of more of them.                          *)
LEMMA MoreWritten ==
    ASSUME ToldTrue, NEW W, Written \subseteq W
    PROVE  /\ TasksDone(tasks, W) /\ FramesDone(todo, W) /\ down \in Reports(W)
           /\ batch \in Seq(Published(W)) /\ queue \in Seq(Published(W))
<1>1. Reported(Written) \subseteq Reported(W)
  BY DEF Reported
<1>2. Published(Written) \subseteq Published(W)
  BY DEF Published
<1>3. TasksDone(tasks, W) /\ FramesDone(todo, W)
  BY DEF ToldTrue, TasksDone, FramesDone, FrameDone, RecsDone
<1>4. down \in Reports(W)
  <2> DEFINE R == Reported(Written)
             S == Reported(W)
  <2>1. down \in [Clients -> Seq(R)]
    BY DEF ToldTrue
  <2> HIDE DEF R, S
  <2>2. R \subseteq S => down \in [Clients -> Seq(S)]
    BY <2>1
  <2> QED
    BY <1>1, <2>2 DEF Reports, R, S
<1>5. batch \in Seq(Published(W)) /\ queue \in Seq(Published(W))
  <2> DEFINE P == Published(Written)
             Q == Published(W)
  <2>1. batch \in Seq(P) /\ queue \in Seq(P)
    BY DEF ToldTrue
  <2> HIDE DEF P, Q
  <2>2. P \subseteq Q => batch \in Seq(Q) /\ queue \in Seq(Q)
    BY <2>1
  <2> QED
    BY <1>2, <2>2 DEF P, Q
<1> QED
  BY <1>3, <1>4, <1>5

LEMMA PublishTold ==
    ASSUME ToldTrue, UNCHANGED <<tasks, todo, batch, again, down, clientVars>>,
           stored \subseteq stored', NEW ms \in Seq(Published(Written')),
           queue' = queue \o ms
    PROVE  ToldTrue'
<1> DEFINE W == Written'
<1>1. Written \subseteq W
  BY DEF Written, clientVars
<1> HIDE DEF W
<1>2. /\ TasksDone(tasks, W) /\ FramesDone(todo, W) /\ down \in Reports(W)
      /\ batch \in Seq(Published(W)) /\ queue \in Seq(Published(W))
  BY <1>1, MoreWritten
<1>3. queue' \in Seq(Published(W))
  <2> DEFINE P == Published(W)
  <2>1. queue \in Seq(P) /\ ms \in Seq(P)
    BY <1>2 DEF W
  <2> HIDE DEF P
  <2>2. queue' \in Seq(P)
    BY <2>1
  <2> QED
    BY <2>2 DEF P
<1>4. FinishedIsStored'
  BY DEF ToldTrue, FinishedIsStored, clientVars
<1>5. futures' \in [Clients -> [Keys -> Statuses]] /\ \A f \in again' : f.op = "cancel"
  BY DEF ToldTrue, clientVars
<1> QED
  BY <1>2, <1>3, <1>4, <1>5 DEF ToldTrue, Reports, W

LEMMA ExecutorTold ==
    ASSUME ToldTrue, UNCHANGED clientVars, Executor
    PROVE  ToldTrue'
<1> DEFINE W == Written'
<1>1. PICK i \in DOMAIN jobs, k \in Keys :
          \/ ExecutorBegins(i, k) \/ ExecutorFails(i, k) \/ ExecutorCalls(i, k)
          \/ \E kept \in BOOLEAN : ExecutorEnds(i, k, kept)
  BY DEF Executor
<1>2. UNCHANGED <<tasks, todo, batch, again, down>> /\ stored \subseteq stored'
  BY <1>1 DEF ExecutorBegins, ExecutorFails, ExecutorCalls, ExecutorEnds, streams, rpcs
<1>3. ASSUME NEW op, op \in {"executing-task", "executed-task", "lambda-result", "task-erred"},
             op \in {"executed-task", "lambda-result"} => k \in W
      PROVE  <<Message(op, k)>> \in Seq(Published(W))
  <2> DEFINE m == Message(op, k)
  <2>1. m \in Published(W)
    BY <1>3 DEF Message, Published, ExecutorMessage
  <2> HIDE DEF m
  <2>2. <<m>> \in Seq(Published(W))
    BY <2>1
  <2> QED
    BY <2>2 DEF m
<1>4. <<>> \in Seq(Published(W))
  OBVIOUS
<1> DEFINE P == Published(W)
<1>5. CASE ExecutorBegins(i, k) \/ ExecutorFails(i, k)
  <2> DEFINE b == <<Message("executing-task", k)>>
             e == <<Message("task-erred", k)>>
  <2>1. b \in Seq(P) /\ e \in Seq(P)
    BY <1>3
  <2>2. queue' = queue \o b \/ queue' = queue \o e
    BY <1>5 DEF ExecutorBegins, ExecutorFails, Publish
  <2> HIDE DEF b, e
  <2> QED
    BY <1>2, <2>1, <2>2, PublishTold
<1>6. CASE ExecutorCalls(i, k)
  <2> DEFINE ms == <<>>
  <2>1. queue' = queue
    BY <1>6 DEF ExecutorCalls
  <2>2. queue' = queue \o ms
    BY <2>1 DEF ToldTrue
  <2>3. ms \in Seq(P)
    BY <1>4
  <2> HIDE DEF ms
  <2> QED
    BY <1>2, <2>2, <2>3, PublishTold
<1>7. ASSUME NEW kept \in BOOLEAN, ExecutorEnds(i, k, kept)
      PROVE  ToldTrue'
  <2> DEFINE r == <<Message("lambda-result", k)>>
             e == <<Message("executed-task", k)>>
             ms == IF k \in jobs[i].roots THEN r
                   ELSE IF LambdaDebug /\ kept THEN e ELSE <<>>
  <2>1. queue' = queue \o ms /\ (k \in jobs[i].roots => kept)
    BY <1>7, Zenon DEF ExecutorEnds, Publish
  <2>2. kept => k \in W
    BY <1>7 DEF ExecutorEnds, Written
  <2>3. kept => r \in Seq(P) /\ e \in Seq(P)
    BY <1>3, <2>2
  <2> HIDE DEF r, e, W
  <2>4. ms \in Seq(P)
    BY <1>4, <2>1, <2>3
  <2> HIDE DEF ms
  <2>5. ms \in Seq(Published(Written'))
    BY <2>4 DEF W
  <2> QED
    BY <1>2, <2>1, <2>5, PublishTold
<1> QED
  BY <1>1, <1>5, <1>6, <1>7

LEMMA SchedulerTold ==
    ASSUME SchedulerInv, ToldTrue, UNCHANGED clientVars, SchedulerNext
    PROVE  ToldTrue'
BY HandlerTold, RpcTold, ConsumeTold, RestartedTold, StreamTold, ExecutorTold DEF SchedulerNext
-----------------------------------------------------------------------------
(* The clients.  Operations finish no future.                                *)
FutureTypes == [Clients -> [Keys -> Statuses]]
NoneFinishes ==
    /\ futures' \in FutureTypes
    /\ \A c \in Clients, k \in Keys : futures'[c][k] = "finished" => futures[c][k] = "finished"

LEMMA FuturesMade ==
    ASSUME futures \in FutureTypes, NEW c \in Clients, NEW keys, MakeFutures(c, keys)
    PROVE  NoneFinishes
<1> DEFINE made == [k \in Keys |->
                       IF k \in keys /\ futures[c][k] = "none" THEN "pending" ELSE futures[c][k]]
<1>1. futures' = [futures EXCEPT ![c] = made]
  BY DEF MakeFutures
<1>2. /\ made \in [Keys -> Statuses]
      /\ \A k \in Keys : made[k] = "finished" => futures[c][k] = "finished"
  BY DEF FutureTypes, Statuses
<1> HIDE DEF made
<1> QED
  BY <1>1, <1>2 DEF NoneFinishes, FutureTypes
LEMMA OneFuture ==
    ASSUME futures \in FutureTypes, NEW c \in Clients, NEW k \in Keys,
           NEW s \in Statuses \ {"finished"}, futures' = [futures EXCEPT ![c][k] = s]
    PROVE  NoneFinishes
BY DEF NoneFinishes, FutureTypes
LEMMA FuturesGone ==
    ASSUME futures \in FutureTypes, NEW c \in Clients,
           futures' = [futures EXCEPT ![c] = [k \in Keys |-> "none"]]
    PROVE  NoneFinishes
BY DEF NoneFinishes, FutureTypes, Statuses
LEMMA SameFutures ==
    ASSUME futures \in FutureTypes, futures' = futures
    PROVE  NoneFinishes
BY DEF NoneFinishes

LEMMA ClientTold ==
    ASSUME ToldTrue, UNCHANGED <<tasks, todo, batch, again, remote, wiped>>,
           down' \in Reports(Written), futures' \in FutureTypes,
           \A c \in Clients, k \in Keys :
               futures'[c][k] = "finished" => futures[c][k] = "finished" \/ k \in Written
    PROVE  ToldTrue'
<1>1. Written' = Written /\ UNCHANGED queue
  BY DEF Written, remote
<1>2. FinishedIsStored'
  <2>1. \A c \in Clients, k \in Keys : futures[c][k] = "finished" => k \in Written
    BY DEF ToldTrue, FinishedIsStored, Written
  <2>2. \A c \in Clients, k \in Keys : futures'[c][k] = "finished" => k \in Written'
    BY <1>1, <2>1
  <2> QED
    BY <2>2 DEF FinishedIsStored, Written
<1> QED
  BY <1>1, <1>2 DEF ToldTrue, Reports, FutureTypes
LEMMA OperationTold ==
    ASSUME ToldTrue, UNCHANGED <<schedulerOnly, down>>, NoneFinishes
    PROVE  ToldTrue'
<1>1. UNCHANGED <<tasks, todo, batch, again, remote, wiped>>
  BY DEF schedulerOnly
<1> QED
  BY <1>1, ToldNow, ClientTold DEF NoneFinishes

LEMMA UserTold ==
    ASSUME ToldTrue, NEW c \in Clients, User(c)
    PROVE  ToldTrue'
<1>1. futures \in FutureTypes
  BY DEF ToldTrue, FutureTypes
<1>2. UNCHANGED <<schedulerOnly, down>>
  BY DEF User, Compute, MapTasks, NormalizeCollection, SubmitTask, FutureByKey,
     FireAndForgetKey, Release, Cancel, Retry, CallScheduler, GatherAgain, AskRestart, Close,
     GraphToFutures
<1>3. ASSUME NEW graph, NEW keys, GraphToFutures(c, graph, keys)
      PROVE  NoneFinishes
  BY <1>1, <1>3, FuturesMade DEF GraphToFutures
<1>4. ASSUME NEW graph, NEW keys, Compute(c, graph, keys) \/ MapTasks(c, graph)
      PROVE  NoneFinishes
  BY <1>3, <1>4 DEF Compute, MapTasks
<1>5. ASSUME NEW graph, NormalizeCollection(c, graph)
      PROVE  NoneFinishes
  BY <1>1, <1>5, FuturesMade DEF NormalizeCollection
<1>6. ASSUME NEW k \in Keys, SubmitTask(c, k) \/ FutureByKey(c, k)
      PROVE  NoneFinishes
  BY <1>1, <1>3, <1>6, FuturesMade DEF SubmitTask, FutureByKey
<1>7. ASSUME NEW k \in Keys, NEW force,
             FireAndForgetKey(c, k) \/ Cancel(c, k, force) \/ Retry(c, k)
      PROVE  NoneFinishes
  BY <1>1, <1>7, SameFutures DEF FireAndForgetKey, Cancel, Retry, CallScheduler
<1>8. ASSUME NEW k \in Keys, Release(c, k)
      PROVE  NoneFinishes
  <2>1. futures' = [futures EXCEPT ![c][k] = "none"] \/ futures' = futures
    BY <1>8 DEF Release
  <2> QED
    BY <1>1, <2>1, OneFuture, SameFutures DEF Statuses
<1>9. ASSUME NEW k \in Keys, GatherAgain(c, k)
      PROVE  NoneFinishes
  BY <1>1, <1>9, OneFuture DEF GatherAgain, Statuses
<1>10. AskRestart(c) => NoneFinishes
  BY <1>1, SameFutures DEF AskRestart
<1>11. Close(c) => NoneFinishes
  BY <1>1, FuturesGone DEF Close
<1>12. NoneFinishes
  BY <1>4, <1>5, <1>6, <1>7, <1>8, <1>9, <1>10, <1>11 DEF User
<1> QED
  BY <1>2, <1>12, OperationTold

(* A client reads what its stream says.                                      *)
LEMMA ListenTold ==
    ASSUME ToldTrue, NEW c \in Clients, Listen(c)
    PROVE  ToldTrue'
<1> DEFINE R == Reported(Written)
           m == Head(down[c])
<1>1. futures \in FutureTypes /\ down \in [Clients -> Seq(R)]
  BY DEF ToldTrue, FutureTypes
<1>2. down[c] # <<>> /\ down' = [down EXCEPT ![c] = Tail(@)]
  BY DEF Listen, HandleReport, HandleRestart, Reconnect, Read
<1> HIDE DEF R
<1>3. m \in R /\ Tail(down[c]) \in Seq(R)
  BY <1>1, <1>2
<1>4. down' \in [Clients -> Seq(R)]
  BY <1>1, <1>2, <1>3
<1>5. down' \in Reports(Written)
  BY <1>4 DEF Reports, R
<1>6. UNCHANGED <<tasks, todo, batch, again, remote, wiped>>
  BY DEF Listen, HandleReport, HandleRestart, Reconnect, schedulerOnly
<1>7. CASE HandleRestart(c) \/ Reconnect(c)
  <2>1. NoneFinishes
    BY <1>1, <1>7, FuturesGone DEF HandleRestart, Reconnect
  <2> QED
    BY <1>5, <1>6, <2>1, ClientTold DEF NoneFinishes
<1>8. CASE HandleReport(c)
  <2> DEFINE k == m.key
             s == NewStatus(m.op, futures[c][k])
  <2>1. m.op \in ReportOps /\ k \in Keys /\ (m.op = "key-in-memory" => k \in Written)
    BY <1>3, <1>8 DEF R, Reported, HandleReport
  <2>2. futures[c][k] \in Statuses
    BY <1>1, <2>1 DEF FutureTypes
  <2>3. futures' = [futures EXCEPT ![c][k] = s]
    BY <1>8 DEF HandleReport
  <2>4. s \in Statuses /\ (s = "finished" => m.op = "key-in-memory")
    BY <2>1, <2>2 DEF NewStatus, ReportOps, Statuses
  <2> HIDE DEF s, m, k
  <2>5. futures' \in FutureTypes
    BY <1>1, <2>1, <2>3, <2>4 DEF FutureTypes
  <2>6. ASSUME NEW d \in Clients, NEW j \in Keys, futures'[d][j] = "finished"
        PROVE  futures[d][j] = "finished" \/ j \in Written
    BY <1>1, <2>1, <2>3, <2>4, <2>6 DEF FutureTypes
  <2> QED
    BY <1>5, <1>6, <2>5, <2>6, ClientTold
<1> QED
  BY <1>7, <1>8 DEF Listen

LEMMA AnsweredTold ==
    ASSUME ToldTrue, NEW m, Answered(m)
    PROVE  ToldTrue'
<1> DEFINE c == m.client
           new == [k \in Keys |-> IF k \notin m.keys \/ m.op = "failed" \/ futures[c][k] = "none"
                                  THEN futures[c][k]
                                  ELSE IF m.op = "cancel" THEN "none" ELSE "pending"]
<1>1. futures \in FutureTypes
  BY DEF ToldTrue, FutureTypes
<1>2. futures' = [futures EXCEPT ![c] = new]
  BY DEF Answered
<1>3. UNCHANGED <<tasks, todo, batch, again, remote, wiped, down>>
  BY DEF Answered, streams
<1>4. NoneFinishes
  <2>1. CASE c \in Clients
    <3>1. /\ new \in [Keys -> Statuses]
          /\ \A k \in Keys : new[k] = "finished" => futures[c][k] = "finished"
      BY <1>1, <2>1 DEF FutureTypes, Statuses
    <3> HIDE DEF new, c
    <3> QED
      BY <1>1, <1>2, <2>1, <3>1 DEF NoneFinishes, FutureTypes
  <2>2. CASE c \notin Clients
    <3> HIDE DEF new, c
    <3>1. futures' = futures
      BY <1>1, <1>2, <2>2 DEF FutureTypes
    <3> QED
      BY <1>1, <3>1, SameFutures
  <2> QED
    BY <2>1, <2>2
<1> QED
  BY <1>3, <1>4, ToldNow, ClientTold DEF NoneFinishes

(* What a user wipes was written.                                            *)
LEMMA FlushTold ==
    ASSUME ToldTrue, Flush
    PROVE  ToldTrue'
<1>1. Written' = Written
  BY DEF Written, Flush
<1>2. UNCHANGED <<tasks, todo, again, down, batch, queue, futures>>
  BY DEF Flush, streams, rpcs
<1>3. FinishedIsStored'
  BY <1>1, <1>2 DEF ToldTrue, FinishedIsStored, Written
<1> QED
  BY <1>1, <1>2, <1>3 DEF ToldTrue

LEMMA NextTold ==
    ASSUME SchedulerInv, ToldTrue, [Next]_allVars
    PROVE  ToldTrue'
<1>1. CASE UNCHANGED allVars
  <2>1. UNCHANGED <<tasks, todo, batch, again, remote, wiped, down, futures>>
    BY <1>1 DEF allVars, vars, clientVars, streams, rpcs
  <2>2. NoneFinishes
    BY <2>1, SameFutures DEF ToldTrue, FutureTypes
  <2> QED
    BY <2>1, <2>2, ToldNow, ClientTold DEF NoneFinishes
<1> QED
  BY <1>1, SchedulerTold, UserTold, ListenTold, AnsweredTold, FlushTold DEF Next

LEMMA ToldInit == SystemInit => ToldTrue
<1> SUFFICES ASSUME SystemInit PROVE ToldTrue
  OBVIOUS
<1>1. /\ tasks = [k \in Keys |-> NoTask] /\ todo = <<>> /\ batch = <<>> /\ again = {}
      /\ down = [c \in Clients |-> <<>>] /\ queue = <<>>
      /\ futures = [c \in Clients |-> [k \in Keys |-> "none"]]
  BY DEF SystemInit, Init, ClientInit
<1>2. NoTask.state = "unknown"
  BY DEF NoTask
<1>3. TasksDone(tasks, Written) /\ FramesDone(todo, Written)
  BY <1>1, <1>2, FewDone DEF TasksDone
<1>4. down \in [Clients -> Seq(Reported(Written))]
  BY <1>1
<1>5. batch \in Seq(Published(Written)) /\ queue \in Seq(Published(Written))
  BY <1>1
<1>6. futures \in [Clients -> [Keys -> Statuses]] /\ FinishedIsStored
  BY <1>1 DEF Statuses, FinishedIsStored
<1> QED
  BY <1>1, <1>3, <1>4, <1>5, <1>6 DEF ToldTrue
-----------------------------------------------------------------------------
(* Whatever a message between Executors, Scheduler and clients says is done  *)
(* was stored before: the messages of result_from_lambda, the                *)
(* recommendations of transitions, the reports of report_on_key.             *)
THEOREM ToldTrueHolds == Spec => []ToldTrue
<1>1. SchedulerInv /\ ToldTrue /\ [Next]_allVars => ToldTrue'
  BY NextTold
<1> QED
  BY <1>1, ToldInit, SchedulerInvHolds, PTL DEF Spec

(* A client that sees a future finished can read its output, unless a user   *)
(* has wiped it, whatever is cancelled, released, retried, restarted or lost *)
(* with a connection in the meantime.                                        *)
THEOREM FinishedIsStoredHolds == Spec => []FinishedIsStored
<1>1. ToldTrue => FinishedIsStored
  BY DEF ToldTrue
<1> QED
  BY <1>1, ToldTrueHolds, PTL
=============================================================================
