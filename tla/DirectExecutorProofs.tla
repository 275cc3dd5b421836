------------------------ MODULE DirectExecutorProofs ------------------------
(* The inputs of the tasks that Task Executors run, for every DAG and any    *)
(* number of containers: a task about to be run has its inputs at hand, or,  *)
(* with a task queue, an Executor that gives up waiting is about to write    *)
(* them.  Without a task queue, and where every task has a value, the        *)
(* containers implement FanIn.                                               *)
EXTENDS TaskExecutorProofs

(* The steps from process_big to the tasks it pulled down.                   *)
PullPcs == {"bigGet", "bigBook", "bigStore", "bigIncr", "bigDone", "pull", "pullSet", "pullMsg"}
(* The steps of process_enqueued_tasks and its loop, and of its giving up.   *)
GivingPcs == {"giveUp", "giveExec", "giveStore"}
QueuePcs == {"queueGet", "queueBook", "queueExec"} \cup GivingPcs

(* Without a task queue nothing is enqueued.                                 *)
NoQueue(x) == x.queue = {} /\ x.notReady = {} /\ x.pc \notin QueuePcs

(* What a container that gives up has counted and not written yet.  The      *)
(* inputs that are in the KV store, or will be.                              *)
GivenUpBy(x) == {d \in Tasks : x.pc \in GivingPcs /\ \E i \in x.notReady : i.large = d}
Secured == store \cup BeingGivenUp

(* The inputs of what a container took are secured, all but the output being *)
(* written next and those that wait in previous_results while nothing can be *)
(* evicted: until the tasks pulled down behind a big output have run, or     *)
(* those of a pass over the task queue.                                      *)
InputsOf(x, stored) ==
    /\ x.pc = "task" => Deps[x.cur] \subseteq stored
    /\ x.become # None =>
          Deps[x.become] \subseteq stored \cup (IF x.pc = "store" THEN {x.node} ELSE {})
    /\ \A t \in x.ready :
          Deps[t] \subseteq stored \cup (IF x.pc \in PullPcs \cup QueuePcs THEN x.prev ELSE {})
    /\ x.pc \in PullPcs => x.node \in x.prev
    /\ x.pc \notin PullPcs \cup QueuePcs \cup {"edges", "evict", "invoke"} => x.ready = {}
(* What a container counts is written, or it was taken as the last input;    *)
(* and no task it processes was executed before in the same invocation.      *)
CountsOf(x, stored, done) ==
    /\ x.pc \in {"edges", "bigIncr"} \/ x.written => x.node \in stored
    /\ x.written => x.pc \in PullPcs \cup {"evict", "invoke"}
    /\ x.cached = {}
    /\ x.pc \in {"bigBook", "queueBook"} =>
          \A c \in Deps[x.edge] \ {x.node} : <<c, x.edge>> \in done

(* A counted output is secured, or nobody looks at the counter again.        *)
CountedSecured ==
    \A g \in counted : g[1] \in Secured \/ \A c \in Deps[g[2]] : <<c, g[2]>> \in counted
(* An invocation that waits finds the inputs of its task.                    *)
PendingSecured == \A i \in pending : Deps[i.key] \subseteq Secured

(* All of it for one container, and for all.                                 *)
InputAt(x, stored, done) ==
    (UseTaskQueue \/ NoQueue(x)) /\ InputsOf(x, stored) /\ CountsOf(x, stored, done)
(* The inductive invariant.                                                  *)
InputInv ==
    /\ CountedSecured /\ PendingSecured
    /\ \A e \in Executors : InputAt(ex[e], Secured, counted)
-----------------------------------------------------------------------------
(* Writing outputs and counting edges takes no input away.                   *)
LEMMA MoreStored ==
    ASSUME NEW x, NEW s, NEW s2, s \subseteq s2, NEW c, NEW c2, c \subseteq c2,
           InputAt(x, s, c)
    PROVE  InputAt(x, s2, c2)
<1>1. InputsOf(x, s2)
  BY DEF InputAt, InputsOf
<1>2. CountsOf(x, s2, c2)
  BY DEF InputAt, CountsOf
<1> QED
  BY <1>1, <1>2 DEF InputAt

(* What is secured, container by container.                                  *)
LEMMA SecuredIs ==
    \A d : d \in Secured <=> d \in store \/ \E f \in Executors : d \in GivenUpBy(ex[f])
BY DEF Secured, BeingGivenUp, GivenUpBy, GivingPcs

(* Nothing secured is lost in a step of e, unless e gives up and forgets it. *)
GivesOn(x, y, stored) == GivenUpBy(x) \subseteq stored \cup GivenUpBy(y)

(* What is secured, and what e adds to it, is secured after the step.        *)
LEMMA SecuredStays ==
    ASSUME ExecutorInv, NEW e \in Executors, NEW y, Becomes(e, y), store \subseteq store',
           GivesOn(ex[e], y, store')
    PROVE  Secured \cup GivenUpBy(y) \cup store' \subseteq Secured'
<1>1. \A f \in Executors : ex'[f] = IF f = e THEN y ELSE ex[f]
  BY OneMoves
<1>2. \A d : d \in Secured' <=> d \in store' \/ \E f \in Executors : d \in GivenUpBy(ex'[f])
  BY DEF Secured, BeingGivenUp, GivenUpBy, GivingPcs
<1>3. \A d \in GivenUpBy(y) \cup store' : d \in Secured'
  BY <1>1, <1>2
<1>4. ASSUME NEW d \in Secured
      PROVE  d \in Secured'
  <2>1. CASE d \in store
    BY <2>1, <1>3
  <2>2. ASSUME NEW f \in Executors, d \in GivenUpBy(ex[f])
        PROVE  d \in Secured'
    <3>1. CASE f = e
      BY <3>1, <2>2, <1>3 DEF GivesOn
    <3>2. CASE f # e
      BY <3>2, <2>2, <1>1, <1>2
    <3> QED BY <3>1, <3>2
  <2> QED BY <2>1, <2>2, SecuredIs
<1> QED BY <1>3, <1>4

(* A step of e that counts nothing.                                          *)
LEMMA InputMove ==
    ASSUME ExecutorInv, InputInv, NEW e \in Executors, NEW y, Becomes(e, y),
           store \subseteq store', GivesOn(ex[e], y, store'), counted' = counted,
           \A i \in pending' : Deps[i.key] \subseteq Secured,
           InputAt(y, Secured \cup GivenUpBy(y) \cup store', counted)
    PROVE  InputInv'
<1>1. Secured \cup GivenUpBy(y) \cup store' \subseteq Secured'
  BY SecuredStays
<1>2. CountedSecured'
  BY <1>1 DEF InputInv, CountedSecured
<1>3. PendingSecured'
  BY <1>1 DEF PendingSecured
<1>4. Secured \subseteq Secured'
  BY <1>1
<1>5. \A f \in Executors : InputAt(ex[f], Secured', counted')
  BY <1>4, MoreStored DEF InputInv
<1>6. InputAt(y, Secured', counted')
  BY <1>1, MoreStored
<1>7. \A f \in Executors : ex'[f] = IF f = e THEN y ELSE ex[f]
  BY OneMoves
<1>8. \A f \in Executors : InputAt(ex'[f], Secured', counted')
  BY <1>5, <1>6, <1>7
<1> QED
  BY <1>2, <1>3, <1>8 DEF InputInv

(* Nothing is forgotten where e does not give up.                            *)
LEMMA NotGiving ==
    ASSUME NEW x, NEW y, NEW s, x.pc \notin GivingPcs
    PROVE  GivesOn(x, y, s)
BY DEF GivesOn, GivenUpBy

(* One that may write an output, where e does not give up.                   *)
LEMMA InputWrites ==
    ASSUME ExecutorInv, InputInv, NEW e \in Executors, NEW y, Becomes(e, y),
           ex[e].pc \notin GivingPcs, store \subseteq store', counted' = counted,
           pending' = pending,
           InputAt(y, Secured, counted) \/ InputAt(y, Secured \cup store', counted)
    PROVE  InputInv'
<1>1. GivesOn(ex[e], y, store')
  BY NotGiving
<1>2. InputAt(y, Secured \cup GivenUpBy(y) \cup store', counted)
  BY MoreStored
<1>3. \A i \in pending' : Deps[i.key] \subseteq Secured
  BY DEF InputInv, PendingSecured
<1> QED
  BY <1>1, <1>2, <1>3, InputMove

(* One that writes nothing at all.                                           *)
LEMMA InputQuiet ==
    ASSUME ExecutorInv, InputInv, NEW e \in Executors, NEW y, Becomes(e, y),
           ex[e].pc \notin GivingPcs, store' = store, counted' = counted, pending' = pending,
           InputAt(y, Secured, counted)
    PROVE  InputInv'
BY InputWrites

(* A step of e that counts an edge.                                          *)
LEMMA InputCount ==
    ASSUME ExecutorInv, InputInv, NEW e \in Executors, NEW y, Becomes(e, y),
           NEW d, NEW t, Incr(d, t), pending' = pending, GivesOn(ex[e], y, store),
           d \in Secured \cup GivenUpBy(y) \/ \A c \in Deps[t] \ {d} : <<c, t>> \in counted,
           InputAt(y, Secured, counted')
    PROVE  InputInv'
<1>1. store' = store /\ counted' = counted \cup {<<d, t>>}
  BY DEF Incr
<1>2. Secured \cup GivenUpBy(y) \cup store' \subseteq Secured'
  BY <1>1, SecuredStays
<1>3. CountedSecured'
  BY <1>1, <1>2 DEF InputInv, CountedSecured
<1>4. Secured \subseteq Secured' /\ counted \subseteq counted'
  BY <1>1, <1>2
<1>5. \A f \in Executors : InputAt(ex[f], Secured', counted')
  BY <1>4, MoreStored DEF InputInv
<1>6. InputAt(y, Secured', counted')
  BY <1>4, MoreStored
<1>7. \A f \in Executors : ex'[f] = IF f = e THEN y ELSE ex[f]
  BY OneMoves
<1>8. \A f \in Executors : InputAt(ex'[f], Secured', counted')
  BY <1>5, <1>6, <1>7
<1>9. PendingSecured'
  BY <1>4 DEF InputInv, PendingSecured
<1> QED
  BY <1>3, <1>8, <1>9 DEF InputInv

(* The last open edge of s is in hand: the other inputs of s are secured.    *)
LEMMA TakenInputs ==
    ASSUME ExecutorInv, InputInv, NEW e \in Executors, NEW n \in Tasks,
           NEW s \in Downstream(n),
           <<n, s>> \in HeldBy(ex[e]), counter[s] = NumDeps(s) - 1
    PROVE  /\ Deps[s] \subseteq Secured \cup {n}
           /\ \A c \in Deps[s] \ {n} : <<c, s>> \in counted
<1>1. s \in Tasks /\ n \in Deps[s]
  BY DEF Downstream
<1>2. <<n, s>> \notin counted
  BY DEF ExecutorInv, ProtocolInv, HeldOnce
<1>3. Cardinality(CountedDeps(s)) = NumDeps(s) - 1
  BY <1>1 DEF ExecutorInv, ProtocolInv, CounterExact
<1>4. \A c \in Deps[s] \ {n} : <<c, s>> \in counted
  BY <1>1, <1>2, <1>3, AllOthersCounted
<1>5. \A c \in Deps[s] \ {n} : c \in Secured
  BY <1>1, <1>2, <1>4 DEF InputInv, CountedSecured
<1> QED
  BY <1>4, <1>5
-----------------------------------------------------------------------------
(* process_path has returned.                                                *)
LEMMA ReturnInput ==
    ASSUME NEW x \in Container, UseTaskQueue \/ NoQueue(x), NEW s, NEW c
    PROVE  InputAt(Return(x), s, c)
BY DEF Return, Idle, InputAt, NoQueue, InputsOf, CountsOf, PullPcs, QueuePcs, GivingPcs,
              Container

(* Between two nodes nothing is in hand but the become node.                 *)
Between(x, s) ==
    /\ UseTaskQueue \/ NoQueue(x)
    /\ x.ready = {} /\ ~x.written /\ x.cached = {}
    /\ x.become # None => Deps[x.become] \subseteq s

(* process_path goes on with the next node, or returns.                      *)
LEMMA NextIterationInput ==
    ASSUME NEW x \in Container, NEW s, NEW c, Between(x, s)
    PROVE  InputAt(NextIteration(x), s, c)
<1>1. CASE x.nodes = {}
  BY <1>1, ReturnInput DEF NextIteration, Between
<1>2. CASE x.nodes # {}
  BY <1>2 DEF NextIteration, Between, InputAt, NoQueue, InputsOf, CountsOf, PullPcs,
              QueuePcs, GivingPcs, Container
<1> QED
  BY <1>1, <1>2

(* The loop of process_path is entered: without a task queue, at once.       *)
LEMMA EnterLoopInput ==
    ASSUME NEW x \in Container, NEW s, NEW c, Between(x, s)
    PROVE  InputAt(EnterLoop(x), s, c)
<1>1. CASE UseTaskQueue /\ x.queue # {}
  BY <1>1 DEF EnterLoop, Between, InputAt, InputsOf, CountsOf, PullPcs, QueuePcs, GivingPcs,
              Container
<1>2. CASE ~(UseTaskQueue /\ x.queue # {})
  BY <1>2, NextIterationInput DEF EnterLoop
<1> QED BY <1>1, <1>2

(* process_out_edges has returned for one node.                              *)
LEMMA AfterNodeInput ==
    ASSUME NEW x \in Container, NEW s, NEW c, UseTaskQueue \/ NoQueue(x), x.ready = {}, x.cached = {},
           x.become # None => Deps[x.become] \subseteq s
    PROVE  InputAt(AfterNode(x), s, c)
<1>1. CASE UseTaskQueue /\ x.queue # {}
  BY <1>1 DEF AfterNode, InputAt, InputsOf, CountsOf, PullPcs, QueuePcs, GivingPcs, Container
<1>2. CASE ~(UseTaskQueue /\ x.queue # {})
  BY <1>2 DEF AfterNode, InputAt, NoQueue, InputsOf, CountsOf, PullPcs, QueuePcs, GivingPcs,
              Container
<1> QED BY <1>1, <1>2
-----------------------------------------------------------------------------
(* lambda_handler: the inputs of an invocation's task are stored.            *)
LEMMA StartInput ==
    ASSUME ExecutorInv, InputInv, NEW e \in Executors, Start(e)
    PROVE  InputInv'
<1> DEFINE x == ex[e]
<1>1. /\ x \in Container /\ InputAt(x, Secured, counted) /\ x.pc = "idle"
      /\ store' = store /\ counted' = counted
  BY DEF ExecutorInv, TypeOK, InputInv, Start, redis, At
<1>2. PICK i \in pending :
         /\ pending' = pending \ {i}
         /\ Becomes(e, [x EXCEPT !.pc = "task", !.event = i, !.cur = i.key, !.prev = i.data])
  BY ZenonT(60) DEF Start
<1>3. Deps[i.key] \subseteq Secured /\ \A j \in pending' : Deps[j.key] \subseteq Secured
  BY <1>2 DEF InputInv, PendingSecured
<1> DEFINE y == [x EXCEPT !.pc = "task", !.event = i, !.cur = i.key, !.prev = i.data]
<1>4. InputAt(y, Secured, counted)
  BY <1>1, <1>3 DEF InputAt, NoQueue, InputsOf, CountsOf, PullPcs, QueuePcs, GivingPcs,
              Container
<1>5. /\ GivesOn(x, y, store') /\ InputAt(y, Secured \cup GivenUpBy(y) \cup store', counted)
  BY <1>1, <1>4, NotGiving, MoreStored DEF GivingPcs
<1> QED
  BY <1>1, <1>2, <1>3, <1>5, InputMove

(* Running a task and putting it into nodes_to_process changes nothing the   *)
(* invariant speaks of but previous_results, which grows.                    *)
LEMMA PutRanKeeps ==
    ASSUME NEW x \in Container, NEW t \in Tasks, t \notin Deps[t], t \notin x.prev
    PROVE  LET r == PutNode(Ran(x, t), t) IN
           /\ r \in Container /\ x.prev \subseteq r.prev
           /\ r.pc = x.pc /\ r.cur = x.cur /\ r.become = x.become /\ r.node = x.node
           /\ r.edge = x.edge /\ r.written = x.written /\ r.ready = x.ready
           /\ r.queue = x.queue /\ r.notReady = x.notReady /\ r.cached = x.cached
<1> DEFINE r == PutNode(Ran(x, t), t)
<1>1. r.prev = IF Outcome(x, t) = "missing" THEN x.prev ELSE x.prev \cup Deps[t]
  BY PutRanFields
<1>2. /\ r \in Container
      /\ r.pc = x.pc /\ r.cur = x.cur /\ r.become = x.become /\ r.node = x.node
      /\ r.edge = x.edge /\ r.written = x.written /\ r.ready = x.ready
      /\ r.queue = x.queue /\ r.notReady = x.notReady /\ r.cached = x.cached
  BY PutRanFields
<1> HIDE DEF r
<1>3. x.prev \subseteq r.prev
  BY <1>1
<1> QED
  BY <1>2, <1>3 DEF r

(* Nor does the run of a ready task, but that it is not ready any more.      *)
LEMMA ReadyKeeps ==
    ASSUME NEW x \in Container, NEW t \in Tasks, t \notin Deps[t], t \notin x.prev
    PROVE  LET y == Keep(RanReady(x, t), t) IN
           /\ y \in Container /\ x.prev \subseteq y.prev
           /\ y.pc = x.pc /\ y.cur = x.cur /\ y.become = x.become /\ y.node = x.node
           /\ y.edge = x.edge /\ y.written = x.written /\ y.ready = x.ready \ {t}
           /\ y.queue = x.queue /\ y.notReady = x.notReady /\ y.cached = x.cached
<1> DEFINE p == PutNode(Ran(x, t), t)
           z == RanReady(x, t)
           y == Keep(z, t)
<1>1. /\ p \in Container /\ x.prev \subseteq p.prev
      /\ p.pc = x.pc /\ p.cur = x.cur /\ p.become = x.become /\ p.node = x.node
      /\ p.edge = x.edge /\ p.written = x.written /\ p.ready = x.ready
      /\ p.queue = x.queue /\ p.notReady = x.notReady /\ p.cached = x.cached
  BY PutRanKeeps
<1>2. z = [p EXCEPT !.ready = @ \ {t}]
  BY DEF RanReady
<1> HIDE DEF p, z
<1>3. /\ z \in Container /\ z.prev = p.prev
      /\ z.pc = p.pc /\ z.cur = p.cur /\ z.become = p.become /\ z.node = p.node
      /\ z.edge = p.edge /\ z.written = p.written /\ z.ready = p.ready \ {t}
      /\ z.queue = p.queue /\ z.notReady = p.notReady /\ z.cached = p.cached
  BY <1>1, <1>2 DEF Container
<1>4. y = [z EXCEPT !.prev = @ \cup {t}]
  BY DEF Keep
<1> HIDE DEF y
<1>5. /\ y \in Container /\ y.prev = z.prev \cup {t}
      /\ y.pc = z.pc /\ y.cur = z.cur /\ y.become = z.become /\ y.node = z.node
      /\ y.edge = z.edge /\ y.written = z.written /\ y.ready = z.ready
      /\ y.queue = z.queue /\ y.notReady = z.notReady /\ y.cached = z.cached
  BY <1>3, <1>4 DEF Container
<1> QED
  BY <1>1, <1>3, <1>5 DEF y, z

(* process_path executes current_path_node.                                  *)
LEMMA ExecuteCurrentInput ==
    ASSUME ExecutorInv, InputInv, NoRerun', NEW e \in Executors, ExecuteCurrent(e)
    PROVE  InputInv'
<1> DEFINE x == ex[e]
           r == PutNode(Ran(x, x.cur), x.cur)
           y == [r EXCEPT !.pc = "next"]
<1>1. /\ x \in Container /\ InputAt(x, Secured, counted) /\ x.pc = "task" /\ x.cur \in Tasks
      /\ store' = store /\ counted' = counted /\ x.cur \in TokensOf(x)
  BY DEF ExecutorInv, Local, ClaimsApart, TypeOK, InputInv, ExecuteCurrent, redis, At, TokensOf
<1>2. pending' = pending /\ (Becomes(e, y) \/ Becomes(e, Return(x)))
  <2> HIDE DEF y
  <2>1. BecomesUnless(Raises(x, x.cur), e, x, IF HasResult(x, x.cur) THEN y ELSE Return(x))
    BY DEF ExecuteCurrent, y
  <2> QED
    BY <2>1, FailReturns DEF BecomesUnless
<1>3. InputAt(Return(x), Secured, counted)
  BY <1>1, ReturnInput DEF InputAt
<1>4. /\ r \in Container /\ r.become = x.become /\ r.written = x.written
      /\ r.ready = x.ready /\ r.queue = x.queue /\ r.notReady = x.notReady
      /\ r.cached = x.cached
  <2>1. x.cur \notin Deps[x.cur] /\ x.cur \notin x.prev
    BY <1>1, TokenFacts
  <2> HIDE DEF x
  <2> QED
    BY <1>1, <2>1, PutRanKeeps
<1>5. InputAt(y, Secured, counted)
  <2>0. y = [r EXCEPT !.pc = "next"]
    OBVIOUS
  <2> HIDE DEF r, y, x
  <2>1. /\ y.pc = "next" /\ y.become = x.become /\ y.written = x.written
        /\ y.ready = x.ready /\ y.queue = x.queue /\ y.notReady = x.notReady
        /\ y.cached = x.cached
    BY <1>4, <2>0 DEF Container
  <2> QED
    BY <1>1, <2>1 DEF InputAt, NoQueue, InputsOf, CountsOf, PullPcs, QueuePcs, GivingPcs
<1> QED
  BY <1>1, <1>2, <1>3, <1>5, InputQuiet DEF GivingPcs

(* process_out_edges starts on a node, which it caches.                      *)
LEMMA SelectNodeInput ==
    ASSUME ExecutorInv, InputInv, NoRerun', NEW e \in Executors, SelectNode(e)
    PROVE  InputInv'
<1> DEFINE x == ex[e]
           Z(n) == TakeNode(x, n)
           Y(n) == [Z(n) EXCEPT !.edges = Downstream(n), !.prev = @ \cup {n},
                                !.pc = IF n \in Big THEN "bigGet"
                                       ELSE IF Z(n).become = None THEN "peek" ELSE "store"]
<1>1. /\ x \in Container /\ InputAt(x, Secured, counted) /\ x.pc = "next"
      /\ store' = store /\ counted' = counted
  BY DEF ExecutorInv, TypeOK, InputInv, SelectNode, redis, At
<1>3. Between(x, Secured)
  BY <1>1 DEF Between, InputAt, InputsOf, CountsOf, PullPcs, QueuePcs, GivingPcs
<1>4. PICK n \in x.nodes :
         BecomesUnless(n \in x.noValue \ Roots, e, Z(n),
                       IF n \in Roots THEN AfterNode(Z(n)) ELSE Y(n))
  BY ZenonT(60) DEF SelectNode
<1> DEFINE z == Z(n)
           y == Y(n)
<1>5. /\ pending' = pending
      /\ Becomes(e, AfterNode(z)) \/ Becomes(e, Return(z)) \/ Becomes(e, y)
  <2> HIDE DEF Y, Z
  <2> QED
    BY <1>4, FailReturns DEF BecomesUnless
<1>6. n \in Tasks /\ z \in Container /\ Between(z, Secured) /\ z.node = n /\ z.become = x.become
      /\ z.prev = x.prev
  <2>1. n \in Tasks /\ x.cached = {} /\ (n \in x.cached) \in BOOLEAN
    BY <1>1, <1>3 DEF Between, Container
  <2>2. z \in Container
    BY ZenonT(60), <1>1, <2>1 DEF TakeNode, Container
  <2>3. /\ z.node = n /\ z.become = x.become /\ z.prev = x.prev /\ z.cached = {} /\ ~z.written
        /\ z.ready = x.ready /\ z.queue = x.queue /\ z.notReady = x.notReady /\ z.pc = x.pc
    BY <1>1, <2>1 DEF TakeNode, Container
  <2> HIDE DEF z, Z
  <2> QED
    BY <1>3, <2>1, <2>2, <2>3 DEF Between, NoQueue
<1>7. InputAt(AfterNode(z), Secured, counted) /\ InputAt(Return(z), Secured, counted)
  <2> HIDE DEF z, Z
  <2> QED
    BY <1>6, AfterNodeInput, ReturnInput DEF Between
<1>8. InputAt(y, Secured, counted)
  <2> HIDE DEF Z
  <2>1. /\ y.pc \in {"bigGet", "peek", "store"} /\ y.become = z.become /\ y.node = n /\ n \in y.prev
        /\ y.written = z.written /\ y.ready = z.ready /\ y.queue = z.queue
        /\ y.notReady = z.notReady /\ y.cached = z.cached
    BY <1>6 DEF Container
  <2> HIDE DEF y, z, Y
  <2> QED
    BY <1>6, <2>1 DEF Between, InputAt, NoQueue, InputsOf, CountsOf, PullPcs, QueuePcs, GivingPcs
<1> QED
  BY <1>1, <1>5, <1>7, <1>8, InputQuiet DEF GivingPcs

(* process_path looks for a become node, a root, or the end of the path.     *)
LEMMA EndOfNodesInput ==
    ASSUME ExecutorInv, InputInv, NEW e \in Executors, EndOfNodes(e)
    PROVE  InputInv'
<1> DEFINE x == ex[e]
<1>1. /\ x \in Container /\ InputAt(x, Secured, counted) /\ x.pc = "next"
      /\ store' = store /\ counted' = counted /\ pending' = pending
  BY DEF ExecutorInv, TypeOK, InputInv, EndOfNodes, redis, At
<1>3. Between(x, Secured)
  BY <1>1 DEF Between, InputAt, InputsOf, CountsOf, PullPcs, QueuePcs, GivingPcs
<1>4. \/ x.become # None
         /\ Becomes(e, [x EXCEPT !.pc = "task", !.cur = x.become, !.become = None])
      \/ Becomes(e, EnterLoop(x))
      \/ \E p \in {"rootSet", "save"} : Becomes(e, [x EXCEPT !.pc = p])
  BY DEF EndOfNodes
<1>5. InputAt(EnterLoop(x), Secured, counted)
  BY <1>1, <1>3, EnterLoopInput
<1>6. ASSUME x.become # None
      PROVE  InputAt([x EXCEPT !.pc = "task", !.cur = x.become, !.become = None], Secured,
                      counted)
  BY <1>1, <1>3, <1>6 DEF Between, InputAt, NoQueue, InputsOf, CountsOf, PullPcs, QueuePcs,
                          GivingPcs, Container
<1>7. ASSUME NEW p \in {"rootSet", "save"}
      PROVE  InputAt([x EXCEPT !.pc = p], Secured, counted)
  BY <1>1, <1>3 DEF Between, InputAt, NoQueue, InputsOf, CountsOf, PullPcs, QueuePcs, GivingPcs,
              Container
<1> QED
  BY <1>1, <1>4, <1>5, <1>6, <1>7, InputQuiet DEF GivingPcs

(* process_path writes a final result, ...                                   *)
LEMMA RootSetInput ==
    ASSUME ExecutorInv, InputInv, NEW e \in Executors, RootSet(e)
    PROVE  InputInv'
<1> DEFINE x == ex[e]
<1>1. /\ x \in Container /\ InputAt(x, Secured, counted) /\ x.pc = "rootSet"
      /\ store' = store /\ counted' = counted /\ pending' = pending
      /\ Becomes(e, [x EXCEPT !.pc = "rootMsg"])
  BY DEF ExecutorInv, TypeOK, InputInv, RootSet, SetFinal, At
<1>3. InputAt([x EXCEPT !.pc = "rootMsg"], Secured, counted)
  BY <1>1 DEF InputAt, NoQueue, InputsOf, CountsOf, PullPcs, QueuePcs, GivingPcs,
              Container
<1> QED
  BY <1>1, <1>3, InputQuiet DEF GivingPcs

(* ... announces it, ...                                                     *)
LEMMA RootMsgInput ==
    ASSUME ExecutorInv, InputInv, NEW e \in Executors, RootMsg(e)
    PROVE  InputInv'
<1> DEFINE x == ex[e]
<1>1. /\ x \in Container /\ InputAt(x, Secured, counted) /\ x.pc = "rootMsg"
      /\ store' = store /\ counted' = counted /\ pending' = pending
      /\ Becomes(e, NextIteration(x))
  BY DEF ExecutorInv, TypeOK, InputInv, RootMsg, redis, At
<1>3. Between(x, Secured)
  BY <1>1 DEF Between, InputAt, InputsOf, CountsOf, PullPcs, QueuePcs, GivingPcs
<1>4. InputAt(NextIteration(x), Secured, counted)
  BY <1>1, <1>3, NextIterationInput
<1> QED
  BY <1>1, <1>4, InputQuiet DEF GivingPcs

(* ... or saves the output of current_path_node.                             *)
LEMMA SaveInput ==
    ASSUME ExecutorInv, InputInv, NEW e \in Executors, Save(e)
    PROVE  InputInv'
<1> DEFINE x == ex[e]
<1>1. /\ x \in Container /\ InputAt(x, Secured, counted) /\ x.pc = "save"
      /\ store \subseteq store' /\ counted' = counted /\ pending' = pending
      /\ Becomes(e, EnterLoop(x))
  BY DEF ExecutorInv, TypeOK, InputInv, Save, StoreValue, redis, At
<1>3. Between(x, Secured)
  BY <1>1 DEF Between, InputAt, InputsOf, CountsOf, PullPcs, QueuePcs, GivingPcs
<1>4. InputAt(EnterLoop(x), Secured, counted)
  BY <1>1, <1>3, EnterLoopInput
<1> QED
  BY <1>1, <1>4, InputWrites DEF GivingPcs
-----------------------------------------------------------------------------
(* process_out_edges takes the become node: only the output of node_         *)
(* processing can be missing, and it is written next.                        *)
LEMMA PeekBecomeInput ==
    ASSUME ExecutorInv, InputInv, NEW e \in Executors, PeekBecome(e)
    PROVE  InputInv'
<1> DEFINE x == ex[e]
           b == Become[x.node]
           w == [TakeBecome(x, b) EXCEPT !.pc = "store"]
           z == [x EXCEPT !.pc = "store"]
<1>1. /\ x \in Container /\ InputAt(x, Secured, counted) /\ x.pc = "peek" /\ Local(x)
      /\ store' = store /\ counted' = counted /\ pending' = pending
      /\ (IsReady(b) /\ Becomes(e, w)) \/ Becomes(e, z)
  BY DEF ExecutorInv, TypeOK, InputInv, PeekBecome, redis, At
<1>3. InputAt(z, Secured, counted)
  BY <1>1 DEF InputAt, NoQueue, InputsOf, CountsOf, PullPcs, QueuePcs, GivingPcs,
              Container
<1>4. ASSUME IsReady(b)
      PROVE  InputAt(w, Secured, counted)
  <2>1. x.node \in Tasks /\ b \in Downstream(x.node) /\ x.edges = Downstream(x.node)
    BY <1>1, ExecutorAssumption DEF Local, EdgesApart, EdgePcs
  <2>2. <<x.node, b>> \in HeldBy(x)
    BY <2>1 DEF HeldBy, Downstream
  <2>3. Deps[b] \subseteq Secured \cup {x.node}
    BY <1>4, <2>1, <2>2, TakenInputs DEF IsReady
  <2>4. /\ w.pc = "store" /\ w.become = b /\ w.node = x.node /\ w.written = x.written
        /\ w.cached = x.cached
        /\ w.ready = x.ready /\ w.queue = x.queue /\ w.notReady = x.notReady
    BY <1>1 DEF TakeBecome, Container
  <2> HIDE DEF w, b
  <2> QED
    BY <1>1, <2>3, <2>4 DEF InputAt, NoQueue, InputsOf, CountsOf, PullPcs, QueuePcs, GivingPcs
<1> QED
  BY <1>1, <1>3, <1>4, InputQuiet DEF GivingPcs

(* process_small writes the output, ...                                      *)
LEMMA SmallStoreInput ==
    ASSUME ExecutorInv, InputInv, NEW e \in Executors, SmallStore(e)
    PROVE  InputInv'
<1> DEFINE x == ex[e]
           y == EdgesLeft(x)
<1>1. /\ x \in Container /\ InputAt(x, Secured, counted) /\ x.pc = "store"
      /\ store' = store \cup {x.node} /\ counted' = counted /\ pending' = pending
      /\ Becomes(e, y)
  BY DEF ExecutorInv, TypeOK, InputInv, SmallStore, StoreValue, At, InputAt, CountsOf, PullPcs
<1>3. /\ y.pc \in {"edges", "evict"} /\ y.become = x.become /\ y.node = x.node
      /\ y.written = x.written /\ y.cached = x.cached /\ y.ready = x.ready /\ y.queue = x.queue
      /\ y.notReady = x.notReady
  BY <1>1 DEF EdgesLeft, Container
<1>4. InputAt(y, Secured \cup store', counted)
  <2> HIDE DEF y
  <2> QED
    BY <1>1, <1>3 DEF InputAt, NoQueue, InputsOf, CountsOf, PullPcs, QueuePcs, GivingPcs
<1> QED
  BY <1>1, <1>4, InputWrites DEF GivingPcs

(* ... and counts it for one dependent, whose inputs are then all stored if  *)
(* the counter is full.                                                      *)
LEMMA SmallEdgeInput ==
    ASSUME ExecutorInv, InputInv, NEW e \in Executors, SmallEdge(e)
    PROVE  InputInv'
<1> DEFINE x == ex[e]
<1>1. /\ x \in Container /\ InputAt(x, Secured, counted) /\ x.pc = "edges" /\ Local(x)
      /\ pending' = pending
  BY DEF ExecutorInv, TypeOK, InputInv, SmallEdge, At
<1>2. PICK s \in x.edges :
         LET z == [x EXCEPT !.edges = @ \ {s}] IN
         /\ Incr(z.node, s)
         /\ Becomes(e, EdgesLeft(IF IncrIsReady(s) THEN TakeReady(z, s) ELSE z))
  BY DEF SmallEdge
<1> DEFINE z == [x EXCEPT !.edges = @ \ {s}]
           w == IF IncrIsReady(s) THEN TakeReady(z, s) ELSE z
           y == EdgesLeft(w)
<1>3. /\ x.node \in Tasks /\ s \in Downstream(x.node) /\ s \in Tasks
      /\ <<x.node, s>> \in HeldBy(x) /\ x.node \in Secured
  BY <1>1, <1>2 DEF Local, EdgesApart, EdgePcs, HeldBy, Downstream, InputAt, CountsOf
<1>4. IncrIsReady(s) => Deps[s] \subseteq Secured
  <2>1. counter[s] \in Nat /\ NumDeps(s) \in Nat
    BY <1>3, DepsFinite DEF ExecutorInv, TypeOK
  <2>2. IncrIsReady(s) => counter[s] = NumDeps(s) - 1
    BY <2>1 DEF IncrIsReady
  <2> QED
    BY <1>3, <2>2, TakenInputs
<1>5. /\ z \in Container /\ z.pc = x.pc /\ z.become = x.become /\ z.node = x.node
      /\ z.written = x.written /\ z.cached = x.cached /\ z.ready = x.ready /\ z.queue = x.queue
      /\ z.notReady = x.notReady
  BY <1>1 DEF Container
<1>6. /\ w \in Container /\ w.node = z.node /\ w.written = z.written /\ w.cached = z.cached
      /\ w.queue = z.queue
      /\ w.notReady = z.notReady
      /\ w.become = z.become \/ (IncrIsReady(s) /\ w.become = s)
      /\ w.ready = z.ready \/ (IncrIsReady(s) /\ w.ready = z.ready \cup {s})
  <2> HIDE DEF z
  <2> QED
    BY <1>3, <1>5 DEF TakeReady, Container
<1>7. /\ y.pc \in {"edges", "evict"} /\ y.become = w.become /\ y.node = w.node
      /\ y.written = w.written /\ y.cached = w.cached /\ y.ready = w.ready /\ y.queue = w.queue
      /\ y.notReady = w.notReady
  <2> HIDE DEF w
  <2> QED
    BY <1>6 DEF EdgesLeft, Container
<1>8. InputAt(y, Secured, counted')
  <2> HIDE DEF y, w, z
  <2>2. (UseTaskQueue \/ NoQueue(y)) /\ CountsOf(y, Secured, counted')
    BY <1>1, <1>3, <1>5, <1>6, <1>7 DEF InputAt, NoQueue, CountsOf, PullPcs, QueuePcs, GivingPcs
  <2>3. InputsOf(y, Secured)
    BY <1>1, <1>4, <1>5, <1>6, <1>7 DEF InputAt, InputsOf, PullPcs, QueuePcs, GivingPcs
  <2> QED
    BY <2>2, <2>3 DEF InputAt
<1>9. Incr(x.node, s) /\ Becomes(e, y)
  BY <1>2, <1>5
<1> QED
  BY <1>1, <1>3, <1>8, <1>9, NotGiving, InputCount DEF GivingPcs

(* To be evicted and to be invoked: every input is stored.                   *)
LEMMA InvokeLeftInput ==
    ASSUME NEW x \in Container, NEW s, NEW c, InputAt(x, s, c),
           x.pc \in {"evict", "invoke"}
    PROVE  InputAt(InvokeLeft(x), s, c)
<1>1. x.cached = {} /\ (x.become # None => Deps[x.become] \subseteq s)
  BY DEF InputAt, InputsOf, CountsOf
<1>2. CASE x.ready = {}
  BY <1>1, <1>2, AfterNodeInput DEF InvokeLeft, InputAt
<1>3. CASE x.ready # {}
  BY <1>3 DEF InvokeLeft, InputAt, NoQueue, InputsOf, CountsOf, PullPcs, QueuePcs, GivingPcs,
              Container
<1> QED
  BY <1>2, <1>3

(* Evicting cached outputs takes nothing away that is not in the KV store.   *)
LEMMA EvictInput ==
    ASSUME ExecutorInv, InputInv, NEW e \in Executors, Evict(e)
    PROVE  InputInv'
<1> DEFINE x == ex[e]
<1>1. /\ x \in Container /\ InputAt(x, Secured, counted) /\ x.pc = "evict"
      /\ store' = store /\ counted' = counted /\ pending' = pending
  BY DEF ExecutorInv, TypeOK, InputInv, Evict, redis, At
<1>3. PICK gone : Becomes(e, InvokeLeft([x EXCEPT !.prev = @ \ gone]))
  BY DEF Evict
<1> DEFINE z == [x EXCEPT !.prev = @ \ gone]
<1>4. z \in Container /\ z.pc = "evict" /\ InputAt(z, Secured, counted)
  BY <1>1 DEF InputAt, NoQueue, InputsOf, CountsOf, PullPcs, QueuePcs, GivingPcs,
              Container
<1>5. InputAt(InvokeLeft(z), Secured, counted)
  <2> HIDE DEF z
  <2> QED
    BY <1>4, InvokeLeftInput
<1> QED
  BY <1>1, <1>3, <1>5, InputQuiet DEF GivingPcs

(* An Executor is invoked for a task whose inputs are all stored.            *)
LEMMA InvokeInput ==
    ASSUME ExecutorInv, InputInv, NEW e \in Executors, Invoke(e)
    PROVE  InputInv'
<1> DEFINE x == ex[e]
<1>1. /\ x \in Container /\ InputAt(x, Secured, counted) /\ x.pc = "invoke"
      /\ store' = store /\ counted' = counted
  BY DEF ExecutorInv, TypeOK, InputInv, Invoke, redis, At
<1>2. PICK s \in x.ready : \E data :
         /\ pending' = pending \cup {[key |-> s, by |-> x.node, data |-> data,
                                       attempt |-> 0]}
         /\ Becomes(e, InvokeLeft([x EXCEPT !.ready = @ \ {s}]))
  BY DEF Invoke
<1>3. Deps[s] \subseteq Secured
  BY <1>1, <1>2 DEF InputAt, InputsOf, PullPcs, QueuePcs, GivingPcs
<1>4. \A i \in pending' : Deps[i.key] \subseteq Secured
  BY <1>2, <1>3 DEF InputInv, PendingSecured
<1> DEFINE z == [x EXCEPT !.ready = @ \ {s}]
<1>5. z \in Container /\ z.pc = "invoke" /\ InputAt(z, Secured, counted)
  BY <1>1 DEF InputAt, NoQueue, InputsOf, CountsOf, PullPcs, QueuePcs, GivingPcs,
              Container
<1>6. InputAt(InvokeLeft(z), Secured, counted)
  <2> HIDE DEF z
  <2> QED
    BY <1>5, InvokeLeftInput
<1> DEFINE y == InvokeLeft(z)
<1> HIDE DEF y
<1>7. GivesOn(x, y, store') /\ InputAt(y, Secured \cup GivenUpBy(y) \cup store', counted)
  BY <1>1, <1>6, NotGiving, MoreStored DEF GivingPcs, y
<1> QED
  BY <1>1, <1>2, <1>4, <1>7, InputMove DEF y
-----------------------------------------------------------------------------
(* process_big: only the big output itself may be missing from the KV store. *)

(* Another container state in process_big or with its pulled tasks.          *)
LEMMA PullingInput ==
    ASSUME NEW x, NEW y, NEW s, NEW c, InputAt(x, s, c), x.pc \in PullPcs, y.pc \in PullPcs,
           y.pc # "bigBook", y.pc = "bigIncr" => x.node \in s,
           y.become = x.become, y.node = x.node, x.prev \subseteq y.prev,
           y.written => x.written, y.cached \subseteq x.cached,
           UseTaskQueue \/ (y.queue = x.queue /\ y.notReady = x.notReady),
           \A t \in y.ready : t \in x.ready \/ Deps[t] \subseteq s \cup {x.node}
    PROVE  InputAt(y, s, c)
<1>1. UseTaskQueue \/ NoQueue(y)
  BY DEF InputAt, NoQueue, PullPcs, QueuePcs, GivingPcs
<1>2. InputsOf(y, s)
  BY DEF InputAt, InputsOf, PullPcs, QueuePcs, GivingPcs
<1>3. CountsOf(y, s, c)
  BY DEF InputAt, CountsOf, PullPcs
<1> QED
  BY <1>1, <1>2, <1>3 DEF InputAt

(* After an edge of a big output.                                            *)
LEMMA BigEdgesLeftInput ==
    ASSUME NEW x \in Container, NEW s, NEW c, InputAt(x, s, c), x.pc \in PullPcs
    PROVE  InputAt(BigEdgesLeft(x), s, c)
<1> DEFINE y == BigEdgesLeft(x)
<1>1. /\ y.pc \in {"bigDone", "bigGet"} /\ y.become = x.become
      /\ y.node = x.node /\ y.prev = x.prev /\ y.written = x.written /\ y.cached = x.cached
      /\ y.ready = x.ready
      /\ y.queue = x.queue /\ y.notReady = x.notReady
  BY DEF BigEdgesLeft, Container
<1> HIDE DEF y
<1>2. InputAt(y, s, c)
  BY <1>1, PullingInput DEF PullPcs
<1> QED
  BY <1>2 DEF y

(* A dependent is pulled down if every other input is counted, and the big   *)
(* output is written before it is counted.                                   *)
LEMMA BigEdgeInput ==
    ASSUME ExecutorInv, InputInv, NEW e \in Executors, BigEdge(e)
    PROVE  InputInv'
<1> DEFINE x == ex[e]
<1>1. /\ x \in Container /\ InputAt(x, Secured, counted) /\ x.pc = "bigGet" /\ Local(x)
      /\ store' = store /\ counted' = counted /\ pending' = pending
  BY DEF ExecutorInv, TypeOK, InputInv, BigEdge, redis, At
<1>2. PICK s \in x.edges :
         LET z == [x EXCEPT !.edges = @ \ {s}, !.edge = s] IN
         Becomes(e,
            CASE IsReady(s) -> [z EXCEPT !.pc = "bigBook", !.ready = @ \cup {s}]
              [] ~IsReady(s) /\ UseTaskQueue /\ ~MultipleBigTasksPossible(z.node, s) ->
                   BigEdgesLeft([z EXCEPT !.queue = @ \cup {[task |-> s, large |-> z.node]}])
              [] OTHER -> BigCount(z))
  BY ZenonT(60) DEF BigEdge
<1>3. LET z == [x EXCEPT !.edges = @ \ {s}, !.edge = s] IN
         \/ IsReady(s) /\ Becomes(e, [z EXCEPT !.pc = "bigBook", !.ready = @ \cup {s}])
         \/ Becomes(e, BigCount(z))
         \/ /\ UseTaskQueue
            /\ Becomes(e, BigEdgesLeft([z EXCEPT !.queue =
                                           @ \cup {[task |-> s, large |-> z.node]}]))
  BY <1>2
<1> DEFINE z == [x EXCEPT !.edges = @ \ {s}, !.edge = s]
           w == [z EXCEPT !.pc = "bigBook", !.ready = @ \cup {s}]
           y == BigCount(z)
           v == [z EXCEPT !.queue = @ \cup {[task |-> s, large |-> z.node]}]
<1>4. /\ x.node \in Tasks /\ s \in Downstream(x.node) /\ <<x.node, s>> \in HeldBy(x)
  BY <1>1, <1>3 DEF Local, EdgesApart, EdgePcs, HeldBy, Downstream
<1>5. InputAt(y, Secured, counted)
  <2>1. /\ y.pc = (IF x.written THEN "bigIncr" ELSE "bigStore") /\ y.become = x.become
        /\ y.node = x.node /\ y.prev = x.prev /\ y.written = x.written /\ y.cached = x.cached
        /\ y.ready = x.ready
        /\ y.queue = x.queue /\ y.notReady = x.notReady
    BY <1>1 DEF BigCount, Container
  <2>2. x.written => x.node \in Secured
    BY <1>1 DEF InputAt, CountsOf
  <2> HIDE DEF y
  <2> QED
    BY <1>1, <2>1, <2>2, PullingInput DEF PullPcs
<1>6. ASSUME IsReady(s)
      PROVE  InputAt(w, Secured, counted)
  <2>1. /\ Deps[s] \subseteq Secured \cup {x.node}
        /\ \A c \in Deps[s] \ {x.node} : <<c, s>> \in counted
    BY <1>4, <1>6, TakenInputs DEF IsReady
  <2>2. /\ w.pc = "bigBook" /\ w.become = x.become /\ w.node = x.node /\ w.edge = s
        /\ w.prev = x.prev /\ w.written = x.written /\ w.cached = x.cached
        /\ w.ready = x.ready \cup {s}
        /\ w.queue = x.queue /\ w.notReady = x.notReady
    BY <1>1 DEF Container
  <2> HIDE DEF w
  <2>3. (UseTaskQueue \/ NoQueue(w)) /\ CountsOf(w, Secured, counted)
    BY <1>1, <2>1, <2>2 DEF InputAt, NoQueue, CountsOf, PullPcs, QueuePcs, GivingPcs
  <2>4. InputsOf(w, Secured)
    BY <1>1, <2>1, <2>2 DEF InputAt, InputsOf, PullPcs, QueuePcs, GivingPcs
  <2> QED
    BY <2>3, <2>4 DEF InputAt
<1>7. ASSUME UseTaskQueue
      PROVE  InputAt(BigEdgesLeft(v), Secured, counted)
  <2>1. /\ z \in Container /\ z.pc = x.pc /\ z.become = x.become /\ z.node = x.node
        /\ z.prev = x.prev /\ z.written = x.written /\ z.cached = x.cached /\ z.ready = x.ready
    BY <1>1, <1>4 DEF Container, Downstream
  <2>3. [task |-> s, large |-> z.node] \in Delayed
    BY <1>4, <2>1 DEF Delayed, Downstream
  <2>4. /\ v \in Container /\ v.pc = z.pc /\ v.become = z.become /\ v.node = z.node
        /\ v.prev = z.prev /\ v.written = z.written /\ v.cached = z.cached /\ v.ready = z.ready
    <3> HIDE DEF z
    <3> QED BY <2>1, <2>3 DEF Container
  <2> HIDE DEF v, z
  <2>2. InputAt(v, Secured, counted)
    BY <1>1, <1>7, <2>1, <2>4, PullingInput DEF PullPcs
  <2> QED
    BY <1>1, <2>1, <2>2, <2>4, BigEdgesLeftInput DEF PullPcs
<1> QED
  BY <1>1, <1>3, <1>5, <1>6, <1>7, InputQuiet DEF GivingPcs

(* The book-keeping increment is the last one of its counter.                *)
LEMMA BigBookInput ==
    ASSUME ExecutorInv, InputInv, NEW e \in Executors, BigBook(e)
    PROVE  InputInv'
<1> DEFINE x == ex[e]
<1>1. /\ x \in Container /\ InputAt(x, Secured, counted) /\ x.pc = "bigBook"
      /\ Incr(x.node, x.edge) /\ pending' = pending
      /\ Becomes(e, BigEdgesLeft(x))
  BY DEF ExecutorInv, TypeOK, InputInv, BigBook, At
<1>2. \A c \in Deps[x.edge] \ {x.node} : <<c, x.edge>> \in counted
  BY <1>1 DEF InputAt, CountsOf
<1>3. InputAt(x, Secured, counted')
  BY <1>1, MoreStored DEF Incr
<1>4. InputAt(BigEdgesLeft(x), Secured, counted')
  BY <1>1, <1>3, BigEdgesLeftInput DEF PullPcs
<1> QED
  BY <1>1, <1>2, <1>4, NotGiving, InputCount DEF GivingPcs

(* process_big writes the big output, once and before counting any edge of it. *)
LEMMA BigStoreInput ==
    ASSUME ExecutorInv, InputInv, NEW e \in Executors, BigStore(e)
    PROVE  InputInv'
<1> DEFINE x == ex[e]
           y == [x EXCEPT !.pc = "bigIncr", !.written = TRUE]
<1>1. /\ x \in Container /\ InputAt(x, Secured, counted) /\ x.pc = "bigStore"
      /\ store' = store \cup {x.node} /\ counted' = counted /\ pending' = pending
      /\ Becomes(e, y)
  BY DEF ExecutorInv, TypeOK, InputInv, BigStore, StoreValue, At
<1>3. /\ y.pc = "bigIncr" /\ y.become = x.become /\ y.node = x.node /\ y.prev = x.prev
      /\ y.ready = x.ready /\ y.queue = x.queue /\ y.notReady = x.notReady
      /\ y.cached = x.cached
  BY <1>1 DEF Container
<1>4. InputAt(y, Secured \cup store', counted)
  <2> HIDE DEF y
  <2>1. (UseTaskQueue \/ NoQueue(y)) /\ CountsOf(y, Secured \cup store', counted)
    BY <1>1, <1>3 DEF InputAt, NoQueue, CountsOf, PullPcs, QueuePcs, GivingPcs
  <2>2. InputsOf(y, Secured \cup store')
    BY <1>1, <1>3 DEF InputAt, InputsOf, PullPcs, QueuePcs, GivingPcs
  <2> QED
    BY <2>1, <2>2 DEF InputAt
<1> QED
  BY <1>1, <1>4, InputWrites DEF GivingPcs

(* It counts the edge, and keeps the dependent when that fills the counter.  *)
LEMMA BigIncrInput ==
    ASSUME ExecutorInv, InputInv, NEW e \in Executors, BigIncr(e)
    PROVE  InputInv'
<1> DEFINE x == ex[e]
           w == IF IncrIsReady(x.edge) THEN [x EXCEPT !.ready = @ \cup {x.edge}] ELSE x
<1>1. /\ x \in Container /\ InputAt(x, Secured, counted) /\ x.pc = "bigIncr" /\ Local(x)
      /\ Incr(x.node, x.edge) /\ pending' = pending /\ Becomes(e, BigEdgesLeft(w))
  BY DEF ExecutorInv, TypeOK, InputInv, BigIncr, At
<1>2. /\ x.node \in Tasks /\ x.edge \in Downstream(x.node) /\ x.edge \in Tasks
      /\ <<x.node, x.edge>> \in HeldBy(x) /\ x.node \in Secured
  BY <1>1 DEF Local, EdgesApart, EdgePcs, BigPcs, HeldBy, Downstream, InputAt, CountsOf
<1>3. IncrIsReady(x.edge) => Deps[x.edge] \subseteq Secured \cup {x.node}
  <2>1. counter[x.edge] \in Nat /\ NumDeps(x.edge) \in Nat
    BY <1>2, DepsFinite DEF ExecutorInv, TypeOK
  <2>2. IncrIsReady(x.edge) => counter[x.edge] = NumDeps(x.edge) - 1
    BY <2>1 DEF IncrIsReady
  <2> QED
    BY <1>2, <2>2, TakenInputs
<1>4. /\ w \in Container /\ w.pc = x.pc /\ w.become = x.become /\ w.node = x.node
      /\ w.prev = x.prev /\ w.written = x.written /\ w.cached = x.cached
      /\ w.queue = x.queue /\ w.notReady = x.notReady
      /\ w.ready = x.ready \/ (IncrIsReady(x.edge) /\ w.ready = x.ready \cup {x.edge})
  BY <1>1, <1>2 DEF Container
<1>5. InputAt(x, Secured, counted')
  BY <1>1, MoreStored DEF Incr
<1>6. InputAt(w, Secured, counted')
  <2> HIDE DEF w
  <2> QED
    BY <1>1, <1>2, <1>3, <1>4, <1>5, PullingInput DEF PullPcs
<1>7. InputAt(BigEdgesLeft(w), Secured, counted')
  <2> HIDE DEF w
  <2> QED
    BY <1>1, <1>4, <1>6, BigEdgesLeftInput DEF PullPcs
<1> QED
  BY <1>1, <1>2, <1>7, NotGiving, InputCount DEF GivingPcs

(* After a task pulled down: with none left, nothing waits for the output.   *)
LEMMA PulledLeftInput ==
    ASSUME NEW x \in Container, NEW s, NEW c, InputAt(x, s, c), x.pc \in PullPcs
    PROVE  InputAt(PulledLeft(x), s, c)
<1> DEFINE y == PulledLeft(x)
<1>1. /\ y.pc = (IF x.ready = {} THEN "evict" ELSE "pull") /\ y.become = x.become
      /\ y.node = x.node /\ y.prev = x.prev /\ y.written = x.written /\ y.ready = x.ready
      /\ y.queue = x.queue /\ y.notReady = x.notReady /\ y.cached = x.cached
  BY DEF PulledLeft, Container
<1> HIDE DEF y
<1>2. CASE x.ready = {}
  <2>1. InputAt(y, s, c)
    BY <1>1, <1>2 DEF InputAt, NoQueue, InputsOf, CountsOf, PullPcs, QueuePcs, GivingPcs
  <2> QED
    BY <2>1 DEF y
<1>3. CASE x.ready # {}
  <2>1. InputAt(y, s, c)
    BY <1>1, <1>3, PullingInput DEF PullPcs
  <2> QED
    BY <2>1 DEF y
<1> QED
  BY <1>2, <1>3

(* It is done with the edges.                                                *)
LEMMA BigDoneInput ==
    ASSUME ExecutorInv, InputInv, NEW e \in Executors, BigDone(e)
    PROVE  InputInv'
<1> DEFINE x == ex[e]
<1>1. /\ x \in Container /\ InputAt(x, Secured, counted) /\ x.pc = "bigDone"
      /\ store' = store /\ counted' = counted /\ pending' = pending
      /\ Becomes(e, PulledLeft(x))
  BY DEF ExecutorInv, TypeOK, InputInv, BigDone, redis, At
<1>3. InputAt(PulledLeft(x), Secured, counted)
  BY <1>1, PulledLeftInput DEF PullPcs
<1> QED
  BY <1>1, <1>3, InputQuiet DEF GivingPcs

(* Executing a task pulled down keeps the big output cached.                 *)
LEMMA ExecutePulledInput ==
    ASSUME ExecutorInv, InputInv, NoRerun', NEW e \in Executors, ExecutePulled(e)
    PROVE  InputInv'
<1> DEFINE x == ex[e]
           Y(t) == Keep(RanReady(x, t), t)
           root(t) == [Y(t) EXCEPT !.nodes = x.nodes, !.noValue = x.noValue, !.cached = x.cached,
                                   !.pc = "pullSet", !.edge = t]
           other(t) == [Y(t) EXCEPT !.cached = x.cached \ {t}]
           fails(t) == Raises(x, t) \/ (Outcome(x, t) = "missing" /\ t \in Roots)
<1>1. /\ x \in Container /\ InputAt(x, Secured, counted) /\ x.pc = "pull"
      /\ store' = store /\ counted' = counted
  BY DEF ExecutorInv, TypeOK, InputInv, ExecutePulled, redis, At
<1>2. PICK t \in x.ready :
          /\ ProcessTask(x, t)
          /\ BecomesUnless(fails(t), e, x, IF t \in Roots THEN root(t) ELSE PulledLeft(other(t)))
  BY ZenonT(60) DEF ExecutePulled
<1>3. /\ pending' = pending
      /\ Becomes(e, Return(x)) \/ Becomes(e, root(t)) \/ Becomes(e, PulledLeft(other(t)))
  <2> HIDE DEF fails, root, other
  <2> QED
    BY <1>2, FailReturns DEF BecomesUnless
<1>4. t \in Tasks /\ t \notin Deps[t] /\ t \notin x.prev
  <2>1. t \in TokensOf(x)
    BY <1>1 DEF TokensOf, Container
  <2> QED
    BY <2>1, TokenFacts
<1> DEFINE y == Y(t)
           z == root(t)
           w == other(t)
<1>5. /\ y \in Container /\ x.prev \subseteq y.prev /\ y.pc = x.pc /\ y.become = x.become
      /\ y.node = x.node /\ y.written = x.written /\ y.ready = x.ready \ {t}
      /\ y.queue = x.queue /\ y.notReady = x.notReady /\ y.cached = x.cached
  <2> HIDE DEF x
  <2> QED
    BY <1>1, <1>4, ReadyKeeps
<1>6. x.cached = {} /\ x.nodes \subseteq Tasks /\ x.noValue \subseteq Tasks
  BY <1>1 DEF InputAt, CountsOf, Container
<1> HIDE DEF Y
<1>7. InputAt(Return(x), Secured, counted)
  BY <1>1, ReturnInput DEF InputAt
<1>8. InputAt(z, Secured, counted)
  <2>1. z = [y EXCEPT !.nodes = x.nodes, !.noValue = x.noValue, !.cached = x.cached,
                      !.pc = "pullSet", !.edge = t]
    OBVIOUS
  <2> HIDE DEF y, z, root
  <2>2. /\ z.pc = "pullSet" /\ z.become = y.become /\ z.node = y.node
        /\ z.prev = y.prev /\ z.written = y.written /\ z.ready = y.ready
        /\ z.queue = y.queue /\ z.notReady = y.notReady /\ z.cached = x.cached
    BY <1>5, <2>1 DEF Container
  <2> QED
    BY <1>1, <1>5, <2>2, PullingInput DEF PullPcs
<1>9. w \in Container /\ w.pc \in PullPcs /\ InputAt(w, Secured, counted)
  <2>1. w = [y EXCEPT !.cached = x.cached \ {t}]
    OBVIOUS
  <2> HIDE DEF y, w, other
  <2>2. /\ w \in Container /\ w.pc = y.pc /\ w.become = y.become /\ w.node = y.node
        /\ w.prev = y.prev /\ w.written = y.written /\ w.ready = y.ready
        /\ w.queue = y.queue /\ w.notReady = y.notReady /\ w.cached = {}
    BY <1>5, <1>6, <2>1 DEF Container
  <2> QED
    BY <1>1, <1>5, <1>6, <2>2, PullingInput DEF PullPcs
<1>10. InputAt(PulledLeft(w), Secured, counted)
  <2> HIDE DEF w, other
  <2> QED
    BY <1>9, PulledLeftInput
<1> QED
  BY <1>1, <1>3, <1>7, <1>8, <1>10, InputQuiet DEF GivingPcs

(* It writes the final result of a task it pulled down ...                   *)
LEMMA PulledSetInput ==
    ASSUME ExecutorInv, InputInv, NEW e \in Executors, PulledSet(e)
    PROVE  InputInv'
<1> DEFINE x == ex[e]
           y == [x EXCEPT !.pc = "pullMsg"]
<1>1. /\ x \in Container /\ InputAt(x, Secured, counted) /\ x.pc = "pullSet"
      /\ store' = store /\ counted' = counted /\ pending' = pending
      /\ Becomes(e, y)
  BY DEF ExecutorInv, TypeOK, InputInv, PulledSet, SetFinal, At
<1>3. /\ y.pc = "pullMsg" /\ y.become = x.become /\ y.node = x.node
      /\ y.prev = x.prev /\ y.written = x.written /\ y.cached = x.cached /\ y.ready = x.ready
      /\ y.queue = x.queue /\ y.notReady = x.notReady
  BY <1>1 DEF Container
<1>4. InputAt(y, Secured, counted)
  <2> HIDE DEF y
  <2> QED
    BY <1>1, <1>3, PullingInput DEF PullPcs
<1> QED
  BY <1>1, <1>4, InputQuiet DEF GivingPcs

(* ... and announces it.                                                     *)
LEMMA PulledMsgInput ==
    ASSUME ExecutorInv, InputInv, NEW e \in Executors, PulledMsg(e)
    PROVE  InputInv'
<1> DEFINE x == ex[e]
<1>1. /\ x \in Container /\ InputAt(x, Secured, counted) /\ x.pc = "pullMsg"
      /\ store' = store /\ counted' = counted /\ pending' = pending
      /\ Becomes(e, PulledLeft(x))
  BY DEF ExecutorInv, TypeOK, InputInv, PulledMsg, redis, At
<1>3. InputAt(PulledLeft(x), Secured, counted)
  BY <1>1, PulledLeftInput DEF PullPcs
<1> QED
  BY <1>1, <1>3, InputQuiet DEF GivingPcs
-----------------------------------------------------------------------------
(* The task queue.  What process_enqueued_tasks and its loop keep.           *)
QueueAt(x, s) ==
    /\ UseTaskQueue /\ ~x.written /\ x.cached = {}
    /\ x.become # None => Deps[x.become] \subseteq s
    /\ \A t \in x.ready : Deps[t] \subseteq s \cup x.prev

(* The invariant gives it at the steps of the queue, ...                     *)
LEMMA QueueAtOf ==
    ASSUME NEW x, NEW s, NEW c, InputAt(x, s, c), x.pc \in QueuePcs
    PROVE  QueueAt(x, s)
BY DEF InputAt, NoQueue, InputsOf, CountsOf, QueueAt, QueuePcs, GivingPcs, PullPcs

(* ... and follows from it, but for the book-keeping increment.              *)
LEMMA QueueAtGives ==
    ASSUME NEW x, NEW s, NEW c, QueueAt(x, s), x.pc \in QueuePcs, x.pc # "queueBook"
    PROVE  InputAt(x, s, c)
BY DEF InputAt, InputsOf, CountsOf, QueueAt, QueuePcs, GivingPcs, PullPcs

(* A pass over the task queue is over, ...                                   *)
LEMMA EndOfPassInput ==
    ASSUME NEW x \in Container, NEW s, NEW c, QueueAt(x, s), x.ready = {}
    PROVE  InputAt(EndOfPass(x), s, c)
<1>1. CASE ~x.looped
  BY <1>1 DEF EndOfPass, QueueAt, InputAt, InputsOf, CountsOf, QueuePcs, GivingPcs, PullPcs,
              Container
<1>2. CASE x.looped /\ (x.queue = {} \/ x.nodes # {})
  <2>1. InputAt(NextIteration(x), s, c)
    BY NextIterationInput DEF Between, QueueAt
  <2> QED
    BY <1>2, <2>1 DEF EndOfPass
<1>3. CASE x.looped /\ ~(x.queue = {} \/ x.nodes # {})
  <2> DEFINE y == [x EXCEPT !.tries = @ + 1,
                            !.pc = IF x.tries = MaxTries THEN "giveUp" ELSE "queueGet"]
  <2>1. /\ y.pc \in {"giveUp", "queueGet"} /\ y.become = x.become /\ y.ready = x.ready
        /\ y.prev = x.prev /\ y.written = x.written /\ y.cached = x.cached
    BY DEF Container
  <2>2. EndOfPass(x) = y
    BY <1>3 DEF EndOfPass
  <2> HIDE DEF y
  <2>3. QueueAt(y, s) /\ y.pc \in QueuePcs /\ y.pc # "queueBook"
    BY <2>1 DEF QueueAt, QueuePcs, GivingPcs
  <2> QED
    BY <2>2, <2>3, QueueAtGives
<1> QED
  BY <1>1, <1>2, <1>3

(* ... or goes on after one enqueued task.                                   *)
LEMMA QueueLeftInput ==
    ASSUME NEW x \in Container, NEW s, NEW c, QueueAt(x, s)
    PROVE  InputAt(QueueLeft(x), s, c)
<1>1. CASE x.queue # {}
  <2> DEFINE y == [x EXCEPT !.pc = "queueGet", !.edge = None, !.node = None]
  <2>1. /\ y.pc = "queueGet" /\ y.become = x.become /\ y.ready = x.ready
        /\ y.prev = x.prev /\ y.written = x.written /\ y.cached = x.cached
    BY DEF Container
  <2>2. QueueLeft(x) = y
    BY <1>1 DEF QueueLeft
  <2> HIDE DEF y
  <2>3. QueueAt(y, s) /\ y.pc \in QueuePcs /\ y.pc # "queueBook"
    BY <2>1 DEF QueueAt, QueuePcs
  <2> QED
    BY <2>2, <2>3, QueueAtGives
<1>2. CASE x.queue = {}
  <2> DEFINE y == [x EXCEPT !.queue = x.notReady, !.notReady = {}, !.edge = None, !.node = None]
             z == [y EXCEPT !.pc = "queueExec"]
  <2>1. /\ y \in Container /\ y.become = x.become /\ y.ready = x.ready
        /\ y.prev = x.prev /\ y.written = x.written /\ y.cached = x.cached
    BY DEF Container
  <2>2. QueueLeft(x) = IF x.ready = {} THEN EndOfPass(y) ELSE z
    BY <1>2 DEF QueueLeft
  <2>3. QueueAt(y, s)
    <3> HIDE DEF y
    <3> QED
      BY <2>1 DEF QueueAt
  <2>4. CASE x.ready = {}
    <3> HIDE DEF y
    <3>1. InputAt(EndOfPass(y), s, c)
      BY <2>1, <2>3, <2>4, EndOfPassInput
    <3> QED
      BY <2>2, <2>4, <3>1
  <2>5. CASE x.ready # {}
    <3>1. /\ z.pc = "queueExec" /\ z.become = y.become /\ z.ready = y.ready
          /\ z.prev = y.prev /\ z.written = y.written /\ z.cached = y.cached
      <4> HIDE DEF y
      <4> QED
        BY <2>1 DEF Container
    <3> HIDE DEF y, z
    <3>2. QueueAt(z, s) /\ z.pc \in QueuePcs /\ z.pc # "queueBook"
      BY <2>3, <3>1 DEF QueueAt, QueuePcs
    <3> QED
      BY <2>2, <2>5, <3>2, QueueAtGives
  <2> QED
    BY <2>4, <2>5
<1> QED
  BY <1>1, <1>2

(* get_nowait and the GET: the task waits for a big output that is kept.     *)
LEMMA QueueGetInput ==
    ASSUME ExecutorInv, KeptInv, InputInv, NEW e \in Executors, QueueGet(e)
    PROVE  InputInv'
<1> DEFINE x == ex[e]
<1>1. /\ x \in Container /\ QueueAt(x, Secured) /\ x.pc = "queueGet" /\ Local(x)
      /\ KeptAt(x, RanTasks, store)
      /\ store' = store /\ counted' = counted /\ pending' = pending
  <2>1. InputAt(x, Secured, counted) /\ x.pc = "queueGet"
    BY DEF InputInv, QueueGet, At
  <2> QED
    BY <2>1, KeptOf, QueueAtOf DEF QueueGet, redis, QueuePcs
<1>2. PICK i \in x.queue :
         LET z == Dequeue(x, i) IN
         Becomes(e, IF IsReady(i.task)
                    THEN [z EXCEPT !.pc = "queueBook", !.ready = @ \cup {i.task},
                                   !.edge = i.task, !.node = i.large]
                    ELSE QueueLeft([z EXCEPT !.notReady = @ \cup {i}]))
  BY ZenonT(60) DEF QueueGet
<1> DEFINE z == Dequeue(x, i)
           y == [z EXCEPT !.pc = "queueBook", !.ready = @ \cup {i.task},
                          !.edge = i.task, !.node = i.large]
           w == [z EXCEPT !.notReady = @ \cup {i}]
<1>3. /\ i \in Delayed /\ i.task \in Tasks /\ i.large \in Tasks
      /\ i.task \in Downstream(i.large) /\ <<i.large, i.task>> \in HeldBy(x)
      /\ i.large \in x.prev \cup Secured
  <2>1. i \in Delayed
    BY <1>1 DEF Container
  <2>2. i.large \in Deps[i.task] /\ i.large \in x.prev \cup store
    BY <1>1 DEF Local, QueueApart, KeptAt
  <2>3. i.task \in Tasks /\ i.large \in Tasks
    BY <2>1 DEF Delayed
  <2>4. <<i.large, i.task>> \in HeldBy(x)
    BY <2>3 DEF HeldBy
  <2> QED
    BY <2>1, <2>2, <2>3, <2>4 DEF Secured, Downstream
<1>4. /\ z \in Container /\ z.pc = x.pc /\ z.become = x.become /\ z.ready = x.ready
      /\ z.prev = x.prev /\ z.written = x.written /\ z.cached = x.cached
  BY <1>1 DEF Dequeue, Container
<1>5. CASE IsReady(i.task)
  <2>1. /\ Deps[i.task] \subseteq Secured \cup {i.large}
        /\ \A c \in Deps[i.task] \ {i.large} : <<c, i.task>> \in counted
    BY <1>3, <1>5, TakenInputs DEF IsReady
  <2>2. /\ y.pc = "queueBook" /\ y.become = z.become /\ y.ready = z.ready \cup {i.task}
        /\ y.prev = z.prev /\ y.written = z.written /\ y.cached = z.cached /\ y.edge = i.task
        /\ y.node = i.large
    <3> HIDE DEF z
    <3> QED
      BY <1>4 DEF Container
  <2>3. Becomes(e, y)
    BY <1>2, <1>5
  <2> HIDE DEF y, z
  <2>4. InputsOf(y, Secured)
    BY <1>1, <1>3, <1>4, <2>1, <2>2 DEF QueueAt, InputsOf, PullPcs, QueuePcs
  <2>5. UseTaskQueue /\ CountsOf(y, Secured, counted)
    BY <1>1, <1>4, <2>1, <2>2 DEF QueueAt, CountsOf, PullPcs
  <2> QED
    BY <1>1, <2>3, <2>4, <2>5, InputQuiet DEF InputAt, GivingPcs
<1>6. CASE ~IsReady(i.task)
  <2>1. /\ w \in Container /\ w.become = z.become /\ w.ready = z.ready
        /\ w.prev = z.prev /\ w.written = z.written /\ w.cached = z.cached
    <3> HIDE DEF z
    <3> QED
      BY <1>3, <1>4 DEF Container
  <2>2. Becomes(e, QueueLeft(w))
    BY <1>2, <1>6
  <2> HIDE DEF w, z
  <2>3. QueueAt(w, Secured)
    BY <1>1, <1>4, <2>1 DEF QueueAt
  <2> QED
    BY <1>1, <2>1, <2>2, <2>3, QueueLeftInput, InputQuiet DEF GivingPcs
<1> QED
  BY <1>5, <1>6

(* The book-keeping increment after it.                                      *)
LEMMA QueueBookInput ==
    ASSUME ExecutorInv, InputInv, NEW e \in Executors, QueueBook(e)
    PROVE  InputInv'
<1> DEFINE x == ex[e]
<1>1. /\ x \in Container /\ InputAt(x, Secured, counted) /\ x.pc = "queueBook"
      /\ Incr(x.node, x.edge) /\ pending' = pending /\ Becomes(e, QueueLeft(x))
  BY DEF ExecutorInv, TypeOK, InputInv, QueueBook, At
<1>2. \A c \in Deps[x.edge] \ {x.node} : <<c, x.edge>> \in counted
  BY <1>1 DEF InputAt, CountsOf
<1>3. QueueAt(x, Secured)
  BY <1>1, QueueAtOf DEF QueuePcs
<1>4. InputAt(QueueLeft(x), Secured, counted')
  BY <1>1, <1>3, QueueLeftInput
<1> QED
  BY <1>1, <1>2, <1>4, NotGiving, InputCount DEF GivingPcs

(* Executing an enqueued task keeps what is cached, or ends the pass.        *)
LEMMA ExecuteEnqueuedInput ==
    ASSUME ExecutorInv, InputInv, NoRerun', NEW e \in Executors, ExecuteEnqueued(e)
    PROVE  InputInv'
<1> DEFINE x == ex[e]
           Y(t) == Keep(RanReady(x, t), t)
           z == [x EXCEPT !.ready = {}]
           goesOn(t) == CASE HasResult(x, t) -> IF Y(t).ready = {} THEN EndOfPass(Y(t)) ELSE Y(t)
                          [] ~HasResult(x, t) /\ x.looped -> NextIteration(z)
                          [] OTHER -> Return(x)
<1>1. /\ x \in Container /\ QueueAt(x, Secured) /\ x.pc = "queueExec"
      /\ store' = store /\ counted' = counted
  <2>1. InputAt(x, Secured, counted) /\ x.pc = "queueExec"
    BY DEF InputInv, ExecuteEnqueued, At
  <2> QED
    BY <2>1, QueueAtOf DEF ExecutorInv, TypeOK, ExecuteEnqueued, redis, QueuePcs
<1>2. PICK t \in x.ready :
          ProcessTask(x, t) /\ BecomesUnless(EnqueuedFails(x, t), e, x, goesOn(t))
  BY ZenonT(60) DEF ExecuteEnqueued
<1> DEFINE y == Y(t)
<1>3. /\ pending' = pending
      /\ \/ (y.ready = {} /\ Becomes(e, EndOfPass(y))) \/ Becomes(e, y)
         \/ Becomes(e, NextIteration(z)) \/ Becomes(e, Return(x))
  <2>1. pending' = pending /\ (Becomes(e, goesOn(t)) \/ Becomes(e, Return(x)))
    <3> HIDE DEF goesOn
    <3> QED
      BY <1>2, FailReturns DEF BecomesUnless
  <2> HIDE DEF z, Y
  <2> QED
    BY <2>1
<1>4. t \in Tasks /\ t \notin Deps[t] /\ t \notin x.prev
  <2>1. t \in TokensOf(x)
    BY <1>1 DEF TokensOf, Container
  <2> QED
    BY <2>1, TokenFacts
<1>5. /\ y \in Container /\ x.prev \subseteq y.prev /\ y.pc = x.pc /\ y.become = x.become
      /\ y.written = x.written /\ y.ready = x.ready \ {t} /\ y.cached = x.cached
  <2> HIDE DEF x
  <2> QED
    BY <1>1, <1>4, ReadyKeeps
<1>7. QueueAt(y, Secured)
  <2> HIDE DEF y
  <2> QED
    BY <1>1, <1>5 DEF QueueAt
<1>8. InputAt(y, Secured, counted) /\ (y.ready = {} => InputAt(EndOfPass(y), Secured, counted))
  <2> HIDE DEF y
  <2> QED
    BY <1>1, <1>5, <1>7, QueueAtGives, EndOfPassInput DEF QueuePcs
<1>9. InputAt(NextIteration(z), Secured, counted)
  <2>1. z \in Container /\ z.ready = {} /\ z.written = x.written /\ z.become = x.become
        /\ z.cached = x.cached
    BY <1>1 DEF Container
  <2> HIDE DEF z
  <2> QED
    BY <1>1, <2>1, NextIterationInput DEF Between, QueueAt
<1>10. InputAt(Return(x), Secured, counted)
  BY <1>1, ReturnInput DEF QueueAt
<1> QED
  BY <1>1, <1>3, <1>8, <1>9, <1>10, InputQuiet DEF GivingPcs
-----------------------------------------------------------------------------
(* Giving up: what is counted and not written stays in still_not_ready.      *)
LEMMA GiveUpLeftInput ==
    ASSUME NEW x \in Container, NEW s, NEW c, QueueAt(x, s), x.pc \in GivingPcs
    PROVE  InputAt(GiveUpLeft(x), s, c) /\ GivenUpBy(x) \subseteq GivenUpBy(GiveUpLeft(x))
<1>1. CASE x.queue # {}
  <2>1. GiveUpLeft(x) = x
    BY <1>1 DEF GiveUpLeft
  <2> QED
    BY <2>1, QueueAtGives DEF QueuePcs, GivingPcs
<1>2. CASE x.queue = {} /\ x.ready = {} /\ x.notReady = {}
  <2>1. GiveUpLeft(x) = NextIteration(x)
    BY <1>2 DEF GiveUpLeft
  <2>2. InputAt(NextIteration(x), s, c)
    BY <1>2, NextIterationInput DEF Between, QueueAt
  <2> QED
    BY <1>2, <2>1, <2>2 DEF GivenUpBy
<1>3. ASSUME NEW p \in {"giveExec", "giveStore"}, GiveUpLeft(x) = [x EXCEPT !.pc = p]
      PROVE  InputAt(GiveUpLeft(x), s, c) /\ GivenUpBy(x) \subseteq GivenUpBy(GiveUpLeft(x))
  <2> DEFINE y == [x EXCEPT !.pc = p]
  <2>1. /\ y.pc = p /\ y.become = x.become /\ y.ready = x.ready
        /\ y.prev = x.prev /\ y.written = x.written /\ y.notReady = x.notReady
        /\ y.cached = x.cached
    BY DEF Container
  <2> HIDE DEF y
  <2>2. InputAt(y, s, c)
    BY <2>1, QueueAtGives DEF QueueAt, QueuePcs, GivingPcs
  <2>3. GivenUpBy(x) \subseteq GivenUpBy(y)
    BY <2>1 DEF GivenUpBy, GivingPcs
  <2> QED
    BY <1>3, <2>2, <2>3 DEF y
<1> QED
  BY <1>1, <1>2, <1>3 DEF GiveUpLeft

(* An edge is counted, although its output is not written: it will be,       *)
(* unless the task is taken along with the output.                           *)
LEMMA GiveUpInput ==
    ASSUME ExecutorInv, KeptInv, InputInv, NEW e \in Executors, GiveUp(e)
    PROVE  InputInv'
<1> DEFINE x == ex[e]
<1>1. /\ x \in Container /\ QueueAt(x, Secured) /\ x.pc = "giveUp" /\ Local(x)
      /\ KeptAt(x, RanTasks, store) /\ pending' = pending
  <2>1. InputAt(x, Secured, counted) /\ x.pc = "giveUp"
    BY DEF InputInv, GiveUp, At
  <2> QED
    BY <2>1, KeptOf, QueueAtOf DEF GiveUp, QueuePcs, GivingPcs
<1>2. PICK i \in x.queue :
         LET z == Dequeue(x, i) IN
         /\ Incr(i.large, i.task)
         /\ Becomes(e, GiveUpLeft(IF IncrIsReady(i.task)
                                  THEN [z EXCEPT !.ready = @ \cup {i.task}]
                                  ELSE [z EXCEPT !.notReady = @ \cup {i}]))
  BY DEF GiveUp
<1> DEFINE z == Dequeue(x, i)
           y == [z EXCEPT !.ready = @ \cup {i.task}]
           w == [z EXCEPT !.notReady = @ \cup {i}]
<1>3. /\ i \in Delayed /\ i.task \in Tasks /\ i.large \in Tasks
      /\ i.task \in Downstream(i.large) /\ <<i.large, i.task>> \in HeldBy(x)
      /\ i.large \in x.prev \cup Secured
  <2>1. i \in Delayed
    BY <1>1 DEF Container
  <2>2. i.large \in Deps[i.task] /\ i.large \in x.prev \cup store
    BY <1>1 DEF Local, QueueApart, KeptAt
  <2>3. i.task \in Tasks /\ i.large \in Tasks
    BY <2>1 DEF Delayed
  <2>4. <<i.large, i.task>> \in HeldBy(x)
    BY <2>3 DEF HeldBy
  <2> QED
    BY <2>1, <2>2, <2>3, <2>4 DEF Secured, Downstream
<1>4. /\ z \in Container /\ z.pc = x.pc /\ z.become = x.become /\ z.ready = x.ready
      /\ z.prev = x.prev /\ z.written = x.written /\ z.cached = x.cached /\ z.notReady = x.notReady
  BY <1>1 DEF Dequeue, Container
<1>5. CASE IncrIsReady(i.task)
  <2>1. counter[i.task] = NumDeps(i.task) - 1
    <3>1. counter[i.task] \in Nat /\ NumDeps(i.task) \in Nat
      BY <1>3, DepsFinite DEF ExecutorInv, TypeOK
    <3> QED
      BY <1>5, <3>1 DEF IncrIsReady
  <2>2. /\ Deps[i.task] \subseteq Secured \cup {i.large}
        /\ \A c \in Deps[i.task] \ {i.large} : <<c, i.task>> \in counted
    BY <1>3, <2>1, TakenInputs
  <2>3. /\ y \in Container /\ y.pc = z.pc /\ y.become = z.become
        /\ y.ready = z.ready \cup {i.task}
        /\ y.prev = z.prev /\ y.written = z.written /\ y.cached = z.cached
        /\ y.notReady = z.notReady
    <3> HIDE DEF z
    <3> QED
      BY <1>3, <1>4 DEF Container
  <2>4. Becomes(e, GiveUpLeft(y))
    BY <1>2, <1>5
  <2> HIDE DEF y, z
  <2>5. QueueAt(y, Secured) /\ y.pc \in GivingPcs
    BY <1>1, <1>3, <1>4, <2>2, <2>3 DEF QueueAt, GivingPcs
  <2>6. GivenUpBy(x) \subseteq GivenUpBy(y)
    BY <1>4, <2>3 DEF GivenUpBy
  <2>7. /\ InputAt(GiveUpLeft(y), Secured, counted')
        /\ GivesOn(x, GiveUpLeft(y), store)
    BY <2>3, <2>5, <2>6, GiveUpLeftInput DEF GivesOn
  <2> QED
    BY <1>1, <1>2, <1>3, <2>2, <2>4, <2>7, InputCount
<1>6. CASE ~IncrIsReady(i.task)
  <2>1. /\ w \in Container /\ w.pc = z.pc /\ w.become = z.become /\ w.ready = z.ready
        /\ w.prev = z.prev /\ w.written = z.written /\ w.cached = z.cached
        /\ w.notReady = z.notReady \cup {i}
    <3> HIDE DEF z
    <3> QED
      BY <1>3, <1>4 DEF Container
  <2>2. Becomes(e, GiveUpLeft(w))
    BY <1>2, <1>6
  <2> HIDE DEF w, z
  <2>3. QueueAt(w, Secured) /\ w.pc \in GivingPcs
    BY <1>1, <1>4, <2>1 DEF QueueAt, GivingPcs
  <2>4. GivenUpBy(x) \subseteq GivenUpBy(w) /\ i.large \in GivenUpBy(w)
    BY <1>3, <1>4, <2>1, <2>3 DEF GivenUpBy
  <2>5. /\ InputAt(GiveUpLeft(w), Secured, counted') /\ i.large \in GivenUpBy(GiveUpLeft(w))
        /\ GivesOn(x, GiveUpLeft(w), store)
    BY <2>1, <2>3, <2>4, GiveUpLeftInput DEF GivesOn
  <2> QED
    BY <1>1, <1>2, <1>3, <2>2, <2>5, InputCount
<1> QED
  BY <1>5, <1>6

(* Two Executors may give up at once, and then one may run a task whose      *)
(* other input the other has counted and not written yet: it finds nothing,  *)
(* returns, and never writes what it has counted itself.  This condition     *)
(* says that it does not happen.                                             *)
GiveUpsApart ==
    \A e, f \in Executors : e # f /\ At(e, "giveExec") =>
        \A t \in ex[e].ready : Deps[t] \cap GivenUpBy(ex[f]) \subseteq ex[e].prev \cup store

(* The task that has become ready is run, and those given up are still there. *)
LEMMA GiveUpExecuteInput ==
    ASSUME ExecutorInv, KeptInv, InputInv, NoErrors, GiveUpsApart, NoRerun', NEW e \in Executors,
           GiveUpExecute(e)
    PROVE  InputInv'
<1> DEFINE x == ex[e]
           Y(t) == Keep(RanReady(x, t), t)
           fails(t) == Raises(x, t) \/ (~HasResult(x, t) /\ x.nodes = {})
<1>1. /\ x \in Container /\ QueueAt(x, Secured) /\ x.pc = "giveExec"
      /\ KeptAt(x, RanTasks, store)
      /\ store' = store /\ counted' = counted
  <2>1. InputAt(x, Secured, counted) /\ x.pc = "giveExec"
    BY DEF InputInv, GiveUpExecute, At
  <2> QED
    BY <2>1, KeptOf, QueueAtOf DEF GiveUpExecute, redis, QueuePcs, GivingPcs
<1>2. PICK t \in x.ready :
          /\ ProcessTask(x, t)
          /\ BecomesUnless(fails(t), e, x,
                GiveUpLeft(IF HasResult(x, t) THEN Y(t) ELSE RanReady(x, t)))
  BY ZenonT(60) DEF GiveUpExecute
<1>3. t \in Tasks /\ t \notin Deps[t] /\ t \notin x.prev
  <2>1. t \in TokensOf(x)
    BY <1>1 DEF TokensOf, Container
  <2> QED
    BY <2>1, TokenFacts
<1>4. ASSUME NEW d \in Deps[t]
      PROVE  d \in x.prev \cup store
  <2>1. CASE d \in x.prev \cup store
    BY <2>1
  <2>2. ASSUME NEW f \in Executors, d \in GivenUpBy(ex[f])
        PROVE  d \in x.prev \cup store
    <3>1. CASE f = e
      BY <1>1, <2>2, <3>1 DEF GivenUpBy, KeptAt
    <3>2. CASE f # e
      BY <1>1, <1>2, <1>4, <2>2, <3>2 DEF GiveUpsApart, At
    <3> QED
      BY <3>1, <3>2
  <2>3. d \in Secured \cup x.prev
    BY <1>1, <1>2, <1>4 DEF QueueAt
  <2> QED
    BY <2>1, <2>2, <2>3, SecuredIs
<1>5. Outcome(x, t) = "ok"
  BY <1>4, <1>3 DEF Outcome, Readable, NoErrors
<1> DEFINE y == Y(t)
<1>6. Becomes(e, GiveUpLeft(y)) /\ pending' = pending
  <2>1. HasResult(x, t) /\ ~fails(t)
    BY <1>5 DEF HasResult, Raises
  <2> HIDE DEF fails, Y
  <2> QED
    BY <1>2, <2>1 DEF BecomesUnless
<1>9. /\ y \in Container /\ x.prev \subseteq y.prev /\ y.pc = x.pc /\ y.become = x.become
      /\ y.written = x.written /\ y.ready = x.ready \ {t} /\ y.notReady = x.notReady
      /\ y.cached = x.cached
  <2> HIDE DEF x
  <2> QED
    BY <1>1, <1>3, ReadyKeeps
<1> HIDE DEF y, Y
<1>10. QueueAt(y, Secured) /\ y.pc \in GivingPcs
  BY <1>1, <1>9 DEF QueueAt, GivingPcs
<1>11. GivenUpBy(x) \subseteq GivenUpBy(y)
  BY <1>9 DEF GivenUpBy
<1>12. InputAt(GiveUpLeft(y), Secured, counted) /\ GivesOn(x, GiveUpLeft(y), store')
  BY <1>9, <1>10, <1>11, GiveUpLeftInput DEF GivesOn
<1>13. InputAt(GiveUpLeft(y), Secured \cup GivenUpBy(GiveUpLeft(y)) \cup store', counted)
  BY <1>12, MoreStored
<1>14. \A i \in pending' : Deps[i.key] \subseteq Secured
  BY <1>6 DEF InputInv, PendingSecured
<1> QED
  BY <1>1, <1>6, <1>12, <1>13, <1>14, InputMove

(* A counted output is written: it is secured all along.                     *)
LEMMA GiveUpStoreInput ==
    ASSUME ExecutorInv, InputInv, NEW e \in Executors, GiveUpStore(e)
    PROVE  InputInv'
<1> DEFINE x == ex[e]
<1>1. /\ x \in Container /\ QueueAt(x, Secured) /\ x.pc = "giveStore"
      /\ counted' = counted /\ pending' = pending
  <2>1. InputAt(x, Secured, counted) /\ x.pc = "giveStore"
    BY DEF InputInv, GiveUpStore, At
  <2> QED
    BY <2>1, QueueAtOf DEF ExecutorInv, TypeOK, GiveUpStore, StoreValue, QueuePcs, GivingPcs
<1>2. PICK i \in x.notReady :
         /\ store' = store \cup {i.large}
         /\ Becomes(e, GiveUpLeft([x EXCEPT !.notReady = @ \ {i}]))
  BY DEF GiveUpStore, StoreValue
<1> DEFINE y == [x EXCEPT !.notReady = @ \ {i}]
<1>3. /\ y \in Container /\ y.pc = x.pc /\ y.become = x.become /\ y.ready = x.ready
      /\ y.prev = x.prev /\ y.written = x.written /\ y.cached = x.cached
      /\ y.notReady = x.notReady \ {i}
  BY <1>1 DEF Container
<1>4. Becomes(e, GiveUpLeft(y))
  BY <1>2
<1> HIDE DEF y
<1>5. QueueAt(y, Secured) /\ y.pc \in GivingPcs
  BY <1>1, <1>3 DEF QueueAt, GivingPcs
<1>6. GivenUpBy(x) \subseteq store' \cup GivenUpBy(y)
  BY <1>2, <1>3 DEF GivenUpBy
<1>7. InputAt(GiveUpLeft(y), Secured, counted) /\ GivesOn(x, GiveUpLeft(y), store')
  BY <1>3, <1>5, <1>6, GiveUpLeftInput DEF GivesOn
<1>8. InputAt(GiveUpLeft(y), Secured \cup GivenUpBy(GiveUpLeft(y)) \cup store', counted)
  BY <1>7, MoreStored
<1>9. \A j \in pending' : Deps[j.key] \subseteq Secured
  BY <1>1 DEF InputInv, PendingSecured
<1> QED
  BY <1>1, <1>2, <1>4, <1>7, <1>8, <1>9, InputMove
-----------------------------------------------------------------------------
(* The leaves are invoked, and have no inputs.                               *)
LEMMA InitInput == Init => InputInv
<1> SUFFICES ASSUME Init PROVE InputInv
  OBVIOUS
<1>1. CountedSecured
  BY DEF Init, CountedSecured
<1>2. PendingSecured
  BY DEF Init, PendingSecured
<1>3. ASSUME NEW e \in Executors PROVE InputAt(ex[e], Secured, counted)
  BY DEF Init, Idle, InputAt, NoQueue, InputsOf, CountsOf, PullPcs, QueuePcs, GivingPcs
<1> QED
  BY <1>1, <1>2, <1>3 DEF InputInv

(* The steps that a system without a task queue has, too.                    *)
PathStep(e) ==
    \/ Start(e) \/ ExecuteCurrent(e) \/ SelectNode(e) \/ EndOfNodes(e)
    \/ RootSet(e) \/ RootMsg(e) \/ Save(e)
    \/ PeekBecome(e) \/ SmallStore(e) \/ SmallEdge(e) \/ Evict(e) \/ Invoke(e)
    \/ BigEdge(e) \/ BigBook(e) \/ BigStore(e) \/ BigIncr(e) \/ BigDone(e)
    \/ ExecutePulled(e) \/ PulledSet(e) \/ PulledMsg(e)

(* They keep the invariant under no further condition.                       *)
LEMMA PathStepInput ==
    ASSUME ExecutorInv, InputInv, NoRerun', NEW e \in Executors, PathStep(e)
    PROVE  InputInv'
BY StartInput, ExecuteCurrentInput, SelectNodeInput, EndOfNodesInput, RootSetInput, RootMsgInput,
   SaveInput, PeekBecomeInput, SmallStoreInput, SmallEdgeInput, EvictInput, InvokeInput,
   BigEdgeInput, BigBookInput, BigStoreInput, BigIncrInput, BigDoneInput, ExecutePulledInput,
   PulledSetInput, PulledMsgInput DEF PathStep

(* So does a step that changes nothing.                                      *)
LEMMA StutterInput ==
    ASSUME InputInv, UNCHANGED vars
    PROVE  InputInv'
<1>1. Secured' = Secured
  BY DEF vars, redis, Secured, BeingGivenUp
<1> QED
  BY <1>1 DEF vars, redis, InputInv, CountedSecured, PendingSecured

(* Every step keeps the invariant, while the outputs that are waited for are *)
(* kept and no Executor needs what another one gives up.                     *)
LEMMA NextInput ==
    /\ ExecutorInv /\ KeptInv /\ InputInv /\ NoErrors /\ GiveUpsApart
    /\ NoRerun' /\ [Next]_vars
    => InputInv'
<1> SUFFICES ASSUME ExecutorInv, KeptInv, InputInv, NoErrors, GiveUpsApart, NoRerun', [Next]_vars
             PROVE  InputInv'
  OBVIOUS
<1>1. ASSUME NEW e \in Executors, Start(e) \/ Step(e)
      PROVE  InputInv'
  <2>1. \/ PathStep(e) \/ QueueGet(e) \/ QueueBook(e) \/ ExecuteEnqueued(e)
        \/ GiveUp(e) \/ GiveUpExecute(e) \/ GiveUpStore(e)
    BY <1>1 DEF Step, PathStep
  <2> QED
    BY <2>1, PathStepInput, QueueGetInput, QueueBookInput, ExecuteEnqueuedInput, GiveUpInput,
       GiveUpExecuteInput, GiveUpStoreInput
<1> QED
  BY <1>1, StutterInput DEF Next

(* What values the tasks have never changes.                                 *)
LEMMA ResultStays ==
    ASSUME NEW e \in Executors, Start(e) \/ Step(e)
    PROVE  result' = result
<1>1. CASE Start(e) \/ ExecuteCurrent(e)
  BY ZenonT(30), <1>1 DEF Start, ExecuteCurrent
<1>2. CASE SelectNode(e) \/ EndOfNodes(e)
  BY ZenonT(30), <1>2 DEF SelectNode, EndOfNodes
<1>3. CASE RootSet(e) \/ RootMsg(e)
  BY ZenonT(30), <1>3 DEF RootSet, RootMsg
<1>4. CASE Save(e) \/ PeekBecome(e)
  BY ZenonT(30), <1>4 DEF Save, PeekBecome
<1>5. CASE SmallStore(e) \/ SmallEdge(e)
  BY ZenonT(30), <1>5 DEF SmallStore, SmallEdge
<1>6. CASE Evict(e) \/ Invoke(e)
  BY ZenonT(30), <1>6 DEF Evict, Invoke
<1>7. CASE BigEdge(e) \/ BigBook(e)
  BY ZenonT(30), <1>7 DEF BigEdge, BigBook
<1>8. CASE BigStore(e) \/ BigIncr(e)
  BY ZenonT(30), <1>8 DEF BigStore, BigIncr
<1>9. CASE BigDone(e) \/ ExecutePulled(e)
  BY ZenonT(30), <1>9 DEF BigDone, ExecutePulled
<1>10. CASE PulledSet(e) \/ PulledMsg(e)
  BY ZenonT(30), <1>10 DEF PulledSet, PulledMsg
<1>11. CASE QueueGet(e) \/ QueueBook(e)
  BY ZenonT(30), <1>11 DEF QueueGet, QueueBook
<1>12. CASE ExecuteEnqueued(e) \/ GiveUp(e)
  BY ZenonT(30), <1>12 DEF ExecuteEnqueued, GiveUp
<1>13. CASE GiveUpExecute(e) \/ GiveUpStore(e)
  BY ZenonT(30), <1>13 DEF GiveUpExecute, GiveUpStore
<1> QED
  BY <1>1, <1>2, <1>3, <1>4, <1>5, <1>6, <1>7, <1>8,
     <1>9, <1>10, <1>11, <1>12, <1>13 DEF Step

(* So a job without errors stays one.                                        *)
LEMMA ErrorsStay == [Next]_vars => (NoErrors' <=> NoErrors)
<1>1. ASSUME NEW e \in Executors, Start(e) \/ Step(e) PROVE result' = result
  BY <1>1, ResultStays
<1>2. [Next]_vars => result' = result
  BY <1>1 DEF Next, vars
<1> QED
  BY <1>2 DEF NoErrors, Failing, NoneTasks

(* With a task queue, in a job without errors, the only inputs that can be   *)
(* missing are those an Executor has given up waiting with and is about to   *)
(* write; under the two conditions above, without the second of which an     *)
(* Executor may die of such an input and leave its own outputs unwritten,    *)
(* and as long as AWS has run no failed event again.                         *)
THEOREM OnlyGivenUpInputsMissingHolds ==
    Spec /\ []QueueWorkedOff /\ []GiveUpsApart => [](NoRerun => OnlyGivenUpInputsMissing)
<1>1. InputInv => OnlyGivenUpInputsMissing
  <2> SUFFICES ASSUME InputInv, NEW e \in Executors, NEW t \in AboutToRun(ex[e])
               PROVE  Deps[t] \subseteq ex[e].prev \cup Readable \cup BeingGivenUp
    BY UnaffectedTasks DEF OnlyGivenUpInputsMissing
  <2>1. InputAt(ex[e], Secured, counted)
    BY DEF InputInv
  <2> QED
    BY <2>1 DEF AboutToRun, InputAt, InputsOf, Secured, Readable, PullPcs, QueuePcs, GivingPcs
<1>2. Init => ExecutorInv /\ KeptInv /\ InputInv
  BY InitInv, KeptInit, InitInput
<1>3. ~NoErrors => OnlyGivenUpInputsMissing
  BY DEF OnlyGivenUpInputsMissing
<1>4. [Next]_vars /\ NoRerun' => NoRerun
  BY RerunGrows DEF NoRerun
<1> QED
  BY <1>1, <1>2, <1>3, <1>4, ErrorsStay, ExecutorInvHolds, KeptNext, NextInput, PTL DEF Spec
-----------------------------------------------------------------------------
(* Without a task queue: nothing is enqueued or given up, and the inputs of  *)
(* what a container took are stored.                                         *)
DirectAt(x, stored, done) ==
    NoQueue(x) /\ InputsOf(x, stored) /\ CountsOf(x, stored, done)
DirectInv == InputInv /\ \A e \in Executors : DirectAt(ex[e], store, counted)

(* Then whatever is secured is stored.                                       *)
LEMMA InputDirect == ~UseTaskQueue /\ InputInv => DirectInv
<1> SUFFICES ASSUME ~UseTaskQueue, InputInv PROVE DirectInv
  OBVIOUS
<1>1. \A e \in Executors : InputAt(ex[e], Secured, counted) /\ NoQueue(ex[e])
  BY DEF InputInv, InputAt
<1>2. Secured = store
  BY <1>1 DEF Secured, BeingGivenUp, NoQueue
<1> QED
  BY <1>1, <1>2 DEF DirectInv, DirectAt, InputAt

(* The steps of the task queue cannot be reached.                            *)
LEMMA NoQueueStep ==
    ASSUME DirectInv, NEW e \in Executors
    PROVE  /\ ~QueueGet(e) /\ ~QueueBook(e) /\ ~ExecuteEnqueued(e)
           /\ ~GiveUp(e) /\ ~GiveUpExecute(e) /\ ~GiveUpStore(e)
<1>1. ex[e].pc \notin QueuePcs
  BY DEF DirectInv, DirectAt, NoQueue
<1>2. ~QueueGet(e) /\ ~QueueBook(e) /\ ~ExecuteEnqueued(e)
  BY ZenonT(30), <1>1 DEF QueuePcs, At, QueueGet, QueueBook, ExecuteEnqueued
<1>3. ~GiveUp(e) /\ ~GiveUpExecute(e) /\ ~GiveUpStore(e)
  BY ZenonT(30), <1>1 DEF QueuePcs, GivingPcs, At, GiveUp, GiveUpExecute, GiveUpStore
<1> QED
  BY <1>2, <1>3

(* It holds at the start.                                                    *)
LEMMA InitDirect ==
    ASSUME ~UseTaskQueue
    PROVE  Init => DirectInv
BY InitInput, InputDirect

(* Every step of a system without a task queue keeps the invariant.          *)
LEMMA NextDirect ==
    ASSUME ~UseTaskQueue
    PROVE  ExecutorInv /\ DirectInv /\ NoRerun' /\ [Next]_vars => DirectInv'
<1>1. ASSUME ExecutorInv, DirectInv, NoRerun', [Next]_vars
      PROVE  InputInv'
  <2>1. ASSUME NEW e \in Executors, Start(e) \/ Step(e)
        PROVE  InputInv'
    <3>1. PathStep(e)
      BY <1>1, <2>1, NoQueueStep DEF Step, PathStep
    <3> QED
      BY <1>1, <3>1, PathStepInput DEF DirectInv
  <2> QED
    BY <1>1, <2>1, StutterInput DEF Next, DirectInv
<1>2. ~UseTaskQueue /\ InputInv' => DirectInv'
  BY InputDirect, PTL
<1> QED
  BY <1>1, <1>2

(* Without a task queue and as long as AWS has run no failed event again,    *)
(* DirectInv holds in every state.                                           *)
THEOREM DirectInvHolds ==
    ASSUME ~UseTaskQueue
    PROVE  Spec => [](NoRerun => ExecutorInv /\ DirectInv)
<1>1. Init => ExecutorInv /\ DirectInv
  BY InitInv, InitDirect
<1>2. ExecutorInv /\ DirectInv /\ NoRerun' /\ [Next]_vars => (ExecutorInv /\ DirectInv)'
  BY NextInv, NextDirect
<1>3. [Next]_vars /\ NoRerun' => NoRerun
  BY RerunGrows DEF NoRerun
<1> QED
  BY <1>1, <1>2, <1>3, PTL DEF Spec

(* InputsAvailable for every DAG, every assignment of sizes, errors and None *)
(* to its tasks and any number of Executors, without a task queue: whichever *)
(* way an Executor came to a task, get_data_from_redis finds its inputs, as  *)
(* long as AWS has run no failed event again.                                *)
THEOREM InputsAvailableHolds ==
    ASSUME ~UseTaskQueue
    PROVE  Spec => [](NoRerun => InputsAvailable)
<1>1. ASSUME DirectInv PROVE InputsAvailable
  <2> SUFFICES ASSUME NEW e \in Executors, NEW t \in AboutToRun(ex[e])
               PROVE  Deps[t] \subseteq ex[e].prev \cup Readable
    BY UnaffectedTasks DEF InputsAvailable
  <2>1. DirectAt(ex[e], store, counted)
    BY <1>1 DEF DirectInv
  <2> QED
    BY <2>1 DEF AboutToRun, DirectAt, NoQueue, InputsOf, Readable, PullPcs, QueuePcs,
       GivingPcs
<1> QED
  BY <1>1, DirectInvHolds, PTL
-----------------------------------------------------------------------------
(* Without errors and outputs of None, the containers implement the protocol *)
(* of FanIn step by step.                                                    *)

(* What this needs beside the invariants above: no output is None, a node    *)
(* that is processed has run, and no become node is chosen when a path ends. *)
CleanAt(x, ran) ==
    /\ x.noValue = {}
    /\ \A n \in x.nodes : ran[n] = 1
    /\ x.pc \in EdgePcs => ran[x.node] = 1
    /\ x.pc \in {"peek", "rootSet", "rootMsg", "save"} => x.become = None
(* The same of all containers, where every task has a value.                 *)
CleanInv ==
    /\ \A t \in Tasks : result[t] \in {"small", "big"}
    /\ \A e \in Executors : CleanAt(ex[e], runs)
(* The invariant under which every step maps to a step of FanIn or to none.  *)
RefinementInv == ExecutorInv /\ DirectInv /\ CleanInv /\ NoRerun

(* Somebody runs t or has run it.                                            *)
Taken(t) == runs[t] > 0 \/ HasToken(t)

(* The number of claims on a task, read off the invariant.                   *)
LEMMA ClaimsValue ==
    ASSUME ExecutorInv, NEW t \in Tasks
    PROVE  Claims(t) = IF Taken(t) THEN 1 ELSE 0
<1> DEFINE P == {i \in pending : i.key = t}
           A == {e \in Executors : At(e, "task") /\ ex[e].cur = t}
           B == {e \in Executors : ex[e].become = t}
           C == {e \in Executors : t \in ex[e].ready}
<1>1. Claims(t) = runs[t] + Cardinality(P) + Cardinality(A) + Cardinality(B) + Cardinality(C)
  BY DEF Claims
<1>2. Claims(t) <= 1
  BY ClaimsOne DEF NoDoubleExecution
<1>3. HasToken(t) <=> P # {} \/ A # {} \/ B # {} \/ C # {}
  BY DEF HasToken, TokensOf, At
<1>4. \A e \in A \cup B \cup C : e \in Executors /\ t \in TokensOf(ex[e])
  BY DEF TokensOf, At
<1>5. \A e, f \in A \cup B \cup C : e = f
  BY <1>4 DEF ExecutorInv, ProtocolInv, OneToken
<1>6. \A i, j \in P : i = j
  BY DEF ExecutorInv, ProtocolInv, OneToken
<1>7. runs[t] \in {0, 1}
  BY DEF ExecutorInv, ProtocolInv, RunOnce
<1> HIDE DEF P, A, B, C
<1>8. /\ Cardinality(P) \in {0, 1} /\ (Cardinality(P) = 0 <=> P = {})
      /\ Cardinality(A) \in {0, 1} /\ (Cardinality(A) = 0 <=> A = {})
      /\ Cardinality(B) \in {0, 1} /\ (Cardinality(B) = 0 <=> B = {})
      /\ Cardinality(C) \in {0, 1} /\ (Cardinality(C) = 0 <=> C = {})
  <2>1. /\ \A a, b \in A : a = b
        /\ \A a, b \in B : a = b
        /\ \A a, b \in C : a = b
    BY <1>5
  <2>2. ASSUME NEW S, \A a, b \in S : a = b
        PROVE  Cardinality(S) \in {0, 1} /\ (Cardinality(S) = 0 <=> S = {})
    <3>1. CASE S = {}
      BY <3>1, FS_EmptySet
    <3>2. CASE S # {}
      <4>1. PICK a \in S : TRUE
        BY <3>2
      <4>2. S = {a}
        BY <2>2, <4>1
      <4> QED
        BY <4>2, FS_Singleton
    <3> QED
      BY <3>1, <3>2
  <2> QED
    BY <1>6, <2>1, <2>2
<1> QED
  BY <1>1, <1>2, <1>3, <1>7, <1>8 DEF Taken

(* The claims on every task, as the refinement mapping counts them.          *)
ClaimsAreTaken == \A t \in Tasks : Claims(t) = IF Taken(t) THEN 1 ELSE 0

(* It holds in this state ...                                                *)
LEMMA ClaimsTaken == ExecutorInv => ClaimsAreTaken
BY ClaimsValue DEF ClaimsAreTaken

(* ... and in the next.                                                      *)
LEMMA ClaimsTakenNext == ExecutorInv' => ClaimsAreTaken'
BY ClaimsTaken, PTL

(* Without errors the held edges are those of the containers.                *)
LEMMA HeldValue ==
    ASSUME CleanInv
    PROVE  \A g : g \in Held <=> HeldEdge(g)
BY DEF CleanInv, Held, HeldEdge, Failing

(* What a step of e that takes its record from ex[e] to y leaves alone.      *)
LEMMA HeldAfter ==
    ASSUME ExecutorInv, CleanInv, result' = result, NEW e \in Executors, NEW y, Becomes(e, y)
    PROVE  /\ \A g : g \in Held' <=>
                 (g \in HeldBy(y) \/ \E f \in Executors \ {e} : g \in HeldBy(ex[f]))
           /\ \A g \in HeldBy(ex[e]) : \A f \in Executors \ {e} : g \notin HeldBy(ex[f])
<1>1. \A f \in Executors : ex'[f] = IF f = e THEN y ELSE ex[f]
  BY OneMoves DEF ExecutorInv, TypeOK
<1>2. \A g : g \in Held' <=> \E f \in Executors : g \in HeldBy(ex'[f])
  BY DEF CleanInv, Held, Failing
<1> QED
  BY <1>1, <1>2 DEF ExecutorInv, ProtocolInv, HeldOnce

(* A step that moves tokens and edges, or writes the output of a task that   *)
(* was run, is a step of the KV store or none.                               *)
LEMMA MoveRefines ==
    ASSUME RefinementInv, ExecutorInv', result' = result,
           NEW e \in Executors, NEW y, Becomes(e, y), HeldBy(y) = HeldBy(ex[e]),
           \A t \in Tasks : HasToken(t)' <=> HasToken(t),
           UNCHANGED <<counter, counted, runs>>,
           \/ store' = store
           \/ \E d \in Tasks : runs[d] = 1 /\ store' = store \cup {d}
    PROVE  [Protocol!Next]_(Protocol!vars)
<1>1. Held' = Held
  <2>1. \A g : g \in Held <=> g \in Held'
    BY HeldAfter, HeldValue DEF RefinementInv, HeldEdge
  <2> QED
    BY <2>1 DEF Held
<1>2. [t \in Tasks |-> Claims(t)]' = [t \in Tasks |-> Claims(t)]
  <2>1. \A t \in Tasks : Taken(t)' <=> Taken(t)
    BY DEF Taken
  <2>2. \A t \in Tasks : Claims(t) = IF Taken(t) THEN 1 ELSE 0
    BY ClaimsTaken DEF RefinementInv, ClaimsAreTaken
  <2>3. \A t \in Tasks : Claims(t)' = IF Taken(t)' THEN 1 ELSE 0
    BY ClaimsTakenNext DEF ClaimsAreTaken
  <2> QED
    BY <2>1, <2>2, <2>3
<1>3. CASE store' = store
  BY <1>1, <1>2, <1>3 DEF Protocol!vars
<1>4. CASE store' # store
  <2>1. PICK d \in Tasks : runs[d] = 1 /\ store' = store \cup {d}
    BY <1>4
  <2>2. Protocol!StoreValue(d)
    BY <1>1, <1>2, <1>4, <2>1 DEF Protocol!StoreValue
  <2> QED
    BY <2>2 DEF Protocol!Next
<1> QED
  BY <1>3, <1>4

(* Tokens after a step of e that invokes nobody.                             *)
LEMMA TokensAfter ==
    ASSUME ExecutorInv, NEW e \in Executors, NEW y, Becomes(e, y), pending' = pending
    PROVE  \A t : HasToken(t)' <=>
              \/ t \in TokensOf(y) \/ \E i \in pending : i.key = t
              \/ \E f \in Executors \ {e} : t \in TokensOf(ex[f])
<1>1. \A f \in Executors : ex'[f] = IF f = e THEN y ELSE ex[f]
  BY OneMoves DEF ExecutorInv, TypeOK
<1> QED
  BY <1>1 DEF HasToken

(* The same without a change of tokens.                                      *)
LEMMA QuietRefines ==
    ASSUME RefinementInv, ExecutorInv', result' = result, pending' = pending,
           NEW e \in Executors, NEW y, Becomes(e, y), HeldBy(y) = HeldBy(ex[e]),
           TokensOf(y) = TokensOf(ex[e]), UNCHANGED <<counter, counted, runs>>,
           \/ store' = store
           \/ \E d \in Tasks : runs[d] = 1 /\ store' = store \cup {d}
    PROVE  [Protocol!Next]_(Protocol!vars)
<1>1. \A t \in Tasks : HasToken(t)' <=> HasToken(t)
  BY TokensAfter DEF HasToken, RefinementInv
<1> QED
  BY <1>1, MoveRefines

(* process_task uses up a token, and the out-edges are held.                 *)
LEMMA RunRefines ==
    ASSUME RefinementInv, ExecutorInv', result' = result, pending' = pending,
           NEW e \in Executors, NEW y, Becomes(e, y), NEW t \in TokensOf(ex[e]),
           HeldBy(y) = HeldBy(ex[e]) \cup OutEdges(t), TokensOf(y) = TokensOf(ex[e]) \ {t},
           runs' = [runs EXCEPT ![t] = @ + 1], UNCHANGED <<counter, counted, store>>
    PROVE  [Protocol!Next]_(Protocol!vars)
<1>1. t \in Tasks /\ HasToken(t) /\ runs[t] = 0
  BY DEF TokensOf, HasToken, RefinementInv, ExecutorInv, ProtocolInv, TokenFirst
<1>2. Protocol!OutEdges(t) = OutEdges(t)
  BY <1>1, ExecutorAssumption DEF Protocol!OutEdges, Protocol!Edges, OutEdges, Downstream
<1>3. Held' = Held \cup OutEdges(t)
  <2>1. \A g : g \in Held' <=> g \in Held \/ g \in OutEdges(t)
    BY HeldAfter, HeldValue DEF RefinementInv, HeldEdge
  <2> QED
    BY <2>1 DEF Held
<1>4. runs'[t] = 1 /\ \A s \in Tasks \ {t} : runs'[s] = runs[s]
  BY <1>1 DEF RefinementInv, ExecutorInv, TypeOK
<1>5. \A s \in Tasks \ {t} : HasToken(s)' <=> HasToken(s)
  BY TokensAfter DEF HasToken, RefinementInv
<1>6. \A s \in Tasks : Taken(s)' <=> Taken(s)
  BY <1>1, <1>4, <1>5 DEF Taken
<1>7. \A s \in Tasks : Claims(s) = IF Taken(s) THEN 1 ELSE 0
  BY ClaimsTaken DEF RefinementInv, ClaimsAreTaken
<1>8. \A s \in Tasks : Claims(s)' = IF Taken(s)' THEN 1 ELSE 0
  BY ClaimsTakenNext DEF ClaimsAreTaken
<1>9. [s \in Tasks |-> Claims(s)]' = [s \in Tasks |-> Claims(s)]
  BY <1>6, <1>7, <1>8
<1>10. runs[t] < [s \in Tasks |-> Claims(s)][t]
  BY <1>1, <1>7 DEF Taken
<1>11. Protocol!ProcessTask(t)
  BY <1>2, <1>3, <1>9, <1>10 DEF Protocol!ProcessTask
<1> QED
  BY <1>1, <1>11 DEF Protocol!Next

(* The task of a held edge is not taken.                                     *)
LEMMA HeldNotTaken ==
    ASSUME ExecutorInv, NEW e \in Executors, NEW d, NEW s \in Tasks, d \in Deps[s],
           <<d, s>> \in HeldBy(ex[e])
    PROVE  ~Taken(s)
BY DEF Taken, ExecutorInv, ProtocolInv, StartedSettled, Settled, HeldEdge

(* Claims after a step that may take s.                                      *)
LEMMA ClaimsAfter ==
    ASSUME RefinementInv, ExecutorInv', pending' = pending, runs' = runs,
           NEW e \in Executors, NEW y, Becomes(e, y), NEW s \in Tasks, ~Taken(s),
           NEW took \in BOOLEAN,
           TokensOf(y) = IF took THEN TokensOf(ex[e]) \cup {s} ELSE TokensOf(ex[e])
    PROVE  \A t \in Tasks : Claims(t)' = IF took /\ t = s THEN Claims(t) + 1 ELSE Claims(t)
<1>1. \A t \in Tasks : Taken(t)' <=> Taken(t) \/ (took /\ t = s)
  BY TokensAfter DEF HasToken, RefinementInv, Taken
<1>2. \A t \in Tasks : Claims(t) = IF Taken(t) THEN 1 ELSE 0
  BY ClaimsTaken DEF RefinementInv, ClaimsAreTaken
<1>3. \A t \in Tasks : Claims(t)' = IF Taken(t)' THEN 1 ELSE 0
  BY ClaimsTakenNext DEF ClaimsAreTaken
<1> QED
  BY <1>1, <1>2, <1>3

(* Held edges after a step that gives one away.                              *)
LEMMA HeldLess ==
    ASSUME RefinementInv, result' = result, NEW e \in Executors, NEW y, Becomes(e, y),
           NEW g \in HeldBy(ex[e]), HeldBy(y) = HeldBy(ex[e]) \ {g}
    PROVE  g \in Held /\ Held' = Held \ {g}
<1>1. g \in Held
  BY HeldValue DEF RefinementInv, HeldEdge
<1>2. \A h : h \in Held' <=>
         (h \in HeldBy(y) \/ \E f \in Executors \ {e} : h \in HeldBy(ex[f]))
  BY HeldAfter DEF RefinementInv
<1>3. \A f \in Executors \ {e} : g \notin HeldBy(ex[f])
  BY HeldAfter DEF RefinementInv
<1>4. \A h : h \in Held <=> \E f \in Executors : h \in HeldBy(ex[f])
  BY HeldValue DEF RefinementInv, HeldEdge
<1>5. \A h : h \in Held' <=> h \in Held /\ h # g
  BY <1>2, <1>3, <1>4
<1> QED
  BY <1>1, <1>5 DEF Held

(* Both modules count the dependencies alike.                                *)
LEMMA SameNumDeps == \A t : Protocol!NumDeps(t) = NumDeps(t)
BY DEF Protocol!NumDeps, NumDeps, Protocol!Cardinality, Cardinality

(* A plain GET that finds the counter one short takes the task.              *)
LEMMA TakeRefines ==
    ASSUME RefinementInv, ExecutorInv', result' = result, pending' = pending,
           NEW e \in Executors, NEW y, Becomes(e, y),
           NEW d \in Tasks, NEW s \in Downstream(d), <<d, s>> \in HeldBy(ex[e]), IsReady(s),
           HeldBy(y) = HeldBy(ex[e]) \ {<<d, s>>}, TokensOf(y) = TokensOf(ex[e]) \cup {s},
           UNCHANGED <<counter, counted, store, runs>>
    PROVE  [Protocol!Next]_(Protocol!vars)
<1>1. s \in Tasks /\ d \in Deps[s] /\ ~Taken(s)
  BY HeldNotTaken DEF Downstream, RefinementInv
<1>2. [t \in Tasks |-> Claims(t)]' = [[t \in Tasks |-> Claims(t)] EXCEPT ![s] = @ + 1]
  <2>1. \A t \in Tasks : Claims(t)' = IF TRUE /\ t = s THEN Claims(t) + 1 ELSE Claims(t)
    BY <1>1, ClaimsAfter
  <2> QED
    BY <2>1
<1>3. <<d, s>> \in Held /\ Held' = Held \ {<<d, s>>}
  BY HeldLess
<1>4. Protocol!CheckReady(d, s)
  BY <1>2, <1>3, SameNumDeps DEF Protocol!CheckReady, IsReady
<1> QED
  BY <1>1, <1>4 DEF Protocol!Next

(* An increment, by which the task is taken if it fills the counter.         *)
LEMMA IncrRefines ==
    ASSUME RefinementInv, ExecutorInv', result' = result, pending' = pending,
           NEW e \in Executors, NEW y, Becomes(e, y),
           NEW d \in store, NEW s \in Downstream(d), <<d, s>> \in HeldBy(ex[e]), Incr(d, s),
           HeldBy(y) = HeldBy(ex[e]) \ {<<d, s>>},
           TokensOf(y) = IF IncrIsReady(s) THEN TokensOf(ex[e]) \cup {s} ELSE TokensOf(ex[e]),
           runs' = runs
    PROVE  [Protocol!Next]_(Protocol!vars)
<1>1. s \in Tasks /\ d \in Deps[s] /\ ~Taken(s)
  BY HeldNotTaken DEF Downstream, RefinementInv
<1>2. IncrIsReady(s) \in BOOLEAN
  BY DEF IncrIsReady
<1>3. [t \in Tasks |-> Claims(t)]' =
         [[t \in Tasks |-> Claims(t)] EXCEPT ![s] = IF IncrIsReady(s) THEN @ + 1 ELSE @]
  <2>1. \A t \in Tasks :
           Claims(t)' = IF IncrIsReady(s) /\ t = s THEN Claims(t) + 1 ELSE Claims(t)
    BY <1>1, <1>2, ClaimsAfter
  <2> QED
    BY <2>1
<1>4. <<d, s>> \in Held /\ Held' = Held \ {<<d, s>>}
  BY HeldLess
<1>5. Protocol!Increment(d, s)
  BY <1>3, <1>4, SameNumDeps DEF Protocol!Increment, IncrIsReady, Incr
<1> QED
  BY <1>1, <1>5 DEF Protocol!Next

(* The book-keeping increment after a plain GET.                             *)
LEMMA BookRefines ==
    ASSUME RefinementInv, ExecutorInv', result' = result, pending' = pending,
           NEW e \in Executors, NEW y, Becomes(e, y),
           NEW d \in Tasks, NEW s \in Downstream(d), <<d, s>> \in BookOf(ex[e]), Incr(d, s),
           HeldBy(y) = HeldBy(ex[e]), TokensOf(y) = TokensOf(ex[e]), runs' = runs
    PROVE  [Protocol!Next]_(Protocol!vars)
<1>1. s \in Tasks /\ d \in Deps[s]
  BY DEF Downstream
<1>2. Good(d) /\ <<d, s>> \notin counted /\ <<d, s>> \notin Held
  BY HeldValue DEF RefinementInv, ExecutorInv, ProtocolInv, BookingOpen
<1>3. Held' = Held
  <2>1. \A g : g \in Held <=> g \in Held'
    BY HeldAfter, HeldValue DEF RefinementInv, HeldEdge
  <2> QED
    BY <2>1 DEF Held
<1>4. [t \in Tasks |-> Claims(t)]' = [t \in Tasks |-> Claims(t)]
  <2>1. \A t \in Tasks : Taken(t)' <=> Taken(t)
    BY TokensAfter DEF HasToken, RefinementInv, Taken
  <2>2. \A t \in Tasks : Claims(t) = IF Taken(t) THEN 1 ELSE 0
    BY ClaimsTaken DEF RefinementInv, ClaimsAreTaken
  <2>3. \A t \in Tasks : Claims(t)' = IF Taken(t)' THEN 1 ELSE 0
    BY ClaimsTakenNext DEF ClaimsAreTaken
  <2> QED
    BY <2>1, <2>2, <2>3
<1>5. Protocol!BookKeep(d, s)
  BY <1>2, <1>3, <1>4 DEF Protocol!BookKeep, Good, Incr
<1> QED
  BY <1>1, <1>5 DEF Protocol!Next
-----------------------------------------------------------------------------
(* What is shown for each action.                                            *)
Refines(e) == CleanAt(ex'[e], runs') /\ [Protocol!Next]_(Protocol!vars)

(* A container that changes its step, and nothing of what it holds.          *)
LEMMA SameHolding ==
    ASSUME NEW x, NEW y, NoQueue(x), y.queue = {}, y.notReady = {},
           y.nodes = x.nodes, y.edges = x.edges, x.edges = {} \/ x.node = y.node,
           y.become = x.become, y.ready = x.ready,
           x.pc \notin {"task", "bigStore", "bigIncr"}, y.pc \notin {"task", "bigStore",
           "bigIncr"}
    PROVE  HeldBy(y) = HeldBy(x) /\ TokensOf(y) = TokensOf(x)
<1>1. HeldBy(y) = HeldBy(x)
  BY DEF HeldBy, NoQueue
<1>2. TokensOf(y) = TokensOf(x)
  BY DEF TokensOf
<1> QED
  BY <1>1, <1>2

(* Such a step, in which at most the output of a task that was run is        *)
(* written.                                                                  *)
LEMMA SameRefines ==
    ASSUME RefinementInv, ExecutorInv', result' = result, pending' = pending,
           UNCHANGED <<counter, counted, runs>>, NEW e \in Executors, NEW y, Becomes(e, y),
           \/ store' = store
           \/ \E d \in Tasks : runs[d] = 1 /\ store' = store \cup {d},
           y.queue = {}, y.notReady = {}, y.nodes = ex[e].nodes, y.edges = ex[e].edges,
           ex[e].edges = {} \/ ex[e].node = y.node, y.noValue = {},
           y.become = ex[e].become, y.ready = ex[e].ready,
           y.pc \in EdgePcs => ex[e].pc \in EdgePcs /\ ex[e].node = y.node,
           y.pc \in {"peek", "rootSet", "rootMsg", "save"} => y.become = None,
           ex[e].pc \notin {"task", "bigStore", "bigIncr"}, y.pc \notin {"task", "bigStore",
           "bigIncr"}
    PROVE  Refines(e)
<1>1. NoQueue(ex[e]) /\ CleanAt(ex[e], runs)
  BY DEF RefinementInv, DirectInv, DirectAt, CleanInv
<1>2. HeldBy(y) = HeldBy(ex[e]) /\ TokensOf(y) = TokensOf(ex[e])
  BY <1>1, SameHolding
<1>3. [Protocol!Next]_(Protocol!vars)
  BY <1>2, QuietRefines
<1>4. ex'[e] = y
  BY OneMoves DEF RefinementInv, ExecutorInv, TypeOK
<1>5. CleanAt(y, runs')
  BY <1>1 DEF CleanAt
<1> QED
  BY <1>3, <1>4, <1>5 DEF Refines

(* The end of a path, on which nothing is held.                              *)
LEMMA NextIterationRefines ==
    ASSUME RefinementInv, ExecutorInv', result' = result, pending' = pending,
           UNCHANGED <<counter, counted, runs>>, NEW e \in Executors,
           Becomes(e, NextIteration(ex[e])),
           \/ store' = store
           \/ \E d \in Tasks : runs[d] = 1 /\ store' = store \cup {d},
           ex[e].pc \in {"next", "rootMsg", "save"}, ex[e].become = None
    PROVE  Refines(e)
<1> DEFINE x == ex[e]
           y == NextIteration(x)
<1>1. /\ x \in Container /\ NoQueue(x) /\ x.edges = {} /\ x.ready = {} /\ x.noValue = {}
  BY DEF RefinementInv, DirectInv, DirectAt, InputsOf, CleanInv, CleanAt, PullPcs, QueuePcs,
         GivingPcs, ExecutorInv, TypeOK, Local, EdgesApart, EdgePcs
<1>2. /\ y.pc \in {"idle", "next"} /\ y.nodes = x.nodes /\ y.edges = {} /\ y.noValue = {}
      /\ y.become = None /\ y.ready = {} /\ y.queue = {} /\ y.notReady = {}
  BY <1>1 DEF NextIteration, Return, Idle, Container, NoQueue
<1> HIDE DEF y
<1>3. Becomes(e, y)
  BY DEF y
<1> QED
  BY <1>1, <1>2, <1>3, SameRefines DEF EdgePcs

(* lambda_handler: the token of an invocation is now a container's.          *)
LEMMA StartRefines ==
    ASSUME RefinementInv, ExecutorInv', NEW e \in Executors, Start(e)
    PROVE  Refines(e)
<1> DEFINE x == ex[e]
<1>1. /\ x \in Container /\ NoQueue(x) /\ CleanAt(x, runs) /\ x.pc = "idle"
      /\ UNCHANGED <<result, counter, counted, store, runs>>
  BY DEF RefinementInv, ExecutorInv, TypeOK, DirectInv, DirectAt, CleanInv, Start, redis, At
<1>2. PICK i \in pending :
         /\ pending' = pending \ {i}
         /\ Becomes(e, [x EXCEPT !.pc = "task", !.event = i, !.cur = i.key, !.prev = i.data])
  BY ZenonT(60) DEF Start
<1> DEFINE y == [x EXCEPT !.pc = "task", !.event = i, !.cur = i.key, !.prev = i.data]
<1>3. /\ y.pc = "task" /\ y.cur = i.key /\ y.nodes = x.nodes /\ y.edges = x.edges
      /\ y.node = x.node /\ y.noValue = x.noValue /\ y.become = x.become /\ y.ready = x.ready
      /\ y.queue = x.queue /\ y.notReady = x.notReady
  BY <1>1 DEF Container
<1>4. i.key \in Tasks
  BY DEF RefinementInv, ExecutorInv, TypeOK, Invocation
<1>5. Becomes(e, y) /\ \A f \in Executors : ex'[f] = IF f = e THEN y ELSE ex[f]
  BY <1>2, OneMoves DEF RefinementInv, ExecutorInv, TypeOK
<1> HIDE DEF y
<1>6. HeldBy(y) = HeldBy(x)
  BY <1>1, <1>3 DEF HeldBy, NoQueue
<1>7. TokensOf(y) = TokensOf(x) \cup {i.key}
  BY <1>1, <1>3, <1>4 DEF TokensOf
<1>8. \A t \in Tasks : HasToken(t)' <=> HasToken(t)
  BY <1>2, <1>5, <1>7 DEF HasToken
<1>9. [Protocol!Next]_(Protocol!vars)
  BY <1>1, <1>5, <1>6, <1>8, MoveRefines
<1>10. CleanAt(y, runs')
  BY <1>1, <1>3 DEF CleanAt, EdgePcs
<1> QED
  BY <1>5, <1>9, <1>10 DEF Refines

(* Without errors, and with the inputs at hand, a task runs through.         *)
LEMMA RunsThrough ==
    ASSUME CleanInv, NEW t \in Tasks, NEW x, Deps[t] \subseteq x.prev \cup store,
           t \notin x.prev
    PROVE  Outcome(x, t) = "ok" /\ HasResult(x, t) /\ ~Raises(x, t) /\ t \notin NoneTasks
<1>1. Outcome(x, t) = "ok" /\ t \notin NoneTasks
  BY DEF CleanInv, Outcome, Failing, NoneTasks, Readable
<1> QED
  BY <1>1 DEF HasResult, Raises

(* process_path executes current_path_node: FanIn runs the task.             *)
LEMMA ExecuteCurrentRefines ==
    ASSUME RefinementInv, ExecutorInv', NEW e \in Executors, ExecuteCurrent(e)
    PROVE  Refines(e)
<1> DEFINE x == ex[e]
           t == x.cur
           z == PutNode(Ran(x, t), t)
           y == [z EXCEPT !.pc = "next"]
<1>1. /\ x \in Container /\ DirectAt(x, store, counted) /\ CleanAt(x, runs) /\ x.pc = "task"
      /\ Local(x) /\ t \in Tasks /\ t \in TokensOf(x)
      /\ UNCHANGED <<result, counter, counted, store>>
  BY DEF RefinementInv, ExecutorInv, TypeOK, DirectInv, CleanInv, ExecuteCurrent, redis, At,
         Local, ClaimsApart, TokensOf
<1>2. runs[t] = 0 /\ t \notin Deps[t] /\ t \notin x.prev
  BY <1>1, TokenFacts DEF RefinementInv
<1>3. Outcome(x, t) = "ok" /\ HasResult(x, t) /\ ~Raises(x, t) /\ t \notin NoneTasks
  <2>1. Deps[t] \subseteq store
    BY <1>1 DEF DirectAt, InputsOf
  <2> QED
    BY <1>1, <1>2, <2>1, RunsThrough DEF RefinementInv
<1>4. Becomes(e, y) /\ pending' = pending /\ runs' = [runs EXCEPT ![t] = @ + 1]
  <2>1. runs' = [runs EXCEPT ![t] = @ + 1]
    BY <1>3 DEF ExecuteCurrent, ProcessTask
  <2> HIDE DEF y
  <2>2. BecomesUnless(Raises(x, t), e, x, IF HasResult(x, t) THEN y ELSE Return(x))
    BY DEF ExecuteCurrent, y
  <2> QED
    BY <1>3, <2>1, <2>2 DEF BecomesUnless
<1>5. /\ y.pc = "next" /\ y.become = x.become /\ y.nodes = x.nodes \cup {t}
      /\ y.noValue = x.noValue /\ y.edges = x.edges /\ y.ready = x.ready
      /\ y.notReady = x.notReady /\ y.queue = x.queue
  <2>1. /\ z \in Container /\ z.become = x.become /\ z.nodes = x.nodes \cup {t}
        /\ z.noValue = x.noValue /\ z.edges = x.edges /\ z.ready = x.ready
        /\ z.notReady = x.notReady /\ z.queue = x.queue
    BY <1>1, <1>2, <1>3, PutRanFields
  <2> HIDE DEF z
  <2> QED
    BY <2>1 DEF Container
<1> HIDE DEF y
<1>6. x.edges = {}
  BY <1>1 DEF Local, EdgesApart, EdgePcs
<1>7. HeldBy(y) = HeldBy(x) \cup OutEdges(t)
  BY <1>1, <1>5, <1>6 DEF HeldBy, DirectAt, NoQueue, OutEdges, Downstream
<1>8. TokensOf(y) = TokensOf(x) \ {t}
  BY <1>1, <1>5 DEF TokensOf, Local, ClaimsApart
<1>9. [Protocol!Next]_(Protocol!vars)
  <2> HIDE DEF x
  <2> QED
    BY <1>1, <1>4, <1>7, <1>8, RunRefines DEF x
<1>10. runs'[t] = 1 /\ \A s \in Tasks \ {t} : runs'[s] = runs[s]
  BY <1>1, <1>2, <1>4 DEF RefinementInv, ExecutorInv, TypeOK
<1>11. CleanAt(y, runs')
  BY <1>1, <1>5, <1>10 DEF CleanAt, EdgePcs, Container
<1>12. ex'[e] = y
  BY <1>4, OneMoves DEF RefinementInv, ExecutorInv, TypeOK
<1> QED
  BY <1>9, <1>11, <1>12 DEF Refines

(* The out-edges of a node move from nodes_to_process to out_edges.          *)
LEMMA SelectNodeRefines ==
    ASSUME ~UseTaskQueue, RefinementInv, ExecutorInv', NEW e \in Executors, SelectNode(e)
    PROVE  Refines(e)
<1> DEFINE x == ex[e]
           Z(n) == TakeNode(x, n)
           P(n) == IF n \in Big THEN "bigGet" ELSE IF Z(n).become = None THEN "peek" ELSE "store"
           Y(n) == [Z(n) EXCEPT !.edges = Downstream(n), !.prev = @ \cup {n}, !.pc = P(n)]
<1>1. /\ x \in Container /\ DirectAt(x, store, counted) /\ CleanAt(x, runs) /\ x.pc = "next"
      /\ Local(x) /\ UNCHANGED <<result, counter, counted, store, runs>>
  BY DEF RefinementInv, ExecutorInv, TypeOK, DirectInv, CleanInv, SelectNode, redis, At
<1>2. x.noValue = {} /\ NoQueue(x) /\ x.edges = {} /\ x.cached = {}
  BY <1>1 DEF CleanAt, DirectAt, CountsOf, Local, EdgesApart, EdgePcs
<1>a. PICK n \in x.nodes : BecomesUnless(n \in x.noValue \ Roots, e, Z(n),
                                       IF n \in Roots THEN AfterNode(Z(n)) ELSE Y(n))
  BY ZenonT(60) DEF SelectNode
<1> DEFINE z == Z(n)
           p == P(n)
<1>3. /\ pending' = pending
      /\ \/ n \in Roots /\ Becomes(e, AfterNode(z))
         \/ Becomes(e, [z EXCEPT !.edges = Downstream(n), !.prev = @ \cup {n}, !.pc = p])
  <2> HIDE DEF Z, P
  <2> QED
    BY <1>2, <1>a DEF BecomesUnless
<1>4. /\ z \in Container /\ z.pc = "next" /\ z.nodes = x.nodes \ {n} /\ z.noValue = {}
      /\ z.node = n /\ z.become = x.become /\ z.ready = x.ready /\ z.edges = {}
      /\ z.queue = {} /\ z.notReady = {}
  <2>1. n \in Tasks /\ (n \in x.cached) \in BOOLEAN
    BY <1>1, <1>2 DEF Container
  <2>2. z \in Container
    BY ZenonT(60), <1>1, <2>1 DEF TakeNode, Container
  <2> QED
    BY <1>1, <1>2, <2>2 DEF TakeNode, Container, NoQueue
<1>5. n \in Tasks /\ runs[n] = 1
  BY <1>1 DEF CleanAt, Container
<1>6. CASE n \in Roots /\ Becomes(e, AfterNode(z))
  <2> DEFINE y == AfterNode(z)
  <2>1. /\ y.pc = "next" /\ y.nodes = x.nodes \ {n} /\ y.noValue = {} /\ y.edges = {}
        /\ y.become = x.become /\ y.ready = x.ready /\ y.queue = {} /\ y.notReady = {}
    <3> HIDE DEF z
    <3> QED
      BY <1>4 DEF AfterNode, Container
  <2> HIDE DEF y
  <2>2. HeldBy(y) = HeldBy(x)
    BY <1>1, <1>2, <1>6, <2>1 DEF HeldBy, NoQueue, Roots
  <2>3. TokensOf(y) = TokensOf(x)
    BY <1>1, <2>1 DEF TokensOf
  <2>4. Becomes(e, y)
    BY <1>6 DEF y
  <2>5. [Protocol!Next]_(Protocol!vars)
    BY <1>1, <1>3, <2>2, <2>3, <2>4, QuietRefines
  <2>6. ex'[e] = y
    BY <2>4, OneMoves DEF RefinementInv, ExecutorInv, TypeOK
  <2>7. CleanAt(y, runs')
    BY <1>1, <2>1 DEF CleanAt, EdgePcs
  <2> QED
    BY <2>5, <2>6, <2>7 DEF Refines
<1>7. CASE Becomes(e, [z EXCEPT !.edges = Downstream(n), !.prev = @ \cup {n}, !.pc = p])
  <2> DEFINE y == [z EXCEPT !.edges = Downstream(n), !.prev = @ \cup {n}, !.pc = p]
  <2>0. p \in {"bigGet", "peek", "store"} /\ (p = "peek" => x.become = None)
    BY <1>4
  <2>1. /\ y.pc = p /\ y.nodes = x.nodes \ {n} /\ y.noValue = {} /\ y.edges = Downstream(n)
        /\ y.node = n /\ y.become = x.become /\ y.ready = x.ready /\ y.queue = {}
        /\ y.notReady = {}
    <3> HIDE DEF z, p
    <3> QED
      BY <1>4 DEF Container
  <2>2. Becomes(e, y)
    BY <1>7
  <2> HIDE DEF y, p
  <2>3. HeldBy(y) = HeldBy(x)
    BY <1>1, <1>2, <2>0, <2>1 DEF HeldBy, NoQueue
  <2>4. TokensOf(y) = TokensOf(x)
    BY <1>1, <2>0, <2>1 DEF TokensOf
  <2>5. [Protocol!Next]_(Protocol!vars)
    BY <1>1, <1>3, <2>2, <2>3, <2>4, QuietRefines
  <2>6. ex'[e] = y
    BY <2>2, OneMoves DEF RefinementInv, ExecutorInv, TypeOK
  <2>7. CleanAt(y, runs')
    BY <1>1, <1>5, <2>0, <2>1 DEF CleanAt, EdgePcs
  <2> QED
    BY <2>5, <2>6, <2>7 DEF Refines
<1> QED
  BY <1>3, <1>6, <1>7

(* A become node becomes current_path_node, or the path ends.                *)
LEMMA EndOfNodesRefines ==
    ASSUME ~UseTaskQueue, RefinementInv, ExecutorInv', NEW e \in Executors, EndOfNodes(e)
    PROVE  Refines(e)
<1> DEFINE x == ex[e]
<1>1. /\ x \in Container /\ NoQueue(x) /\ CleanAt(x, runs) /\ x.pc = "next" /\ Local(x)
      /\ x.edges = {} /\ UNCHANGED <<result, counter, counted, store, pending, runs>>
  BY DEF RefinementInv, ExecutorInv, TypeOK, DirectInv, DirectAt, CleanInv, EndOfNodes,
         redis, At,
         Local, EdgesApart, EdgePcs
<1>2. \/ x.become # None
         /\ Becomes(e, [x EXCEPT !.pc = "task", !.cur = x.become, !.become = None])
      \/ x.become = None /\ Becomes(e, NextIteration(x))
      \/ x.become = None /\ \E p \in {"rootSet", "save"} : Becomes(e, [x EXCEPT !.pc = p])
  BY DEF EndOfNodes, EnterLoop
<1>3. CASE /\ x.become # None
           /\ Becomes(e, [x EXCEPT !.pc = "task", !.cur = x.become, !.become = None])
  <2> DEFINE y == [x EXCEPT !.pc = "task", !.cur = x.become, !.become = None]
  <2>1. /\ y.pc = "task" /\ y.cur = x.become /\ y.become = None /\ y.nodes = x.nodes
        /\ y.edges = x.edges /\ y.node = x.node /\ y.noValue = x.noValue /\ y.ready = x.ready
        /\ y.queue = x.queue /\ y.notReady = x.notReady
    BY <1>1 DEF Container
  <2>2. Becomes(e, y)
    BY <1>3
  <2> HIDE DEF y
  <2>3. HeldBy(y) = HeldBy(x)
    BY <1>1, <2>1 DEF HeldBy, NoQueue
  <2>4. TokensOf(y) = TokensOf(x)
    BY <1>1, <1>3, <2>1, NoneIsNoTask DEF TokensOf
  <2>5. [Protocol!Next]_(Protocol!vars)
    BY <1>1, <2>2, <2>3, <2>4, QuietRefines
  <2>6. ex'[e] = y
    BY <2>2, OneMoves DEF RefinementInv, ExecutorInv, TypeOK
  <2>7. CleanAt(y, runs')
    BY <1>1, <2>1 DEF CleanAt, EdgePcs
  <2> QED
    BY <2>5, <2>6, <2>7 DEF Refines
<1>4. CASE x.become = None /\ Becomes(e, NextIteration(x))
  BY <1>1, <1>4, NextIterationRefines
<1>5. ASSUME x.become = None, NEW p \in {"rootSet", "save"}, Becomes(e, [x EXCEPT !.pc = p])
      PROVE  Refines(e)
  <2> DEFINE y == [x EXCEPT !.pc = p]
  <2>1. /\ y.pc = p /\ y.become = None /\ y.nodes = x.nodes
        /\ y.edges = x.edges /\ y.node = x.node /\ y.noValue = {} /\ y.ready = x.ready
        /\ y.queue = {} /\ y.notReady = {}
    BY <1>1, <1>5 DEF Container, NoQueue, CleanAt
  <2>2. Becomes(e, y)
    BY <1>5
  <2> HIDE DEF y
  <2> QED
    BY <1>1, <1>5, <2>1, <2>2, SameRefines DEF EdgePcs
<1> QED
  BY <1>2, <1>3, <1>4, <1>5

(* A final result is written where FanIn does not look, ...                  *)
LEMMA RootSetRefines ==
    ASSUME RefinementInv, ExecutorInv', NEW e \in Executors, RootSet(e)
    PROVE  Refines(e)
<1> DEFINE x == ex[e]
           y == [x EXCEPT !.pc = "rootMsg"]
<1>1. /\ x \in Container /\ NoQueue(x) /\ CleanAt(x, runs) /\ x.pc = "rootSet" /\ Local(x)
      /\ UNCHANGED <<result, counter, counted, store, pending, runs>> /\ Becomes(e, y)
  BY DEF RefinementInv, ExecutorInv, TypeOK, DirectInv, DirectAt, CleanInv, RootSet,
         SetFinal, At
<1>2. /\ y.pc = "rootMsg" /\ y.become = x.become /\ x.become = None /\ y.nodes = x.nodes
      /\ y.edges = x.edges /\ y.node = x.node /\ y.noValue = {} /\ y.ready = x.ready
      /\ y.queue = {} /\ y.notReady = {}
  BY <1>1 DEF Container, NoQueue, CleanAt
<1> HIDE DEF y
<1> QED
  BY <1>1, <1>2, SameRefines DEF EdgePcs

(* ... and so is the message about it.                                       *)
LEMMA RootMsgRefines ==
    ASSUME RefinementInv, ExecutorInv', NEW e \in Executors, RootMsg(e)
    PROVE  Refines(e)
<1>1. /\ ex[e].pc = "rootMsg" /\ CleanAt(ex[e], runs) /\ Becomes(e, NextIteration(ex[e]))
      /\ UNCHANGED <<result, counter, counted, store, pending, runs>>
  BY DEF RefinementInv, CleanInv, RootMsg, redis, At
<1> QED
  BY <1>1, NextIterationRefines DEF CleanAt

(* The output of current_path_node is written.                               *)
LEMMA SaveRefines ==
    ASSUME ~UseTaskQueue, RefinementInv, ExecutorInv', NEW e \in Executors, Save(e)
    PROVE  Refines(e)
<1> DEFINE x == ex[e]
<1>1. /\ x.pc = "save" /\ CleanAt(x, runs) /\ Becomes(e, NextIteration(x))
      /\ UNCHANGED <<result, counter, counted, pending, runs>>
      /\ store' = store \/ store' = store \cup {x.cur}
  BY DEF RefinementInv, CleanInv, Save, StoreValue, redis, At, EnterLoop
<1>2. x.cur \in Tasks /\ runs[x.cur] = 1
  BY <1>1 DEF RefinementInv, ExecutorInv, Local, ClaimsApart, History
<1> QED
  BY <1>1, <1>2, NextIterationRefines DEF CleanAt

(* The become node is taken on a plain GET.                                  *)
LEMMA PeekBecomeRefines ==
    ASSUME RefinementInv, ExecutorInv', NEW e \in Executors, PeekBecome(e)
    PROVE  Refines(e)
<1> DEFINE x == ex[e]
           b == Become[x.node]
           w == [TakeBecome(x, b) EXCEPT !.pc = "store"]
           z == [x EXCEPT !.pc = "store"]
<1>1. /\ x \in Container /\ NoQueue(x) /\ CleanAt(x, runs) /\ x.pc = "peek" /\ Local(x)
      /\ UNCHANGED <<result, counter, counted, store, pending, runs>>
      /\ (IsReady(b) /\ Becomes(e, w)) \/ Becomes(e, z)
  BY DEF RefinementInv, ExecutorInv, TypeOK, DirectInv, DirectAt, CleanInv, PeekBecome,
         redis, At
<1>2. /\ x.node \in Tasks \ x.nodes /\ b \in Downstream(x.node) /\ b \in Tasks
      /\ x.edges = Downstream(x.node) /\ x.become = None /\ runs[x.node] = 1
  BY <1>1, ExecutorAssumption DEF Local, EdgesApart, EdgePcs, CleanAt, Downstream
<1>3. CASE Becomes(e, z)
  <2>1. /\ z.pc = "store" /\ z.become = x.become /\ z.nodes = x.nodes
        /\ z.edges = x.edges /\ z.node = x.node /\ z.noValue = {} /\ z.ready = x.ready
        /\ z.queue = {} /\ z.notReady = {}
    BY <1>1 DEF Container, NoQueue, CleanAt
  <2> HIDE DEF z
  <2> QED
    BY <1>1, <1>3, <2>1, SameRefines DEF EdgePcs
<1>4. CASE IsReady(b) /\ Becomes(e, w)
  <2>1. /\ w.pc = "store" /\ w.become = b /\ w.nodes = x.nodes /\ w.node = x.node
        /\ w.edges = x.edges \ {b} /\ w.noValue = x.noValue /\ w.ready = x.ready
        /\ w.queue = {} /\ w.notReady = {}
    BY <1>1 DEF TakeBecome, Container, NoQueue
  <2> HIDE DEF w, b
  <2>2. <<x.node, b>> \in HeldBy(x)
    BY <1>2 DEF HeldBy
  <2>3. HeldBy(w) = HeldBy(x) \ {<<x.node, b>>}
    BY <1>1, <1>2, <2>1 DEF HeldBy, NoQueue
  <2>4. TokensOf(w) = TokensOf(x) \cup {b}
    BY <1>1, <1>2, <2>1, NoneIsNoTask DEF TokensOf
  <2>5. [Protocol!Next]_(Protocol!vars)
    BY <1>1, <1>2, <1>4, <2>2, <2>3, <2>4, TakeRefines
  <2>6. ex'[e] = w
    BY <1>4, OneMoves DEF RefinementInv, ExecutorInv, TypeOK
  <2>7. CleanAt(w, runs')
    BY <1>1, <1>2, <2>1 DEF CleanAt
  <2> QED
    BY <2>5, <2>6, <2>7 DEF Refines
<1> QED
  BY <1>1, <1>3, <1>4

(* A small output is written.                                                *)
LEMMA SmallStoreRefines ==
    ASSUME RefinementInv, ExecutorInv', NEW e \in Executors, SmallStore(e)
    PROVE  Refines(e)
<1> DEFINE x == ex[e]
           y == EdgesLeft(x)
<1>1. /\ x \in Container /\ NoQueue(x) /\ CleanAt(x, runs) /\ x.pc = "store" /\ Local(x)
      /\ UNCHANGED <<result, counter, counted, pending, runs>> /\ Becomes(e, y)
      /\ store' = store \cup {x.node}
  BY DEF RefinementInv, ExecutorInv, TypeOK, DirectInv, DirectAt, CleanInv, SmallStore,
         StoreValue, At, CountsOf, PullPcs
<1>2. x.node \in Tasks /\ runs[x.node] = 1
  BY <1>1 DEF Local, EdgesApart, EdgePcs, CleanAt
<1>3. /\ y.pc \in {"edges", "evict"} /\ y.become = x.become /\ y.nodes = x.nodes
      /\ y.edges = x.edges /\ y.node = x.node /\ y.noValue = {} /\ y.ready = x.ready
      /\ y.queue = {} /\ y.notReady = {}
  BY <1>1 DEF EdgesLeft, Container, NoQueue, CleanAt
<1> HIDE DEF y
<1> QED
  BY <1>1, <1>2, <1>3, SameRefines DEF EdgePcs

(* One dependent of a small output is counted, and taken if that fills the   *)
(* counter.                                                                  *)
LEMMA SmallEdgeRefines ==
    ASSUME RefinementInv, ExecutorInv', NEW e \in Executors, SmallEdge(e)
    PROVE  Refines(e)
<1> DEFINE x == ex[e]
<1>1. /\ x \in Container /\ DirectAt(x, store, counted) /\ CleanAt(x, runs) /\ x.pc = "edges"
      /\ Local(x) /\ UNCHANGED <<result, pending, runs>>
  BY DEF RefinementInv, ExecutorInv, TypeOK, DirectInv, CleanInv, SmallEdge, At
<1>2. PICK s \in x.edges :
         LET z == [x EXCEPT !.edges = @ \ {s}] IN
         /\ Incr(z.node, s)
         /\ Becomes(e, EdgesLeft(IF IncrIsReady(s) THEN TakeReady(z, s) ELSE z))
  BY DEF SmallEdge
<1> DEFINE z == [x EXCEPT !.edges = @ \ {s}]
           w == IF IncrIsReady(s) THEN TakeReady(z, s) ELSE z
           y == EdgesLeft(w)
<1>3. /\ x.node \in Tasks \ x.nodes /\ s \in Downstream(x.node) /\ s \in Tasks
      /\ <<x.node, s>> \in HeldBy(x) /\ x.node \in store /\ runs[x.node] = 1
  BY <1>1, <1>2 DEF Local, EdgesApart, EdgePcs, HeldBy, Downstream, DirectAt, CountsOf, CleanAt
<1>4. /\ z \in Container /\ z.become = x.become /\ z.nodes = x.nodes /\ z.node = x.node
      /\ z.edges = x.edges \ {s} /\ z.noValue = {} /\ z.ready = x.ready
      /\ z.queue = {} /\ z.notReady = {}
  BY <1>1 DEF Container, DirectAt, NoQueue, CleanAt
<1>5. /\ w \in Container /\ w.nodes = x.nodes /\ w.node = x.node
      /\ w.edges = x.edges \ {s} /\ w.noValue = {} /\ w.queue = {} /\ w.notReady = {}
      /\ IF ~IncrIsReady(s) THEN w.become = x.become /\ w.ready = x.ready
         ELSE IF x.become = None THEN w.become = s /\ w.ready = x.ready
         ELSE w.become = x.become /\ w.ready = x.ready \cup {s}
  <2> HIDE DEF z
  <2> QED
    BY <1>3, <1>4 DEF TakeReady, Container
<1>6. /\ y.pc \in {"edges", "evict"} /\ y.nodes = x.nodes /\ y.node = x.node
      /\ y.edges = x.edges \ {s} /\ y.noValue = {} /\ y.queue = {} /\ y.notReady = {}
      /\ y.become = w.become /\ y.ready = w.ready
  <2> HIDE DEF w
  <2> QED
    BY <1>5 DEF EdgesLeft, Container
<1>7. Incr(x.node, s) /\ Becomes(e, y)
  BY <1>2, <1>4
<1> HIDE DEF y, w, z
<1>8. HeldBy(y) = HeldBy(x) \ {<<x.node, s>>}
  BY <1>1, <1>3, <1>6 DEF HeldBy, DirectAt, NoQueue
<1>9. TokensOf(y) = IF IncrIsReady(s) THEN TokensOf(x) \cup {s} ELSE TokensOf(x)
  <2>1. /\ y.pc # "task" /\ x.pc # "task"
        /\ IF ~IncrIsReady(s) THEN y.become = x.become /\ y.ready = x.ready
           ELSE IF x.become = None THEN y.become = s /\ y.ready = x.ready
           ELSE y.become = x.become /\ y.ready = x.ready \cup {s}
    BY <1>1, <1>5, <1>6
  <2> QED
    BY <1>3, <2>1, NoneIsNoTask DEF TokensOf
<1>10. [Protocol!Next]_(Protocol!vars)
  BY <1>1, <1>3, <1>7, <1>8, <1>9, IncrRefines
<1>11. ex'[e] = y
  BY <1>7, OneMoves DEF RefinementInv, ExecutorInv, TypeOK
<1>12. CleanAt(y, runs')
  BY <1>1, <1>3, <1>6 DEF CleanAt
<1> QED
  BY <1>10, <1>11, <1>12 DEF Refines

(* What InvokeLeft leaves alone.                                             *)
LEMMA InvokeLeftFields ==
    ASSUME ~UseTaskQueue, NEW x \in Container, x.pc \in {"evict", "invoke"}
    PROVE  LET y == InvokeLeft(x) IN
           /\ y.pc \in {"next", "invoke"} /\ y.nodes = x.nodes /\ y.edges = x.edges
           /\ y.noValue = x.noValue /\ y.queue = x.queue /\ y.notReady = x.notReady
           /\ y.become = x.become /\ y.ready = x.ready
BY DEF InvokeLeft, AfterNode, Container

(* Dropping cached outputs is not a step of FanIn.                           *)
LEMMA EvictRefines ==
    ASSUME ~UseTaskQueue, RefinementInv, ExecutorInv', NEW e \in Executors, Evict(e)
    PROVE  Refines(e)
<1> DEFINE x == ex[e]
<1>1. /\ x \in Container /\ NoQueue(x) /\ CleanAt(x, runs) /\ x.pc = "evict" /\ Local(x)
      /\ UNCHANGED <<result, counter, counted, store, pending, runs>>
  BY DEF RefinementInv, ExecutorInv, TypeOK, DirectInv, DirectAt, CleanInv, Evict, redis, At
<1>2. PICK gone : Becomes(e, InvokeLeft([x EXCEPT !.prev = @ \ gone]))
  BY DEF Evict
<1> DEFINE z == [x EXCEPT !.prev = @ \ gone]
           y == InvokeLeft(z)
<1>3. /\ z \in Container /\ z.pc = "evict" /\ z.nodes = x.nodes /\ z.edges = x.edges
      /\ z.noValue = {} /\ z.queue = {} /\ z.notReady = {}
      /\ z.become = x.become /\ z.ready = x.ready
  BY <1>1 DEF Container, NoQueue, CleanAt
<1>4. /\ y.pc \in {"next", "invoke"} /\ y.nodes = x.nodes /\ y.edges = x.edges
      /\ y.noValue = {} /\ y.queue = {} /\ y.notReady = {}
      /\ y.become = x.become /\ y.ready = x.ready
  <2> HIDE DEF z
  <2> QED
    BY <1>3, InvokeLeftFields
<1>5. Becomes(e, y) /\ x.edges = {}
  BY <1>1, <1>2 DEF Local, EdgesApart, EdgePcs
<1> HIDE DEF y
<1> QED
  BY <1>1, <1>4, <1>5, SameRefines DEF EdgePcs

(* The token of a ready task goes to an invocation.                          *)
LEMMA InvokeRefines ==
    ASSUME ~UseTaskQueue, RefinementInv, ExecutorInv', NEW e \in Executors, Invoke(e)
    PROVE  Refines(e)
<1> DEFINE x == ex[e]
<1>1. /\ x \in Container /\ NoQueue(x) /\ CleanAt(x, runs) /\ x.pc = "invoke" /\ Local(x)
      /\ x.edges = {} /\ UNCHANGED <<result, counter, counted, store, runs>>
  BY DEF RefinementInv, ExecutorInv, TypeOK, DirectInv, DirectAt, CleanInv, Invoke, redis, At,
         Local, EdgesApart, EdgePcs
<1>2. PICK s \in x.ready : \E data :
         /\ pending' = pending \cup {[key |-> s, by |-> x.node, data |-> data,
                                       attempt |-> 0]}
         /\ Becomes(e, InvokeLeft([x EXCEPT !.ready = @ \ {s}]))
  BY DEF Invoke
<1> DEFINE z == [x EXCEPT !.ready = @ \ {s}]
           y == InvokeLeft(z)
<1>3. /\ z \in Container /\ z.pc = "invoke" /\ z.nodes = x.nodes /\ z.edges = x.edges
      /\ z.noValue = {} /\ z.queue = {} /\ z.notReady = {}
      /\ z.become = x.become /\ z.ready = x.ready \ {s}
  BY <1>1 DEF Container, NoQueue, CleanAt
<1>4. /\ y.pc \in {"next", "invoke"} /\ y.nodes = x.nodes /\ y.edges = x.edges
      /\ y.noValue = {} /\ y.queue = {} /\ y.notReady = {}
      /\ y.become = x.become /\ y.ready = x.ready \ {s}
  <2> HIDE DEF z
  <2> QED
    BY <1>3, InvokeLeftFields
<1>5. s \in Tasks /\ s # x.become
  BY <1>1, <1>2 DEF Container, Local, ClaimsApart
<1>6. Becomes(e, y) /\ \A f \in Executors : ex'[f] = IF f = e THEN y ELSE ex[f]
  BY <1>2, OneMoves DEF RefinementInv, ExecutorInv, TypeOK
<1> HIDE DEF y
<1>7. HeldBy(y) = HeldBy(x)
  BY <1>1, <1>4 DEF HeldBy, NoQueue
<1>8. TokensOf(x) = TokensOf(y) \cup {s}
  BY <1>1, <1>2, <1>4, <1>5 DEF TokensOf
<1>9. \A t : (\E i \in pending' : i.key = t) <=> (t = s \/ \E i \in pending : i.key = t)
  <2>1. PICK data : pending' = pending \cup {[key |-> s, by |-> x.node, data |-> data,
                                       attempt |-> 0]}
    BY <1>2
  <2> DEFINE new == [key |-> s, by |-> x.node, data |-> data,
                                       attempt |-> 0]
  <2>2. pending' = pending \cup {new} /\ new.key = s
    BY <2>1
  <2> HIDE DEF new
  <2> QED
    BY <2>2
<1>10. \A t \in Tasks : HasToken(t)' <=> HasToken(t)
  BY <1>6, <1>8, <1>9 DEF HasToken
<1>11. [Protocol!Next]_(Protocol!vars)
  BY <1>1, <1>6, <1>7, <1>10, MoveRefines
<1>12. CleanAt(y, runs')
  BY <1>1, <1>4 DEF CleanAt, EdgePcs
<1> QED
  BY <1>6, <1>11, <1>12 DEF Refines

(* A dependent of a big output is pulled down on a plain GET, or its edge is *)
(* in hand until the output is written and counted.                          *)
LEMMA BigEdgeRefines ==
    ASSUME ~UseTaskQueue, RefinementInv, ExecutorInv', NEW e \in Executors, BigEdge(e)
    PROVE  Refines(e)
<1> DEFINE x == ex[e]
<1>1. /\ x \in Container /\ NoQueue(x) /\ CleanAt(x, runs) /\ x.pc = "bigGet" /\ Local(x)
      /\ UNCHANGED <<result, counter, counted, store, pending, runs>>
  BY DEF RefinementInv, ExecutorInv, TypeOK, DirectInv, DirectAt, CleanInv, BigEdge, redis, At
<1>a. PICK s \in x.edges :
         LET z == [x EXCEPT !.edges = @ \ {s}, !.edge = s] IN
         Becomes(e,
            CASE IsReady(s) -> [z EXCEPT !.pc = "bigBook", !.ready = @ \cup {s}]
              [] ~IsReady(s) /\ UseTaskQueue /\ ~MultipleBigTasksPossible(z.node, s) ->
                   BigEdgesLeft([z EXCEPT !.queue = @ \cup {[task |-> s, large |-> z.node]}])
              [] OTHER -> BigCount(z))
  BY ZenonT(60) DEF BigEdge
<1>2. LET z == [x EXCEPT !.edges = @ \ {s}, !.edge = s] IN
         \/ IsReady(s) /\ Becomes(e, [z EXCEPT !.pc = "bigBook", !.ready = @ \cup {s}])
         \/ Becomes(e, BigCount(z))
  BY <1>a
<1> DEFINE z == [x EXCEPT !.edges = @ \ {s}, !.edge = s]
           w == [z EXCEPT !.pc = "bigBook", !.ready = @ \cup {s}]
           y == BigCount(z)
<1>3. /\ x.node \in Tasks \ x.nodes /\ s \in Downstream(x.node) /\ s \in Tasks
      /\ <<x.node, s>> \in HeldBy(x) /\ runs[x.node] = 1
  BY <1>1, <1>2 DEF Local, EdgesApart, EdgePcs, HeldBy, Downstream, CleanAt
<1>4. CASE Becomes(e, y)
  <2>1. /\ y.pc \in {"bigIncr", "bigStore"} /\ y.nodes = x.nodes /\ y.node = x.node
        /\ y.edges = x.edges \ {s} /\ y.edge = s /\ y.noValue = {} /\ y.become = x.become
        /\ y.ready = x.ready /\ y.queue = {} /\ y.notReady = {}
    BY <1>1 DEF BigCount, Container, NoQueue, CleanAt
  <2> HIDE DEF y
  <2>2. HeldBy(y) = HeldBy(x)
    BY <1>1, <1>2, <1>3, <2>1 DEF HeldBy, NoQueue
  <2>3. TokensOf(y) = TokensOf(x)
    BY <1>1, <2>1 DEF TokensOf
  <2>4. [Protocol!Next]_(Protocol!vars)
    BY <1>1, <1>4, <2>2, <2>3, QuietRefines
  <2>5. ex'[e] = y
    BY <1>4, OneMoves DEF RefinementInv, ExecutorInv, TypeOK
  <2>6. CleanAt(y, runs')
    BY <1>1, <1>3, <2>1 DEF CleanAt
  <2> QED
    BY <2>4, <2>5, <2>6 DEF Refines
<1>5. CASE IsReady(s) /\ Becomes(e, w)
  <2>1. /\ w.pc = "bigBook" /\ w.nodes = x.nodes /\ w.node = x.node
        /\ w.edges = x.edges \ {s} /\ w.noValue = {} /\ w.become = x.become
        /\ w.ready = x.ready \cup {s} /\ w.queue = {} /\ w.notReady = {}
    BY <1>1 DEF Container, NoQueue, CleanAt
  <2> HIDE DEF w
  <2>2. HeldBy(w) = HeldBy(x) \ {<<x.node, s>>}
    BY <1>1, <1>2, <1>3, <2>1 DEF HeldBy, NoQueue
  <2>3. TokensOf(w) = TokensOf(x) \cup {s}
    BY <1>1, <1>3, <2>1 DEF TokensOf
  <2>4. [Protocol!Next]_(Protocol!vars)
    BY <1>1, <1>3, <1>5, <2>2, <2>3, TakeRefines
  <2>5. ex'[e] = w
    BY <1>5, OneMoves DEF RefinementInv, ExecutorInv, TypeOK
  <2>6. CleanAt(w, runs')
    BY <1>1, <1>3, <2>1 DEF CleanAt
  <2> QED
    BY <2>4, <2>5, <2>6 DEF Refines
<1> QED
  BY <1>2, <1>4, <1>5

(* What BigEdgesLeft leaves alone.                                           *)
LEMMA BigEdgesLeftFields ==
    ASSUME NEW x \in Container
    PROVE  LET y == BigEdgesLeft(x) IN
           /\ y.pc \in {"bigDone", "bigGet"} /\ y.nodes = x.nodes /\ y.node = x.node
           /\ y.edges = x.edges /\ y.noValue = x.noValue /\ y.become = x.become
           /\ y.ready = x.ready /\ y.queue = x.queue /\ y.notReady = x.notReady
BY DEF BigEdgesLeft, Container

(* The book-keeping increment.                                               *)
LEMMA BigBookRefines ==
    ASSUME RefinementInv, ExecutorInv', NEW e \in Executors, BigBook(e)
    PROVE  Refines(e)
<1> DEFINE x == ex[e]
           y == BigEdgesLeft(x)
<1>1. /\ x \in Container /\ NoQueue(x) /\ CleanAt(x, runs) /\ x.pc = "bigBook" /\ Local(x)
      /\ UNCHANGED <<result, pending, runs>> /\ Incr(x.node, x.edge) /\ Becomes(e, y)
  BY DEF RefinementInv, ExecutorInv, TypeOK, DirectInv, DirectAt, CleanInv, BigBook, At
<1>2. /\ y.pc \in {"bigDone", "bigGet"} /\ y.nodes = x.nodes /\ y.node = x.node
      /\ y.edges = x.edges /\ y.noValue = x.noValue /\ y.become = x.become
      /\ y.ready = x.ready /\ y.queue = x.queue /\ y.notReady = x.notReady
  BY <1>1, BigEdgesLeftFields
<1> HIDE DEF y
<1>3. /\ x.node \in Tasks /\ x.edge \in Downstream(x.node) /\ runs[x.node] = 1
      /\ <<x.node, x.edge>> \in BookOf(x)
  BY <1>1 DEF Local, EdgesApart, EdgePcs, BigPcs, CleanAt, BookOf
<1>4. HeldBy(y) = HeldBy(x)
  BY <1>1, <1>2 DEF HeldBy, NoQueue
<1>5. TokensOf(y) = TokensOf(x)
  BY <1>1, <1>2 DEF TokensOf
<1>6. [Protocol!Next]_(Protocol!vars)
  BY <1>1, <1>3, <1>4, <1>5, BookRefines
<1>7. ex'[e] = y
  BY <1>1, OneMoves DEF RefinementInv, ExecutorInv, TypeOK
<1>8. CleanAt(y, runs')
  BY <1>1, <1>2, <1>3 DEF CleanAt
<1> QED
  BY <1>6, <1>7, <1>8 DEF Refines

(* A big output is written.                                                  *)
LEMMA BigStoreRefines ==
    ASSUME RefinementInv, ExecutorInv', NEW e \in Executors, BigStore(e)
    PROVE  Refines(e)
<1> DEFINE x == ex[e]
           y == [x EXCEPT !.pc = "bigIncr", !.written = TRUE]
<1>1. /\ x \in Container /\ NoQueue(x) /\ CleanAt(x, runs) /\ x.pc = "bigStore" /\ Local(x)
      /\ UNCHANGED <<result, counter, counted, pending, runs>> /\ Becomes(e, y)
      /\ store' = store \cup {x.node}
  BY DEF RefinementInv, ExecutorInv, TypeOK, DirectInv, DirectAt, CleanInv, BigStore,
         StoreValue, At
<1>2. /\ y.pc = "bigIncr" /\ y.nodes = x.nodes /\ y.node = x.node /\ y.edge = x.edge
      /\ y.edges = x.edges /\ y.noValue = x.noValue /\ y.become = x.become
      /\ y.ready = x.ready /\ y.queue = x.queue /\ y.notReady = x.notReady
  BY <1>1 DEF Container
<1> HIDE DEF y
<1>3. x.node \in Tasks /\ runs[x.node] = 1
  BY <1>1 DEF Local, EdgesApart, EdgePcs, CleanAt
<1>4. HeldBy(y) = HeldBy(x)
  BY <1>1, <1>2 DEF HeldBy, NoQueue
<1>5. TokensOf(y) = TokensOf(x)
  BY <1>1, <1>2 DEF TokensOf
<1>6. [Protocol!Next]_(Protocol!vars)
  BY <1>1, <1>3, <1>4, <1>5, QuietRefines
<1>7. ex'[e] = y
  BY <1>1, OneMoves DEF RefinementInv, ExecutorInv, TypeOK
<1>8. CleanAt(y, runs')
  BY <1>1, <1>2, <1>3 DEF CleanAt
<1> QED
  BY <1>6, <1>7, <1>8 DEF Refines

(* An edge of a big output is counted.                                       *)
LEMMA BigIncrRefines ==
    ASSUME RefinementInv, ExecutorInv', NEW e \in Executors, BigIncr(e)
    PROVE  Refines(e)
<1> DEFINE x == ex[e]
           s == x.edge
           w == IF IncrIsReady(s) THEN [x EXCEPT !.ready = @ \cup {s}] ELSE x
           y == BigEdgesLeft(w)
<1>1. /\ x \in Container /\ DirectAt(x, store, counted) /\ CleanAt(x, runs) /\ x.pc = "bigIncr"
      /\ Local(x) /\ UNCHANGED <<result, pending, runs>> /\ Incr(x.node, s) /\ Becomes(e, y)
  BY DEF RefinementInv, ExecutorInv, TypeOK, DirectInv, CleanInv, BigIncr, At
<1>2. /\ x.node \in Tasks \ x.nodes /\ s \in Downstream(x.node) \ x.edges /\ s \in Tasks
      /\ <<x.node, s>> \in HeldBy(x) /\ x.node \in store /\ runs[x.node] = 1
  BY <1>1 DEF Local, EdgesApart, EdgePcs, BigPcs, HeldBy, Downstream, DirectAt, CountsOf,
              CleanAt
<1>3. /\ w \in Container /\ w.nodes = x.nodes /\ w.node = x.node /\ w.edges = x.edges
      /\ w.noValue = x.noValue /\ w.become = x.become /\ w.queue = x.queue
      /\ w.notReady = x.notReady
      /\ w.ready = IF IncrIsReady(s) THEN x.ready \cup {s} ELSE x.ready
  BY <1>1, <1>2 DEF Container
<1>4. /\ y.pc \in {"bigDone", "bigGet"} /\ y.nodes = x.nodes /\ y.node = x.node
      /\ y.edges = x.edges /\ y.noValue = x.noValue /\ y.become = x.become
      /\ y.queue = x.queue /\ y.notReady = x.notReady
      /\ y.ready = IF IncrIsReady(s) THEN x.ready \cup {s} ELSE x.ready
  <2> HIDE DEF w
  <2> QED
    BY <1>3, BigEdgesLeftFields
<1> HIDE DEF y, w
<1>5. HeldBy(y) = HeldBy(x) \ {<<x.node, s>>}
  BY <1>1, <1>2, <1>4 DEF HeldBy, DirectAt, NoQueue
<1>6. TokensOf(y) = IF IncrIsReady(s) THEN TokensOf(x) \cup {s} ELSE TokensOf(x)
  BY <1>1, <1>2, <1>4 DEF TokensOf
<1>7. [Protocol!Next]_(Protocol!vars)
  BY <1>1, <1>2, <1>5, <1>6, IncrRefines
<1>8. ex'[e] = y
  BY <1>1, OneMoves DEF RefinementInv, ExecutorInv, TypeOK
<1>9. CleanAt(y, runs')
  BY <1>1, <1>2, <1>4 DEF CleanAt
<1> QED
  BY <1>7, <1>8, <1>9 DEF Refines

(* What PulledLeft leaves alone.                                             *)
LEMMA PulledLeftFields ==
    ASSUME NEW x \in Container
    PROVE  LET y == PulledLeft(x) IN
           /\ y.pc \in {"evict", "pull"} /\ y.nodes = x.nodes /\ y.node = x.node
           /\ y.edges = x.edges /\ y.noValue = x.noValue /\ y.become = x.become
           /\ y.ready = x.ready /\ y.queue = x.queue /\ y.notReady = x.notReady
BY DEF PulledLeft, Container

(* The edges of a big output, or a task pulled down, are finished with.      *)
LEMMA BigDoneRefines ==
    ASSUME RefinementInv, ExecutorInv', NEW e \in Executors, BigDone(e) \/ PulledMsg(e)
    PROVE  Refines(e)
<1> DEFINE x == ex[e]
           y == PulledLeft(x)
<1>1. /\ x \in Container /\ NoQueue(x) /\ CleanAt(x, runs) /\ x.pc \in {"bigDone", "pullMsg"}
      /\ UNCHANGED <<result, counter, counted, store, pending, runs>> /\ Becomes(e, y)
  BY DEF RefinementInv, ExecutorInv, TypeOK, DirectInv, DirectAt, CleanInv, BigDone, PulledMsg,
         redis, At
<1>2. /\ y.pc \in {"evict", "pull"} /\ y.nodes = x.nodes /\ y.node = x.node
      /\ y.edges = x.edges /\ y.noValue = {} /\ y.become = x.become
      /\ y.ready = x.ready /\ y.queue = {} /\ y.notReady = {}
  BY <1>1, PulledLeftFields DEF NoQueue, CleanAt
<1> HIDE DEF y
<1> QED
  BY <1>1, <1>2, SameRefines DEF EdgePcs

(* The final result of a task pulled down is written.                        *)
LEMMA PulledSetRefines ==
    ASSUME RefinementInv, ExecutorInv', NEW e \in Executors, PulledSet(e)
    PROVE  Refines(e)
<1> DEFINE x == ex[e]
           y == [x EXCEPT !.pc = "pullMsg"]
<1>1. /\ x \in Container /\ NoQueue(x) /\ CleanAt(x, runs) /\ x.pc = "pullSet"
      /\ UNCHANGED <<result, counter, counted, store, pending, runs>> /\ Becomes(e, y)
  BY DEF RefinementInv, ExecutorInv, TypeOK, DirectInv, DirectAt, CleanInv, PulledSet,
         SetFinal, At
<1>2. /\ y.pc = "pullMsg" /\ y.nodes = x.nodes /\ y.node = x.node
      /\ y.edges = x.edges /\ y.noValue = {} /\ y.become = x.become
      /\ y.ready = x.ready /\ y.queue = {} /\ y.notReady = {}
  BY <1>1 DEF Container, NoQueue, CleanAt
<1> HIDE DEF y
<1> QED
  BY <1>1, <1>2, SameRefines DEF EdgePcs

(* A task pulled down runs.                                                  *)
LEMMA ExecutePulledRefines ==
    ASSUME RefinementInv, ExecutorInv', NEW e \in Executors, ExecutePulled(e)
    PROVE  Refines(e)
<1> DEFINE x == ex[e]
           Y(t) == Keep(RanReady(x, t), t)
           root(t) == [Y(t) EXCEPT !.nodes = x.nodes, !.noValue = x.noValue, !.cached = x.cached,
                                   !.pc = "pullSet", !.edge = t]
           other(t) == [Y(t) EXCEPT !.cached = x.cached \ {t}]
           fails(t) == Raises(x, t) \/ (Outcome(x, t) = "missing" /\ t \in Roots)
<1>1. /\ x \in Container /\ DirectAt(x, store, counted) /\ CleanAt(x, runs) /\ x.pc = "pull"
      /\ Local(x) /\ x.edges = {} /\ UNCHANGED <<result, counter, counted, store>>
  BY DEF RefinementInv, ExecutorInv, TypeOK, DirectInv, CleanInv, ExecutePulled, redis, At,
         Local, EdgesApart, EdgePcs
<1>2. PICK t \in x.ready :
          /\ ProcessTask(x, t)
          /\ BecomesUnless(fails(t), e, x, IF t \in Roots THEN root(t) ELSE PulledLeft(other(t)))
  BY ZenonT(60) DEF ExecutePulled
<1> DEFINE y == Y(t)
           z == root(t)
           w == other(t)
<1>3. t \in Tasks /\ t \in TokensOf(x) /\ t # x.become
  BY <1>1, <1>2 DEF Container, TokensOf, Local, ClaimsApart
<1>4. runs[t] = 0 /\ t \notin Deps[t] /\ t \notin x.prev
  BY <1>3, TokenFacts DEF RefinementInv
<1>5. Outcome(x, t) = "ok" /\ t \notin NoneTasks /\ ~fails(t)
  <2>1. Deps[t] \subseteq x.prev \cup store
    BY <1>1, <1>2 DEF DirectAt, InputsOf, PullPcs
  <2> QED
    BY <1>3, <1>4, <2>1, RunsThrough DEF RefinementInv
<1>6. /\ runs' = [runs EXCEPT ![t] = @ + 1] /\ pending' = pending
      /\ (t \in Roots /\ Becomes(e, z)) \/ Becomes(e, PulledLeft(w))
  <2>1. runs' = [runs EXCEPT ![t] = @ + 1]
    BY <1>2, <1>5 DEF ProcessTask
  <2> HIDE DEF fails, root, other
  <2> QED
    BY <1>2, <1>5, <2>1 DEF BecomesUnless
<1>7. runs'[t] = 1 /\ \A s \in Tasks \ {t} : runs'[s] = runs[s]
  BY <1>3, <1>4, <1>6 DEF RefinementInv, ExecutorInv, TypeOK
<1>8. /\ y \in Container /\ y.nodes = x.nodes \cup {t} /\ y.edges = {}
      /\ y.noValue = {} /\ y.become = x.become /\ y.ready = x.ready \ {t} /\ y.queue = {}
      /\ y.notReady = {} /\ y.pc = x.pc
  <2> DEFINE q == PutNode(Ran(x, t), t)
  <2>1. /\ q \in Container /\ q.nodes = x.nodes \cup {t} /\ q.edges = x.edges
        /\ q.noValue = x.noValue /\ q.become = x.become /\ q.ready = x.ready
        /\ q.queue = x.queue /\ q.notReady = x.notReady /\ q.pc = x.pc
    <3> HIDE DEF x
    <3> QED
      BY <1>1, <1>3, <1>4, <1>5, PutRanFields
  <2>2. y = [[q EXCEPT !.ready = @ \ {t}] EXCEPT !.prev = @ \cup {t}]
    BY DEF Keep, RanReady
  <2>3. x.noValue = {} /\ x.queue = {} /\ x.notReady = {}
    BY <1>1 DEF DirectAt, NoQueue, CleanAt
  <2> HIDE DEF q, Y, x
  <2>4. /\ y \in Container /\ y.nodes = q.nodes /\ y.edges = q.edges
        /\ y.noValue = q.noValue /\ y.become = q.become /\ y.ready = q.ready \ {t}
        /\ y.queue = q.queue /\ y.notReady = q.notReady /\ y.pc = q.pc
    BY ZenonT(60), <1>3, <2>1, <2>2 DEF Container
  <2> QED
    BY <1>1, <2>1, <2>3, <2>4
<1>9. x.noValue = {} /\ x.cached \subseteq Tasks /\ x.nodes \subseteq Tasks
  BY <1>1 DEF CleanAt, Container
<1> HIDE DEF Y
<1>10. CASE t \in Roots /\ Becomes(e, z)
  <2>1. /\ z.pc = "pullSet" /\ z.nodes = x.nodes /\ z.edges = {}
        /\ z.noValue = {} /\ z.become = x.become /\ z.ready = x.ready \ {t} /\ z.queue = {}
        /\ z.notReady = {}
    <3>1. z = [y EXCEPT !.nodes = x.nodes, !.noValue = x.noValue, !.cached = x.cached,
                        !.pc = "pullSet", !.edge = t]
      OBVIOUS
    <3> HIDE DEF y, z, root
    <3> QED
      BY <1>8, <1>9, <3>1 DEF Container
  <2> HIDE DEF z, root
  <2>2. HeldBy(z) = HeldBy(x) \cup OutEdges(t)
    BY <1>1, <1>10, <2>1 DEF HeldBy, DirectAt, NoQueue, OutEdges, Roots
  <2>3. TokensOf(z) = TokensOf(x) \ {t}
    BY <1>1, <1>3, <2>1 DEF TokensOf
  <2>4. [Protocol!Next]_(Protocol!vars)
    BY <1>1, <1>3, <1>6, <1>10, <2>2, <2>3, RunRefines
  <2>5. ex'[e] = z
    BY <1>10, OneMoves DEF RefinementInv, ExecutorInv, TypeOK
  <2>6. CleanAt(z, runs')
    BY <1>1, <1>7, <2>1 DEF CleanAt, EdgePcs, Container
  <2> QED
    BY <2>4, <2>5, <2>6 DEF Refines
<1>11. CASE Becomes(e, PulledLeft(w))
  <2> DEFINE v == PulledLeft(w)
  <2>1. /\ w \in Container /\ w.nodes = x.nodes \cup {t} /\ w.edges = {}
        /\ w.noValue = {} /\ w.become = x.become /\ w.ready = x.ready \ {t} /\ w.queue = {}
        /\ w.notReady = {}
    <3>1. w = [y EXCEPT !.cached = x.cached \ {t}]
      OBVIOUS
    <3> HIDE DEF y, w, other
    <3> QED
      BY <1>8, <1>9, <3>1 DEF Container
  <2>2. /\ v.pc \in {"evict", "pull"} /\ v.nodes = x.nodes \cup {t} /\ v.edges = {}
        /\ v.noValue = {} /\ v.become = x.become /\ v.ready = x.ready \ {t} /\ v.queue = {}
        /\ v.notReady = {}
    <3> HIDE DEF w, other
    <3> QED
      BY <2>1, PulledLeftFields
  <2> HIDE DEF v, w, other
  <2>3. HeldBy(v) = HeldBy(x) \cup OutEdges(t)
    BY <1>1, <1>3, <2>2 DEF HeldBy, DirectAt, NoQueue, OutEdges, Downstream
  <2>4. TokensOf(v) = TokensOf(x) \ {t}
    BY <1>1, <1>3, <2>2 DEF TokensOf
  <2>5. Becomes(e, v)
    BY <1>11 DEF v
  <2>6. [Protocol!Next]_(Protocol!vars)
    BY <1>1, <1>3, <1>6, <2>3, <2>4, <2>5, RunRefines
  <2>7. ex'[e] = v
    BY <2>5, OneMoves DEF RefinementInv, ExecutorInv, TypeOK
  <2>8. CleanAt(v, runs')
    BY <1>1, <1>7, <2>2 DEF CleanAt, EdgePcs, Container
  <2> QED
    BY <2>6, <2>7, <2>8 DEF Refines
<1> QED
  BY <1>6, <1>10, <1>11
-----------------------------------------------------------------------------
(* The container e is all that changes of ex. *)
Moves(e) == \E y : Becomes(e, y)

(* A step of one container leaves the job's data and the others alone.       *)
LEMMA StepFrame ==
    ASSUME ExecutorInv, NEW e \in Executors, Start(e) \/ Step(e)
    PROVE  result' = result /\ \A f \in Executors \ {e} : ex'[f] = ex[f]
<1>1. ASSUME NEW fails, NEW x, NEW y, BecomesUnless(fails, e, x, y)
      PROVE  Moves(e)
  BY <1>1 DEF BecomesUnless, Fail, Moves
<1>2. Moves(e)
  <2>1. CASE ExecuteCurrent(e) \/ SelectNode(e)
    <3>1. CASE ExecuteCurrent(e)
      BY <1>1, <3>1 DEF ExecuteCurrent
    <3>2. CASE SelectNode(e)
      BY <1>1, <3>2 DEF SelectNode
    <3> QED
      BY <2>1, <3>1, <3>2
  <2>2. CASE ExecutePulled(e)
    BY <1>1, <2>2 DEF ExecutePulled
  <2>3. CASE ExecuteEnqueued(e) \/ GiveUpExecute(e)
    <3>1. CASE ExecuteEnqueued(e)
      BY <1>1, <3>1 DEF ExecuteEnqueued
    <3>2. CASE GiveUpExecute(e)
      BY <1>1, <3>2 DEF GiveUpExecute
    <3> QED
      BY <2>3, <3>1, <3>2
  <2>4. CASE Start(e) \/ EndOfNodes(e)
    BY ZenonT(30), <2>4 DEF Start, EndOfNodes, Moves
  <2>5. CASE RootSet(e) \/ RootMsg(e)
    BY ZenonT(30), <2>5 DEF RootSet, RootMsg, Moves
  <2>6. CASE Save(e) \/ PeekBecome(e)
    BY ZenonT(30), <2>6 DEF Save, PeekBecome, Moves
  <2>7. CASE SmallStore(e) \/ SmallEdge(e)
    BY ZenonT(30), <2>7 DEF SmallStore, SmallEdge, Moves
  <2>8. CASE Evict(e) \/ Invoke(e)
    BY ZenonT(30), <2>8 DEF Evict, Invoke, Moves
  <2>9. CASE BigEdge(e) \/ BigBook(e)
    BY ZenonT(30), <2>9 DEF BigEdge, BigBook, Moves
  <2>10. CASE BigStore(e) \/ BigIncr(e)
    BY ZenonT(30), <2>10 DEF BigStore, BigIncr, Moves
  <2>11. CASE BigDone(e) \/ PulledSet(e)
    BY ZenonT(30), <2>11 DEF BigDone, PulledSet, Moves
  <2>12. CASE PulledMsg(e) \/ QueueGet(e)
    BY ZenonT(30), <2>12 DEF PulledMsg, QueueGet, Moves
  <2>13. CASE QueueBook(e) \/ GiveUp(e)
    BY ZenonT(30), <2>13 DEF QueueBook, GiveUp, Moves
  <2>14. CASE GiveUpStore(e)
    BY ZenonT(30), <2>14 DEF GiveUpStore, Moves
  <2> QED
    BY <2>1, <2>2, <2>3, <2>4, <2>5, <2>6, <2>7, <2>8, <2>9, <2>10,
       <2>11, <2>12, <2>13, <2>14 DEF Step
<1>3. result' = result
  BY ResultStays
<1> QED
  BY <1>2, <1>3 DEF Moves, Becomes, ExecutorInv, TypeOK

(* No invocation fails where every task has a value and no task queue is     *)
(* used: nothing raises.                                                     *)
LEMMA NothingFails ==
    ASSUME ~UseTaskQueue, RefinementInv, [Next]_vars
    PROVE  NoRerun'
<1>1. CASE UNCHANGED vars
  BY <1>1 DEF vars, RefinementInv, NoRerun
<1>2. ASSUME NEW e \in Executors, NEW t \in AboutToRun(ex[e])
      PROVE  Outcome(ex[e], t) = "ok" /\ ~Raises(ex[e], t)
  <2> DEFINE x == ex[e]
  <2>1. x \in Container /\ Local(x) /\ DirectAt(x, store, counted)
    BY DEF RefinementInv, DirectInv, ExecutorInv, TypeOK
  <2>2. x.pc \in {"task", "pull"} /\ t \in TokensOf(x) /\ t \in Tasks
    BY <1>2, <2>1 DEF AboutToRun, DirectAt, NoQueue, QueuePcs, GivingPcs, TokensOf, Local,
       ClaimsApart, Container
  <2>3. t \notin x.prev
    BY <2>2, TokenFacts DEF RefinementInv
  <2>4. Deps[t] \subseteq x.prev \cup store
    BY <1>2, <2>1, <2>2 DEF AboutToRun, DirectAt, InputsOf, PullPcs
  <2> QED
    BY <2>2, <2>3, <2>4, RunsThrough DEF RefinementInv
<1>3. ASSUME NEW e \in Executors, Start(e) \/ Step(e)
      PROVE  rerun' = rerun
  <2>1. ~QueueGet(e) /\ ~QueueBook(e) /\ ~ExecuteEnqueued(e) /\ ~GiveUp(e) /\ ~GiveUpExecute(e)
        /\ ~GiveUpStore(e)
    BY NoQueueStep DEF RefinementInv
  <2>2. CASE ExecuteCurrent(e)
    <3>1. ex[e].cur \in AboutToRun(ex[e])
      BY <2>2 DEF ExecuteCurrent, At, AboutToRun
    <3>2. ~Raises(ex[e], ex[e].cur)
      BY <1>2, <3>1
    <3> QED
      BY <2>2, <3>2 DEF ExecuteCurrent, BecomesUnless
  <2>3. CASE SelectNode(e)
    <3>1. ex[e].noValue = {}
      BY DEF RefinementInv, CleanInv, CleanAt
    <3> QED
      BY <2>3, <3>1 DEF SelectNode, BecomesUnless
  <2>4. CASE ExecutePulled(e)
    <3>1. \A t \in ex[e].ready : Outcome(ex[e], t) = "ok" /\ ~Raises(ex[e], t)
      BY <1>2, <2>4 DEF ExecutePulled, At, AboutToRun
    <3>2. PICK t \in ex[e].ready : \E y :
             BecomesUnless(Raises(ex[e], t) \/ (Outcome(ex[e], t) = "missing" /\ t \in Roots),
                           e, ex[e], y)
      BY ZenonT(60), <2>4 DEF ExecutePulled
    <3> QED
      BY <3>1, <3>2 DEF BecomesUnless
  <2>5. CASE Start(e) \/ EndOfNodes(e)
    BY ZenonT(30), <2>5 DEF Start, EndOfNodes
  <2>6. CASE RootSet(e) \/ RootMsg(e)
    BY ZenonT(30), <2>6 DEF RootSet, RootMsg
  <2>7. CASE Save(e) \/ PeekBecome(e)
    BY ZenonT(30), <2>7 DEF Save, PeekBecome
  <2>8. CASE SmallStore(e) \/ SmallEdge(e)
    BY ZenonT(30), <2>8 DEF SmallStore, SmallEdge
  <2>9. CASE Evict(e) \/ Invoke(e)
    BY ZenonT(30), <2>9 DEF Evict, Invoke
  <2>10. CASE BigEdge(e) \/ BigBook(e)
    BY ZenonT(30), <2>10 DEF BigEdge, BigBook
  <2>11. CASE BigStore(e) \/ BigIncr(e)
    BY ZenonT(30), <2>11 DEF BigStore, BigIncr
  <2>12. CASE BigDone(e) \/ PulledSet(e)
    BY ZenonT(30), <2>12 DEF BigDone, PulledSet
  <2>13. CASE PulledMsg(e)
    BY ZenonT(30), <2>13 DEF PulledMsg
  <2> QED
    BY <1>3, <2>1, <2>2, <2>3, <2>4, <2>5, <2>6, <2>7, <2>8, <2>9, <2>10,
       <2>11, <2>12, <2>13 DEF Step
<1> QED
  BY <1>1, <1>3 DEF Next, RefinementInv, NoRerun

(* Every step of the containers is one of the protocol, or none.             *)
LEMMA NextRefines ==
    ASSUME ~UseTaskQueue, RefinementInv, ExecutorInv', [Next]_vars
    PROVE  CleanInv' /\ [Protocol!Next]_(Protocol!vars)
<1>1. CASE UNCHANGED vars
  <2>1. CleanInv'
    BY <1>1 DEF vars, redis, RefinementInv, CleanInv
  <2>2. Held' = Held /\ [t \in Tasks |-> Claims(t)]' = [t \in Tasks |-> Claims(t)]
    BY <1>1 DEF vars, redis, Held, Claims, At, Failing
  <2> QED
    BY <1>1, <2>1, <2>2 DEF vars, redis, Protocol!vars
<1>2. ASSUME NEW e \in Executors, Start(e) \/ Step(e)
      PROVE  CleanInv' /\ [Protocol!Next]_(Protocol!vars)
  <2>1. Refines(e)
    BY <1>2, NoQueueStep, StartRefines, ExecuteCurrentRefines, SelectNodeRefines,
       EndOfNodesRefines, RootSetRefines, RootMsgRefines, SaveRefines, PeekBecomeRefines,
       SmallStoreRefines, SmallEdgeRefines, EvictRefines, InvokeRefines, BigEdgeRefines,
       BigBookRefines, BigStoreRefines, BigIncrRefines, BigDoneRefines, ExecutePulledRefines,
       PulledSetRefines DEF Step, RefinementInv
  <2>2. result' = result /\ \A f \in Executors \ {e} : ex'[f] = ex[f]
    BY <1>2, StepFrame DEF RefinementInv
  <2>3. \A t \in Tasks : runs[t] = 1 => runs'[t] = 1
    <3>1. runs' = runs \/ \E t \in Tasks : runs' = [runs EXCEPT ![t] = @ + 1]
      BY <2>1 DEF Refines, Protocol!Next, Protocol!vars, Protocol!ProcessTask,
                  Protocol!StoreValue,
                  Protocol!CheckReady, Protocol!BookKeep, Protocol!Increment
    <3>2. \A t \in Tasks : runs'[t] \in {0, 1}
      BY DEF ExecutorInv, ProtocolInv, RunOnce
    <3>3. runs \in [Tasks -> Nat]
      BY DEF RefinementInv, ExecutorInv, TypeOK
    <3> QED
      BY <3>1, <3>2, <3>3
  <2>4. ASSUME NEW f \in Executors \ {e} PROVE CleanAt(ex'[f], runs')
    <3>1. /\ CleanAt(ex[f], runs) /\ ex[f] \in Container /\ Local(ex[f]) /\ ex'[f] = ex[f]
      BY <2>2 DEF RefinementInv, CleanInv, ExecutorInv, TypeOK
    <3>2. ex[f].nodes \subseteq Tasks /\ (ex[f].pc \in EdgePcs => ex[f].node \in Tasks)
      BY <3>1 DEF Container, Local, EdgesApart
    <3> QED
      BY <2>3, <3>1, <3>2 DEF CleanAt
  <2>5. CleanInv'
    BY <2>1, <2>2, <2>4 DEF Refines, RefinementInv, CleanInv
  <2> QED
    BY <2>1, <2>5 DEF Refines
<1> QED
  BY <1>1, <1>2 DEF Next

(* At the start, the claims are the invocations of the leaves.               *)
LEMMA InitRefines ==
    ASSUME ~UseTaskQueue, Init, \A t \in Tasks : Results[t] \subseteq {"small", "big"}
    PROVE  RefinementInv /\ Protocol!Init
<1>1. ExecutorInv /\ DirectInv
  BY InitInv, InitDirect
<1>2. \A e \in Executors : ex[e] = Idle({}, {})
  BY DEF Init
<1>3. CleanInv
  <2>1. \A t \in Tasks : result[t] \in {"small", "big"}
    BY DEF Init
  <2>2. \A e \in Executors : CleanAt(ex[e], runs)
    BY <1>2 DEF Idle, CleanAt, EdgePcs
  <2> QED
    BY <2>1, <2>2 DEF CleanInv
<1>4. Held = {}
  <2>1. \A e \in Executors : HeldBy(ex[e]) = {}
    BY <1>2 DEF Idle, HeldBy
  <2>2. \A g : g \notin Held
    BY <1>3, <2>1, HeldValue DEF HeldEdge
  <2> QED
    BY <2>2
<1>5. \A t \in Tasks : Taken(t) <=> Deps[t] = {}
  <2>1. \A e \in Executors : TokensOf(ex[e]) = {}
    BY <1>2, NoneIsNoTask DEF Idle, TokensOf
  <2>2. pending = [key : {t \in Tasks : Deps[t] = {}}, by : {None}, data : {{}},
                       attempt : {0}]
    BY DEF Init
  <2>3. \A i \in pending : Deps[i.key] = {}
    BY <2>2
  <2>4. \A t \in Tasks : Deps[t] = {} => HasToken(t)
    <3> SUFFICES ASSUME NEW t \in Tasks, Deps[t] = {}
                 PROVE  HasToken(t)
      OBVIOUS
    <3> DEFINE i == [key |-> t, by |-> None, data |-> {}, attempt |-> 0]
    <3>1. i \in pending /\ i.key = t
      BY <2>2
    <3> QED
      BY <3>1 DEF HasToken
  <2>5. \A t \in Tasks : runs[t] = 0
    BY DEF Init
  <2>6. \A t \in Tasks : HasToken(t) => Deps[t] = {}
    BY <2>1, <2>3 DEF HasToken
  <2> QED
    BY <2>4, <2>5, <2>6 DEF Taken
<1>6. [t \in Tasks |-> Claims(t)] = [t \in Tasks |-> IF Deps[t] = {} THEN 1 ELSE 0]
  BY <1>1, <1>5, ClaimsTaken DEF ClaimsAreTaken
<1>7. Protocol!Init
  BY <1>4, <1>6 DEF Protocol!Init, Init
<1> QED
  BY <1>1, <1>3, <1>7 DEF RefinementInv, Init, NoRerun

(* For every DAG whose tasks have values, without a task queue and with any  *)
(* number of Executors: the containers implement the fan-in protocol, so     *)
(* what is proved of FanIn holds of them.                                    *)
THEOREM ExecutorsImplementFanIn ==
    ASSUME ~UseTaskQueue, \A t \in Tasks : Results[t] \subseteq {"small", "big"}
    PROVE  Spec => FanInSpec
<1>1. Init => RefinementInv /\ Protocol!Init
  BY InitRefines
<1>2. RefinementInv /\ [Next]_vars => RefinementInv' /\ [Protocol!Next]_(Protocol!vars)
  <2> SUFFICES ASSUME RefinementInv, [Next]_vars
               PROVE  RefinementInv' /\ [Protocol!Next]_(Protocol!vars)
    OBVIOUS
  <2>1. NoRerun'
    BY NothingFails
  <2>2. ExecutorInv'
    BY <2>1, NextInv DEF RefinementInv
  <2>3. DirectInv'
    BY <2>1, NextDirect DEF RefinementInv
  <2> QED
    BY <2>1, <2>2, <2>3, NextRefines DEF RefinementInv
<1> QED
  BY <1>1, <1>2, PTL DEF Spec, FanInSpec, Protocol!Spec
=============================================================================
