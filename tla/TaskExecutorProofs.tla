------------------------- MODULE TaskExecutorProofs -------------------------
(* The fan-in of the Task Executors, proved for every DAG and any number of  *)
(* Executors.  The right to run a task is a token, which moves between a     *)
(* container's places and the pending invocations; a token is made only when *)
(* a counter says that the last open edge of the task is in hand, and is     *)
(* used up by running the task.  An edge is held by the container that ran   *)
(* its source until it is counted or used up.  The invariant ExecutorInv     *)
(* says that both exist once at most.  The proof goes in three layers: what  *)
(* the kinds of step do to the protocol (MoveStep ... BookStep), what the    *)
(* helpers of the model do to one container (the Follows lemmas), and one    *)
(* lemma per action.                                                         *)
EXTENDS TaskExecutorProperties, FiniteSetTheorems, TLAPS

(* The edges that lead from t to its dependents.                             *)
OutEdges(t) == {t} \X Downstream(t)
(* The dependencies of t whose increment has been done.                      *)
CountedDeps(t) == {d \in Deps[t] : <<d, t>> \in counted}

(* The tasks a container has the right to run: current_path_node before      *)
(* process_task, become_node, and the ready tasks. Such a right is called a  *)
(* token.                                                                    *)
TokensOf(x) ==
    {t \in Tasks : (x.pc = "task" /\ x.cur = t) \/ x.become = t \/ t \in x.ready}
(* The held edges whose source has a value.                                  *)
LiveBy(x) == {g \in HeldBy(x) : g[1] \notin x.noValue}
(* The edge whose book-keeping increment a container still owes for a task   *)
(* it took on a plain GET.                                                   *)
BookOf(x) == IF x.pc \in {"bigBook", "queueBook"} THEN {<<x.node, x.edge>>} ELSE {}

(* The steps at which out-edges of node_processing are in hand, those of     *)
(* them that hold one big output's edge, and those of                        *)
(* process_enqueued_tasks.                                                   *)
EdgePcs == {"peek", "store", "edges", "bigGet", "bigBook", "bigStore", "bigIncr"}
BigPcs == {"bigBook", "bigStore", "bigIncr"}
WaitPcs == {"queueGet", "queueBook"}

(* A container holds each of its tokens once, and knows the task in hand.    *)
ClaimsApart(x) ==
    /\ x.noValue \subseteq x.nodes
    /\ x.pc = "task" => x.cur \in Tasks /\ x.cur # x.become /\ x.cur \notin x.ready
    /\ x.become \notin x.ready
    /\ x.pc \in {"rootSet", "rootMsg", "save"} => x.cur \in Tasks
    /\ x.pc \in {"pullSet", "pullMsg"} => x.edge \in Tasks
    /\ x.pc \notin {"giveUp", "giveExec", "giveStore"} => x.tries <= MaxTries

(* The out-edges in hand are those of node_processing, which is no longer in *)
(* nodes_to_process; a task taken for a book-keeping increment is in         *)
(* tasks_pulled_down or ready_tasks.                                         *)
EdgesApart(x) ==
    /\ x.pc \notin EdgePcs => x.edges = {}
    /\ x.pc \in EdgePcs => x.node \in Tasks \ x.nodes /\ x.edges \subseteq Downstream(x.node)
    /\ x.pc = "peek" => x.node \notin Roots /\ x.edges = Downstream(x.node)
    /\ x.pc \in BigPcs => x.edge \in Downstream(x.node) \ x.edges
    /\ x.pc \in {"bigDone", "queueBook"} => x.node \in Tasks
    /\ x.pc = "queueBook" => x.edge \in Downstream(x.node)
    /\ x.pc \in {"bigBook", "queueBook"} => x.edge \in x.ready

(* An edge that waits in the task queue is an edge of the DAG, and is not    *)
(* held a second time through nodes_to_process or out_edges; tasks are put   *)
(* aside (still_not_ready) only during a pass and while giving up.           *)
QueueApart(x) ==
    /\ \A i \in x.queue \cup x.notReady : i.large \in Deps[i.task]
    /\ \A i \in x.queue :
          /\ i.large \notin x.nodes
          /\ i.large = x.node => i.task \notin x.edges
          /\ i.large = x.node /\ x.pc \in BigPcs => i.task # x.edge
    /\ x.notReady # {} => x.pc \in WaitPcs \cup {"giveUp", "giveExec", "giveStore"}
    /\ x.pc \in WaitPcs => \A i \in x.notReady : i \notin x.queue /\ i.large \notin x.nodes

(* What holds of a container by itself.                                      *)
Local(x) == ClaimsApart(x) /\ EdgesApart(x) /\ QueueApart(x)

(* What a container remembers of the job: current_path_node and the pulled   *)
(* task it reports have run, and their results were written before they are  *)
(* announced; and what it caches in previous_results has run, or is an       *)
(* executed task without a value, which ends the path (SelectNode).          *)
History(x, ran, stored) ==
    /\ \A d \in x.prev : ran[d] = 1 \/ d \in x.noValue \ Roots
    /\ x.cur \in Tasks /\ x.pc # "task" => ran[x.cur] = 1
    /\ x.pc \in {"pullSet", "pullMsg"} => ran[x.edge] = 1
    /\ x.pc = "rootMsg" => x.cur \in stored
    /\ x.pc = "pullMsg" => x.edge \in stored

(* Some container holds the edge g.                                          *)
HeldEdge(g) == \E e \in Executors : g \in HeldBy(ex[e])
(* Somebody has the right to run t: a container, or an invocation on its     *)
(* way.                                                                      *)
HasToken(t) == (\E e \in Executors : t \in TokensOf(ex[e])) \/ \E i \in pending : i.key = t
(* t ran, and with a value.                                                  *)
Good(t) == t \in Tasks /\ runs[t] = 1 /\ t \notin Failing \cup NoneTasks
(* Every dependency of t has run with a value, and nobody holds an edge into *)
(* t: all of them were counted or used up.                                   *)
Settled(t) == \A d \in Deps[t] : Good(d) /\ ~HeldEdge(<<d, t>>)

(* A counter is the number of its counted edges.                             *)
CounterExact ==
    /\ counted \subseteq {g \in Tasks \X Tasks : g[1] \in Deps[g[2]]}
    /\ \A t \in Tasks : counter[t] = Cardinality(CountedDeps(t))
(* No edge is held in two containers, and no counted edge is held.           *)
HeldOnce ==
    /\ \A e, f \in Executors : e # f => HeldBy(ex[e]) \cap HeldBy(ex[f]) = {}
    /\ \A e \in Executors : HeldBy(ex[e]) \cap counted = {}
(* Only tasks that ran with a value have live or counted out-edges.          *)
EdgesGood ==
    /\ \A e \in Executors : \A g \in LiveBy(ex[e]) : Good(g[1])
    /\ \A g \in counted : Good(g[1])
(* A task has one token at most.                                             *)
OneToken ==
    /\ \A e, f \in Executors : e # f => TokensOf(ex[e]) \cap TokensOf(ex[f]) = {}
    /\ \A i \in pending : \A e \in Executors : i.key \notin TokensOf(ex[e])
    /\ \A i, j \in pending : i.key = j.key => i = j
(* While its token exists, a task has not run and its out-edges are neither  *)
(* held nor counted.                                                         *)
TokenFirst ==
    \A t \in Tasks : HasToken(t) =>
        /\ runs[t] = 0
        /\ \A s \in Downstream(t) : <<t, s>> \notin counted /\ ~HeldEdge(<<t, s>>)
(* A task that was run or taken, or whose out-edges are in use, is settled.  *)
StartedSettled ==
    \A t \in Tasks :
        (\/ runs[t] > 0 \/ HasToken(t)
         \/ \E s \in Downstream(t) : <<t, s>> \in counted \/ HeldEdge(<<t, s>>))
        => Settled(t)
(* An owed book-keeping increment has not been done, and its edge is held no *)
(* longer.                                                                   *)
BookingOpen ==
    \A e \in Executors : \A g \in BookOf(ex[e]) :
        Good(g[1]) /\ g \notin counted /\ ~HeldEdge(g)
(* No task has run twice.                                                    *)
RunOnce == \A t \in Tasks : runs[t] \in {0, 1}
(* A result the Scheduler has heard of is in dcp_redis, and its task has     *)
(* run.                                                                      *)
Reported == \A t \in Tasks : <<"lambda-result", t>> \in msgs => t \in final /\ runs[t] = 1

(* The payload of an invocation holds inputs of its task.                    *)
PayloadsAreInputs == \A i \in pending : i.data \subseteq Deps[i.key]

(* The fan-in protocol's part of the invariant, ...                          *)
ProtocolInv ==
    /\ CounterExact /\ HeldOnce /\ EdgesGood /\ OneToken /\ TokenFirst
    /\ StartedSettled /\ BookingOpen /\ RunOnce

(* ... and the whole of it: what the proofs below show to be inductive.      *)
ExecutorInv ==
    /\ TypeOK /\ ProtocolInv /\ Reported /\ PayloadsAreInputs
    /\ \A e \in Executors : Local(ex[e]) /\ History(ex[e], runs, final)
-----------------------------------------------------------------------------
(* The dependencies of a task, and those counted, are finitely many, so that *)
(* their number is a natural number.                                         *)
LEMMA DepsFinite ==
    ASSUME NEW t \in Tasks
    PROVE  /\ Deps[t] \subseteq Tasks /\ IsFiniteSet(Deps[t]) /\ NumDeps(t) \in Nat
           /\ CountedDeps(t) \subseteq Deps[t] /\ IsFiniteSet(CountedDeps(t))
           /\ Cardinality(CountedDeps(t)) \in Nat
<1>1. Deps[t] \subseteq Tasks /\ IsFiniteSet(Tasks)
  BY ExecutorAssumption
<1>2. IsFiniteSet(Deps[t])
  BY <1>1, FS_Subset
<1>3. CountedDeps(t) \subseteq Deps[t] /\ IsFiniteSet(CountedDeps(t))
  BY <1>2, FS_Subset DEF CountedDeps
<1> QED
  BY <1>1, <1>2, <1>3, FS_CardinalityType DEF NumDeps

(* A counter one below the number of dependencies, with the edge from d not  *)
(* counted: every other edge is counted.                                     *)
LEMMA AllOthersCounted ==
    ASSUME NEW t \in Tasks, NEW d \in Deps[t], <<d, t>> \notin counted,
           Cardinality(CountedDeps(t)) = NumDeps(t) - 1
    PROVE  \A c \in Deps[t] \ {d} : <<c, t>> \in counted
<1>1. CountedDeps(t) \subseteq Deps[t] \ {d}
  BY DEF CountedDeps
<1>2. IsFiniteSet(Deps[t] \ {d}) /\ Cardinality(Deps[t] \ {d}) = NumDeps(t) - 1
  BY DepsFinite, FS_RemoveElement DEF NumDeps
<1>3. CountedDeps(t) = Deps[t] \ {d}
  BY <1>1, <1>2, FS_Subset
<1> QED
  BY <1>3 DEF CountedDeps

(* Counting an edge that was not counted keeps the counters exact.           *)
LEMMA CountOne ==
    ASSUME NEW t \in Tasks, NEW d \in Deps[t], <<d, t>> \notin counted, Incr(d, t),
           TypeOK, CounterExact
    PROVE  CounterExact'
<1>1. CountedDeps(t)' = CountedDeps(t) \cup {d} /\ d \notin CountedDeps(t)
  BY DEF CountedDeps, Incr
<1>2. Cardinality(CountedDeps(t)') = Cardinality(CountedDeps(t)) + 1
  BY <1>1, DepsFinite, FS_AddElement
<1>3. \A s \in Tasks \ {t} : CountedDeps(s)' = CountedDeps(s)
  BY DEF CountedDeps, Incr
<1>4. \A s \in Tasks : counter'[s] = Cardinality(CountedDeps(s)')
  BY <1>2, <1>3 DEF CounterExact, Incr, TypeOK
<1>5. counted' \subseteq {g \in Tasks \X Tasks : g[1] \in Deps[g[2]]}
  BY DepsFinite DEF CounterExact, Incr
<1> QED
  BY <1>4, <1>5 DEF CounterExact
-----------------------------------------------------------------------------
(* A step that counts nothing, runs nothing and takes nothing new.           *)
LEMMA MoveStep ==
    ASSUME ProtocolInv, NEW e \in Executors,
           \A f \in Executors \ {e} : ex'[f] = ex[f],
           HeldBy(ex'[e]) \subseteq HeldBy(ex[e]), LiveBy(ex'[e]) \subseteq LiveBy(ex[e]),
           BookOf(ex'[e]) \subseteq BookOf(ex[e]),
           OneToken', \A t : HasToken(t)' => HasToken(t),
           UNCHANGED <<result, counter, counted, runs>>
    PROVE  ProtocolInv'
<1>1. CounterExact' /\ RunOnce'
  BY DEF ProtocolInv, CounterExact, RunOnce, CountedDeps
<1>2. \A t : Good(t)' <=> Good(t)
  BY DEF Good, Failing, NoneTasks
<1>3. \A g : HeldEdge(g)' => HeldEdge(g)
  BY DEF HeldEdge
<1>4. HeldOnce'
  BY DEF ProtocolInv, HeldOnce
<1>5. EdgesGood'
  BY <1>2 DEF ProtocolInv, EdgesGood
<1>6. TokenFirst'
  BY <1>3 DEF ProtocolInv, TokenFirst
<1>7. StartedSettled'
  BY <1>2, <1>3 DEF ProtocolInv, StartedSettled, Settled
<1>8. BookingOpen'
  BY <1>2, <1>3 DEF ProtocolInv, BookingOpen
<1> QED
  BY <1>1, <1>4, <1>5, <1>6, <1>7, <1>8 DEF ProtocolInv

(* The same for a container that gives nothing away to an invocation.        *)
LEMMA QuietStep ==
    ASSUME ProtocolInv, NEW e \in Executors,
           \A f \in Executors \ {e} : ex'[f] = ex[f],
           HeldBy(ex'[e]) \subseteq HeldBy(ex[e]), LiveBy(ex'[e]) \subseteq LiveBy(ex[e]),
           BookOf(ex'[e]) \subseteq BookOf(ex[e]), TokensOf(ex'[e]) \subseteq TokensOf(ex[e]),
           UNCHANGED <<result, counter, counted, pending, runs>>
    PROVE  ProtocolInv'
<1>1. OneToken'
  BY DEF ProtocolInv, OneToken
<1>2. \A t : HasToken(t)' => HasToken(t)
  BY DEF HasToken
<1> QED
  BY <1>1, <1>2, MoveStep

(* process_task: the only token of t is used up; the out-edges of t, which   *)
(* nobody held or counted, may now be held here.                             *)
LEMMA RunStep ==
    ASSUME TypeOK, ProtocolInv, NEW e \in Executors,
           \A f \in Executors \ {e} : ex'[f] = ex[f],
           NEW t \in TokensOf(ex[e]), TokensOf(ex'[e]) \subseteq TokensOf(ex[e]) \ {t},
           HeldBy(ex'[e]) \subseteq HeldBy(ex[e]) \cup OutEdges(t),
           \A g \in LiveBy(ex'[e]) : g \in LiveBy(ex[e]) \/ (g[1] = t /\ Good(t)'),
           BookOf(ex'[e]) \subseteq BookOf(ex[e]),
           runs' = runs \/ runs' = [runs EXCEPT ![t] = @ + 1],
           UNCHANGED <<result, counter, counted, pending>>
    PROVE  ProtocolInv'
<1>1. t \in Tasks /\ HasToken(t)
  BY DEF TokensOf, HasToken
<1>2. runs[t] = 0 /\ \A g \in OutEdges(t) : g \notin counted /\ ~HeldEdge(g)
  BY <1>1 DEF ProtocolInv, TokenFirst, OutEdges
<1>3. /\ runs'[t] \in {0, 1} /\ \A s \in Tasks \ {t} : runs'[s] = runs[s]
  BY <1>1, <1>2 DEF TypeOK
<1>4. \A s : Good(s) => s # t /\ Good(s)'
  BY <1>2, <1>3 DEF Good, Failing, NoneTasks
<1>5. CounterExact' /\ RunOnce'
  BY <1>3 DEF ProtocolInv, CounterExact, RunOnce, CountedDeps
<1>6. \A g : HeldEdge(g)' => HeldEdge(g) \/ g \in OutEdges(t)
  BY DEF HeldEdge
<1>7. \A s : HasToken(s)' => HasToken(s) /\ s # t
  BY DEF HasToken, ProtocolInv, OneToken
<1>8. HeldOnce'
  BY <1>2 DEF ProtocolInv, HeldOnce, HeldEdge
<1>9. EdgesGood'
  BY <1>4 DEF ProtocolInv, EdgesGood
<1>10. OneToken'
  BY DEF ProtocolInv, OneToken
<1>11. TokenFirst'
  BY <1>3, <1>6, <1>7 DEF ProtocolInv, TokenFirst, OutEdges
<1>12. StartedSettled'
  <2> SUFFICES ASSUME NEW s \in Tasks, NEW d \in Deps[s],
                      \/ runs'[s] > 0 \/ HasToken(s)'
                      \/ \E c \in Downstream(s) : <<s, c>> \in counted \/ HeldEdge(<<s, c>>)'
               PROVE  Good(d)' /\ ~HeldEdge(<<d, s>>)'
    BY DEF StartedSettled, Settled
  <2>1. \/ runs[s] > 0 \/ HasToken(s)
        \/ \E c \in Downstream(s) : <<s, c>> \in counted \/ HeldEdge(<<s, c>>)
    BY <1>1, <1>3, <1>6, <1>7 DEF OutEdges
  <2>2. Good(d) /\ ~HeldEdge(<<d, s>>)
    BY <2>1 DEF ProtocolInv, StartedSettled, Settled
  <2> QED
    BY <2>2, <1>4, <1>6 DEF OutEdges
<1>13. BookingOpen'
  <2>1. \A f \in Executors : \A g \in BookOf(ex'[f]) : g \in BookOf(ex[f])
    OBVIOUS
  <2> QED
    BY <2>1, <1>4, <1>6 DEF ProtocolInv, BookingOpen, OutEdges
<1> QED
  BY <1>5, <1>8, <1>9, <1>10, <1>11, <1>12, <1>13 DEF ProtocolInv

(* What holding the edge <<d, s>> means: s has not been started, and once   *)
(* all its other edges are counted, nobody holds one of them.                *)
LEMMA HolderAlone ==
    ASSUME ProtocolInv, NEW s \in Tasks, NEW d \in Deps[s], HeldEdge(<<d, s>>),
           counter[s] = NumDeps(s) - 1
    PROVE  /\ runs[s] = 0 /\ ~HasToken(s)
           /\ \A c \in Downstream(s) : <<s, c>> \notin counted /\ ~HeldEdge(<<s, c>>)
           /\ \A c \in Deps[s] \ {d} : Good(c) /\ ~HeldEdge(<<c, s>>)
<1>1. ~Settled(s)
  BY DEF Settled
<1>2. <<d, s>> \notin counted
  BY DEF ProtocolInv, HeldOnce, HeldEdge
<1>3. \A c \in Deps[s] \ {d} : <<c, s>> \in counted
  BY <1>2, AllOthersCounted DEF ProtocolInv, CounterExact
<1>4. \A c \in Deps[s] \ {d} : Good(c) /\ ~HeldEdge(<<c, s>>)
  BY <1>3 DEF ProtocolInv, EdgesGood, HeldOnce, HeldEdge
<1> QED
  BY <1>1, <1>4 DEF ProtocolInv, StartedSettled, RunOnce

(* check_dependency_counter(increment = False) finds s ready: the edge is    *)
(* used up, and s gets its only token.                                       *)
LEMMA CheckStep ==
    ASSUME ProtocolInv, NEW e \in Executors,
           \A f \in Executors \ {e} : ex'[f] = ex[f],
           NEW s \in Tasks, NEW d \in Deps[s], <<d, s>> \in LiveBy(ex[e]), IsReady(s),
           HeldBy(ex'[e]) \subseteq HeldBy(ex[e]) \ {<<d, s>>},
           LiveBy(ex'[e]) \subseteq LiveBy(ex[e]),
           TokensOf(ex'[e]) \subseteq TokensOf(ex[e]) \cup {s},
           BookOf(ex'[e]) \subseteq {<<d, s>>},
           UNCHANGED <<result, counter, counted, pending, runs>>
    PROVE  ProtocolInv'
<1>1. <<d, s>> \in HeldBy(ex[e]) /\ HeldEdge(<<d, s>>) /\ Good(d)
  BY DEF LiveBy, HeldEdge, ProtocolInv, EdgesGood
<1>2. /\ runs[s] = 0 /\ ~HasToken(s)
      /\ \A c \in Downstream(s) : <<s, c>> \notin counted /\ ~HeldEdge(<<s, c>>)
      /\ \A c \in Deps[s] \ {d} : Good(c) /\ ~HeldEdge(<<c, s>>)
  BY <1>1, HolderAlone DEF IsReady
<1>3. CounterExact' /\ RunOnce'
  BY DEF ProtocolInv, CounterExact, RunOnce, CountedDeps
<1>4. \A t : Good(t)' <=> Good(t)
  BY DEF Good, Failing, NoneTasks
<1>5. \A g : HeldEdge(g)' => HeldEdge(g) /\ g # <<d, s>>
  BY <1>1 DEF HeldEdge, ProtocolInv, HeldOnce
<1>6. \A t : HasToken(t)' => HasToken(t) \/ t = s
  BY DEF HasToken
<1>7. HeldOnce'
  BY DEF ProtocolInv, HeldOnce
<1>8. EdgesGood'
  BY <1>4 DEF ProtocolInv, EdgesGood
<1>9. OneToken'
  BY <1>2 DEF ProtocolInv, OneToken, HasToken
<1>10. TokenFirst'
  BY <1>2, <1>5, <1>6 DEF ProtocolInv, TokenFirst
<1>11. Settled(s)'
  BY <1>1, <1>2, <1>4, <1>5 DEF Settled
<1>12. StartedSettled'
  BY <1>4, <1>5, <1>6, <1>11 DEF ProtocolInv, StartedSettled, Settled
<1>13. BookingOpen'
  BY <1>1, <1>4, <1>5 DEF ProtocolInv, BookingOpen, HeldOnce
<1> QED
  BY <1>3, <1>7, <1>8, <1>9, <1>10, <1>12, <1>13 DEF ProtocolInv

(* check_dependency_counter(increment = True): the edge is counted, and the  *)
(* Executor that brings the counter to the number of dependencies gets the   *)
(* only token of s.                                                          *)
LEMMA IncrStep ==
    ASSUME TypeOK, ProtocolInv, NEW e \in Executors,
           \A f \in Executors \ {e} : ex'[f] = ex[f],
           NEW s \in Tasks, NEW d \in Deps[s], <<d, s>> \in LiveBy(ex[e]), Incr(d, s),
           HeldBy(ex'[e]) \subseteq HeldBy(ex[e]) \ {<<d, s>>},
           LiveBy(ex'[e]) \subseteq LiveBy(ex[e]),
           \/ TokensOf(ex'[e]) \subseteq TokensOf(ex[e])
           \/ TokensOf(ex'[e]) \subseteq TokensOf(ex[e]) \cup {s} /\ IncrIsReady(s),
           BookOf(ex'[e]) = {},
           UNCHANGED <<result, pending, runs>>
    PROVE  ProtocolInv'
<1>1. <<d, s>> \in HeldBy(ex[e]) /\ HeldEdge(<<d, s>>) /\ Good(d) /\ <<d, s>> \notin counted
  BY DEF LiveBy, HeldEdge, ProtocolInv, EdgesGood, HeldOnce
<1>2. CounterExact' /\ RunOnce'
  BY <1>1, CountOne DEF ProtocolInv, RunOnce
<1>3. counted' = counted \cup {<<d, s>>}
  BY DEF Incr
<1>4. \A t : Good(t)' <=> Good(t)
  BY DEF Good, Failing, NoneTasks
<1>5. \A g : HeldEdge(g)' => HeldEdge(g) /\ g # <<d, s>>
  BY <1>1 DEF HeldEdge, ProtocolInv, HeldOnce
<1>6. d # s /\ ~HasToken(d)
  BY <1>1 DEF Good, ProtocolInv, TokenFirst, StartedSettled, Settled
<1>7. HeldOnce'
  BY <1>1, <1>3 DEF ProtocolInv, HeldOnce
<1>8. EdgesGood'
  BY <1>1, <1>3, <1>4 DEF ProtocolInv, EdgesGood
<1>9. BookingOpen'
  BY <1>1, <1>3, <1>4, <1>5 DEF ProtocolInv, BookingOpen
<1>10. CASE TokensOf(ex'[e]) \subseteq TokensOf(ex[e])
  <2>1. \A t : HasToken(t)' => HasToken(t)
    BY <1>10 DEF HasToken
  <2>2. OneToken'
    BY <1>10 DEF ProtocolInv, OneToken
  <2>3. TokenFirst'
    BY <1>3, <1>5, <1>6, <2>1 DEF ProtocolInv, TokenFirst
  <2>4. StartedSettled'
    BY <1>1, <1>3, <1>4, <1>5, <2>1 DEF ProtocolInv, StartedSettled, Settled, Good
  <2> QED
    BY <1>2, <1>7, <1>8, <1>9, <2>2, <2>3, <2>4 DEF ProtocolInv
<1>11. CASE TokensOf(ex'[e]) \subseteq TokensOf(ex[e]) \cup {s} /\ IncrIsReady(s)
  <2>1. counter[s] = NumDeps(s) - 1
    BY <1>11, DepsFinite DEF IncrIsReady, TypeOK
  <2>2. /\ runs[s] = 0 /\ ~HasToken(s)
        /\ \A c \in Downstream(s) : <<s, c>> \notin counted /\ ~HeldEdge(<<s, c>>)
        /\ \A c \in Deps[s] \ {d} : Good(c) /\ ~HeldEdge(<<c, s>>)
    BY <1>1, <2>1, HolderAlone
  <2>3. \A t : HasToken(t)' => HasToken(t) \/ t = s
    BY <1>11 DEF HasToken
  <2>4. OneToken'
    BY <1>11, <2>2 DEF ProtocolInv, OneToken, HasToken
  <2>5. TokenFirst'
    BY <1>3, <1>5, <1>6, <2>2, <2>3 DEF ProtocolInv, TokenFirst
  <2>6. Settled(s)'
    BY <1>1, <1>4, <1>5, <2>2 DEF Settled
  <2>7. StartedSettled'
    BY <1>1, <1>3, <1>4, <1>5, <2>3, <2>6 DEF ProtocolInv, StartedSettled, Settled, Good
  <2> QED
    BY <1>2, <1>7, <1>8, <1>9, <2>4, <2>5, <2>7 DEF ProtocolInv
<1> QED
  BY <1>10, <1>11

(* The book-keeping increment for a task found ready and taken before.       *)
LEMMA BookStep ==
    ASSUME TypeOK, ProtocolInv, NEW e \in Executors,
           \A f \in Executors \ {e} : ex'[f] = ex[f],
           \A f \in Executors : \A g \in BookOf(ex[f]) : g[2] \in TokensOf(ex[f]),
           NEW s \in Tasks, NEW d \in Deps[s], <<d, s>> \in BookOf(ex[e]), Incr(d, s),
           HeldBy(ex'[e]) \subseteq HeldBy(ex[e]), LiveBy(ex'[e]) \subseteq LiveBy(ex[e]),
           TokensOf(ex'[e]) \subseteq TokensOf(ex[e]), BookOf(ex'[e]) = {},
           UNCHANGED <<result, pending, runs>>
    PROVE  ProtocolInv'
<1>1. Good(d) /\ <<d, s>> \notin counted /\ ~HeldEdge(<<d, s>>)
  BY DEF ProtocolInv, BookingOpen
<1>2. CounterExact' /\ RunOnce'
  BY <1>1, CountOne DEF ProtocolInv, RunOnce
<1>3. counted' = counted \cup {<<d, s>>}
  BY DEF Incr
<1>4. \A t : Good(t)' <=> Good(t)
  BY DEF Good, Failing, NoneTasks
<1>5. \A g : HeldEdge(g)' => HeldEdge(g)
  BY DEF HeldEdge
<1>6. \A t : HasToken(t)' => HasToken(t)
  BY DEF HasToken
<1>7. ~HasToken(d)
  BY <1>1 DEF Good, ProtocolInv, TokenFirst
<1>8. HeldOnce'
  BY <1>1, <1>3 DEF ProtocolInv, HeldOnce, HeldEdge
<1>9. EdgesGood'
  BY <1>1, <1>3, <1>4 DEF ProtocolInv, EdgesGood
<1>10. OneToken'
  BY DEF ProtocolInv, OneToken
<1>11. TokenFirst'
  BY <1>3, <1>5, <1>6, <1>7 DEF ProtocolInv, TokenFirst
<1>12. StartedSettled'
  BY <1>1, <1>3, <1>4, <1>5, <1>6 DEF ProtocolInv, StartedSettled, Settled, Good
<1>13. BookingOpen'
  <2>1. \A f \in Executors \ {e} : <<d, s>> \notin BookOf(ex[f])
    BY DEF ProtocolInv, OneToken
  <2> QED
    BY <2>1, <1>3, <1>4, <1>5 DEF ProtocolInv, BookingOpen
<1> QED
  BY <1>2, <1>8, <1>9, <1>10, <1>11, <1>12, <1>13 DEF ProtocolInv
-----------------------------------------------------------------------------
(* previous_results is empty or holds nothing new, and the executed tasks    *)
(* without a value are still known.                                          *)
CacheFollows(x, y) ==
    y.prev = {} \/ (y.prev \subseteq x.prev /\ x.noValue \ Roots \subseteq y.noValue)

(* y is a state a container in state x may go on to: nothing new is held,    *)
(* claimed, owed or cached.                                                  *)
Follows(x, y) ==
    /\ y \in Container /\ Local(y)
    /\ HeldBy(y) \subseteq HeldBy(x) /\ LiveBy(y) \subseteq LiveBy(x)
    /\ TokensOf(y) \subseteq TokensOf(x) /\ BookOf(y) = {}
    /\ y.cur \in {x.cur, None} /\ y.pc \notin {"task", "rootMsg", "pullSet", "pullMsg"}
    /\ CacheFollows(x, y)

(* The bounds of num_tries.                                                  *)
LEMMA Tries == /\ MaxTries \in Nat /\ MaxTries >= 1
               /\ {0, 1} \subseteq 0..MaxTries + 1
BY ExecutorAssumption

(* None stands for no task.                                                  *)
LEMMA NoneIsNoTask == None \notin Tasks
BY ExecutorAssumption

(* Returning from the handler drops all but the task queue.                  *)
LEMMA ReturnFollows ==
    ASSUME NEW x \in Container, ClaimsApart(x), QueueApart(x)
    PROVE  Follows(x, Return(x)) /\ Return(x).ready = {} /\ Return(x).nodes = {}
<1> DEFINE y == Return(x)
<1>1. /\ y \in Container
      /\ y.pc = "idle" /\ y.cur = None /\ y.become = None /\ y.nodes = {} /\ y.noValue = {}
      /\ y.node = None /\ y.edges = {} /\ y.edge = None /\ y.ready = {} /\ y.notReady = {}
      /\ y.queue = x.queue /\ y.tries = 0 /\ y.prev = {}
  BY Tries, NoneIsNoTask DEF Return, Idle, Container, Pcs
<1>2. Local(y)
  BY <1>1, Tries, NoneIsNoTask DEF Local, ClaimsApart, EdgesApart, QueueApart, EdgePcs, BigPcs, WaitPcs, Container, Delayed
<1>3. HeldBy(y) \subseteq HeldBy(x) /\ LiveBy(y) \subseteq LiveBy(x)
  <2>1. \A i \in x.queue : i \in Delayed /\ i.large \notin x.noValue
    BY DEF Local, ClaimsApart, QueueApart, Container
  <2> QED
    BY <1>1, <2>1 DEF HeldBy, LiveBy, Delayed
<1>4. TokensOf(y) = {} /\ BookOf(y) = {}
  BY <1>1, Tries, NoneIsNoTask DEF TokensOf, BookOf
<1> QED
  BY <1>1, <1>2, <1>3, <1>4 DEF Follows, CacheFollows

(* The steps at which no edge is in hand.                                    *)
QuietPcs == {"next", "evict", "invoke", "pull", "queueGet", "queueExec", "giveUp"}
(* With no edge in hand, moving on without touching what a container holds.  *)
LEMMA QuietFollows ==
    ASSUME NEW x \in Container, ClaimsApart(x), QueueApart(x), NEW y \in Container,
           x.edges = {}, x.notReady = {}, y.edges = {}, y.notReady = {},
           y.cur \in {x.cur, None}, y.become = x.become, y.ready = x.ready,
           y.prev = x.prev, y.nodes = x.nodes, y.noValue = x.noValue, y.queue = x.queue,
           y.pc \in QuietPcs, y.tries <= MaxTries \/ y.pc = "giveUp"
    PROVE  Follows(x, y)
<1>1. Local(y)
  BY DEF Local, ClaimsApart, EdgesApart, QueueApart, EdgePcs, BigPcs, WaitPcs, QuietPcs
<1>2. HeldBy(y) \subseteq HeldBy(x) /\ LiveBy(y) \subseteq LiveBy(x)
  BY DEF HeldBy, LiveBy, QuietPcs
<1>3. TokensOf(y) \subseteq TokensOf(x) /\ BookOf(y) = {}
  BY DEF TokensOf, BookOf, QuietPcs
<1> QED
  BY <1>1, <1>2, <1>3 DEF Follows, CacheFollows, QuietPcs

(* Ending an iteration of process_path's outer loop takes nothing.           *)
LEMMA NextIterationFollows ==
    ASSUME NEW x \in Container, ClaimsApart(x), QueueApart(x), x.edges = {}, x.notReady = {}
    PROVE  Follows(x, NextIteration(x))
<1>1. CASE x.nodes = {}
  BY <1>1, ReturnFollows DEF NextIteration
<1>2. CASE x.nodes # {}
  <2> DEFINE y == [x EXCEPT !.pc = "next", !.cur = None, !.looped = FALSE, !.tries = 0]
  <2>1. y \in Container
    BY Tries DEF Container, Pcs
  <2>2. /\ y.pc = "next" /\ y.cur = None /\ y.tries = 0 /\ y.become = x.become
        /\ y.ready = x.ready /\ y.nodes = x.nodes /\ y.noValue = x.noValue
        /\ y.queue = x.queue /\ y.edges = {} /\ y.notReady = {} /\ y.prev = x.prev
    BY DEF Container
  <2> HIDE DEF y
  <2>3. Follows(x, y)
    BY <2>1, <2>2, Tries, QuietFollows DEF QuietPcs
  <2> QED
    BY <1>2, <2>3 DEF NextIteration, y
<1> QED
  BY <1>1, <1>2

(* Nor does going on after a node was processed, ...                         *)
LEMMA AfterNodeFollows ==
    ASSUME NEW x \in Container, Local(x), x.pc \in {"next", "evict", "invoke"}
    PROVE  Follows(x, AfterNode(x))
<1> DEFINE p == IF UseTaskQueue /\ x.queue # {} THEN "queueGet" ELSE "next"
<1>1. /\ AfterNode(x) = [x EXCEPT !.pc = p, !.node = None, !.edge = None, !.written = FALSE]
      /\ p \in Pcs \cap QuietPcs
  BY DEF AfterNode, Pcs, QuietPcs
<1> HIDE DEF p
<1>3. AfterNode(x) \in Container
  BY <1>1 DEF Container
<1>2. x.edges = {} /\ x.notReady = {} /\ x.tries <= MaxTries
  BY DEF Local, ClaimsApart, EdgesApart, QueueApart, EdgePcs, WaitPcs
<1> DEFINE y == AfterNode(x)
<1>4. /\ y.pc = p /\ y.cur = x.cur /\ y.tries = x.tries /\ y.become = x.become
      /\ y.ready = x.ready /\ y.nodes = x.nodes /\ y.noValue = x.noValue
      /\ y.queue = x.queue /\ y.edges = {} /\ y.notReady = {} /\ y.prev = x.prev
  BY <1>1, <1>2 DEF Container
<1> HIDE DEF y
<1>5. y \in Container
  BY <1>3 DEF y
<1>6. Follows(x, y)
  BY <1>1, <1>2, <1>4, <1>5, QuietFollows DEF Local
<1> QED
  BY <1>6 DEF y

(* ... entering process_enqueued_tasks_looped, ...                           *)
LEMMA EnterLoopFollows ==
    ASSUME NEW x \in Container, Local(x), x.edges = {}, x.notReady = {}
    PROVE  Follows(x, EnterLoop(x))
<1>1. CASE ~(UseTaskQueue /\ x.queue # {})
  BY <1>1, NextIterationFollows DEF EnterLoop, Local
<1>2. CASE UseTaskQueue /\ x.queue # {}
  <2> DEFINE y == [x EXCEPT !.pc = "queueGet", !.looped = TRUE, !.tries = 1]
  <2>1. y \in Container
    BY Tries DEF Container, Pcs
  <2>2. Follows(x, y)
    BY <2>1, Tries, QuietFollows DEF Container, QuietPcs, Local
  <2> QED
    BY <1>2, <2>2 DEF EnterLoop
<1> QED
  BY <1>1, <1>2

(* ... going on to the next edge of a small output, ...                      *)
LEMMA EdgesLeftFollows ==
    ASSUME NEW x \in Container, Local(x), x.pc \in {"store", "edges"}
    PROVE  Follows(x, EdgesLeft(x))
<1> DEFINE y == EdgesLeft(x)
<1>1. /\ y \in Container
      /\ y.pc = (IF x.edges = {} THEN "evict" ELSE "edges")
      /\ y.cur = x.cur /\ y.become = x.become
      /\ y.nodes = x.nodes /\ y.noValue = x.noValue /\ y.node = x.node /\ y.edges = x.edges
      /\ y.edge = x.edge /\ y.ready = x.ready /\ y.notReady = x.notReady /\ y.queue = x.queue
      /\ y.tries = x.tries /\ y.prev = x.prev
  BY DEF EdgesLeft, Container, Pcs
<1>2. Local(y)
  BY <1>1 DEF Local, ClaimsApart, EdgesApart, QueueApart, EdgePcs, BigPcs, WaitPcs
<1>3. HeldBy(y) \subseteq HeldBy(x) /\ LiveBy(y) \subseteq LiveBy(x)
  BY <1>1 DEF HeldBy, LiveBy
<1>4. TokensOf(y) \subseteq TokensOf(x) /\ BookOf(y) = {}
  BY <1>1 DEF TokensOf, BookOf
<1> QED
  BY <1>1, <1>2, <1>3, <1>4 DEF Follows, CacheFollows

(* ... or to the next Executor to invoke.                                    *)
LEMMA InvokeLeftFollows ==
    ASSUME NEW x \in Container, Local(x), x.pc \in {"evict", "invoke"}
    PROVE  Follows(x, InvokeLeft(x))
<1>1. CASE x.ready = {}
  BY <1>1, AfterNodeFollows DEF InvokeLeft
<1>2. CASE x.ready # {}
  <2>1. [x EXCEPT !.pc = "invoke"] \in Container
    BY DEF Container, Pcs
  <2>2. x.edges = {} /\ x.notReady = {} /\ x.tries <= MaxTries
    BY DEF Local, ClaimsApart, EdgesApart, QueueApart, EdgePcs, WaitPcs
  <2>3. Follows(x, [x EXCEPT !.pc = "invoke"])
    BY <2>1, <2>2, QuietFollows DEF Container, QuietPcs, Local
  <2> QED
    BY <1>2, <2>3 DEF InvokeLeft
<1> QED
  BY <1>1, <1>2

(* The edge in hand, if it was to be counted, is held no longer.             *)
LEMMA BigEdgesLeftFollows ==
    ASSUME NEW x \in Container, Local(x), x.pc \in {"bigGet", "bigBook", "bigIncr"}
    PROVE  /\ Follows(x, BigEdgesLeft(x))
           /\ x.pc # "bigGet" => <<x.node, x.edge>> \notin HeldBy(BigEdgesLeft(x))
<1> DEFINE y == BigEdgesLeft(x)
<1>1. /\ y \in Container
      /\ y.pc = (IF x.edges = {} THEN "bigDone" ELSE "bigGet")
      /\ y.cur = x.cur /\ y.become = x.become
      /\ y.nodes = x.nodes /\ y.noValue = x.noValue /\ y.node = x.node /\ y.edges = x.edges
      /\ y.edge = None /\ y.ready = x.ready /\ y.notReady = x.notReady /\ y.queue = x.queue
      /\ y.tries = x.tries /\ y.prev = x.prev
  BY ZenonT(60) DEF BigEdgesLeft, Container, Pcs
<1>2. Local(y)
  BY <1>1 DEF Local, ClaimsApart, EdgesApart, QueueApart, EdgePcs, BigPcs, WaitPcs
<1>3. HeldBy(y) \subseteq HeldBy(x) /\ LiveBy(y) \subseteq LiveBy(x)
  BY <1>1 DEF HeldBy, LiveBy
<1>4. TokensOf(y) \subseteq TokensOf(x) /\ BookOf(y) = {}
  BY <1>1 DEF TokensOf, BookOf
<1>5. x.pc # "bigGet" => <<x.node, x.edge>> \notin HeldBy(y)
  BY <1>1 DEF HeldBy, Local, EdgesApart, QueueApart, EdgePcs, BigPcs
<1> QED
  BY <1>1, <1>2, <1>3, <1>4, <1>5 DEF Follows, CacheFollows

(* Going on to the next task pulled down takes nothing.                      *)
LEMMA PulledLeftFollows ==
    ASSUME NEW x \in Container, Local(x), x.pc \in {"bigDone", "pull", "pullMsg"}
    PROVE  Follows(x, PulledLeft(x))
<1>1. PulledLeft(x) \in Container
  BY ZenonT(60) DEF PulledLeft, Container, Pcs
<1>2. x.edges = {} /\ x.notReady = {} /\ x.tries <= MaxTries
  BY DEF Local, ClaimsApart, EdgesApart, QueueApart, EdgePcs, WaitPcs
<1> DEFINE y == PulledLeft(x)
<1>3. /\ y.pc \in {"evict", "pull"} /\ y.cur = x.cur /\ y.tries = x.tries /\ y.become = x.become
      /\ y.ready = x.ready /\ y.nodes = x.nodes /\ y.noValue = x.noValue
      /\ y.queue = x.queue /\ y.edges = {} /\ y.notReady = {} /\ y.prev = x.prev
  BY <1>2 DEF PulledLeft, Container
<1> HIDE DEF y
<1>4. y \in Container
  BY <1>1 DEF y
<1>5. Follows(x, y)
  BY <1>2, <1>3, <1>4, QuietFollows DEF QuietPcs, Local
<1> QED
  BY <1>5 DEF y

(* Nor does the end of a pass over the task queue, ...                       *)
LEMMA EndOfPassFollows ==
    ASSUME NEW x \in Container, ClaimsApart(x), QueueApart(x), x.edges = {}, x.notReady = {},
           x.pc \in {"queueGet", "queueBook", "queueExec"}
    PROVE  Follows(x, EndOfPass(x))
<1>1. x.tries <= MaxTries
  BY DEF ClaimsApart
<1>2. CASE x.looped /\ (x.queue = {} \/ x.nodes # {})
  BY <1>1, <1>2, NextIterationFollows DEF EndOfPass
<1>3. CASE ~x.looped
  <2>1. [x EXCEPT !.pc = "next"] \in Container
    BY DEF Container, Pcs
  <2>2. Follows(x, [x EXCEPT !.pc = "next"])
    BY <1>1, <2>1, QuietFollows DEF Container, QuietPcs
  <2> QED
    BY <1>3, <2>2 DEF EndOfPass
<1>4. CASE x.looped /\ ~(x.queue = {} \/ x.nodes # {})
  <2> DEFINE pc == IF x.tries = MaxTries THEN "giveUp" ELSE "queueGet"
             y == [x EXCEPT !.tries = @ + 1, !.pc = pc]
  <2>1. x.tries \in Nat /\ x.tries + 1 \in 0..MaxTries + 1
    BY <1>1, Tries DEF Container
  <2>2. y \in Container
    BY ZenonT(60), <2>1 DEF Container, Pcs
  <2>3. y.pc = pc /\ y.tries = x.tries + 1 /\ (y.tries <= MaxTries \/ y.pc = "giveUp")
    BY <1>1, <2>1, Tries DEF Container
  <2>4. Follows(x, y)
    BY ZenonT(60), <1>1, <2>2, <2>3, QuietFollows DEF Container, QuietPcs
  <2> QED
    BY <1>4, <2>4 DEF EndOfPass
<1> QED
  BY <1>2, <1>3, <1>4

(* ... going on to the next enqueued task (what was put aside returns to the *)
(* queue) ...                                                                *)
LEMMA QueueLeftFollows ==
    ASSUME NEW x \in Container, Local(x), x.pc \in WaitPcs
    PROVE  Follows(x, QueueLeft(x))
<1>1. x.edges = {} /\ x.tries <= MaxTries
  BY DEF Local, ClaimsApart, EdgesApart, EdgePcs, WaitPcs
<1>2. CASE x.queue # {}
  <2> DEFINE y == [x EXCEPT !.pc = "queueGet", !.edge = None, !.node = None]
  <2>1. /\ y \in Container /\ y.pc = "queueGet" /\ y.node = None
        /\ y.cur = x.cur /\ y.become = x.become /\ y.nodes = x.nodes /\ y.noValue = x.noValue
        /\ y.edges = {} /\ y.ready = x.ready /\ y.notReady = x.notReady /\ y.queue = x.queue
        /\ y.tries = x.tries /\ y.prev = x.prev
    BY <1>1 DEF Container, Pcs
  <2>2. Local(y)
    BY <1>1, <2>1 DEF Local, ClaimsApart, EdgesApart, QueueApart, EdgePcs, BigPcs, WaitPcs
  <2>3. HeldBy(y) \subseteq HeldBy(x) /\ LiveBy(y) \subseteq LiveBy(x)
    BY <2>1 DEF HeldBy, LiveBy, WaitPcs
  <2>4. TokensOf(y) \subseteq TokensOf(x) /\ BookOf(y) = {}
    BY <2>1 DEF TokensOf, BookOf
  <2> QED
    BY <1>2, <2>1, <2>2, <2>3, <2>4 DEF QueueLeft, Follows, CacheFollows
<1>3. CASE x.queue = {}
  <2> DEFINE z == [x EXCEPT !.queue = x.notReady, !.notReady = {}, !.edge = None, !.node = None]
  <2>1. /\ z \in Container /\ z.pc = x.pc /\ z.node = None /\ z.edge = None
        /\ z.cur = x.cur /\ z.become = x.become /\ z.nodes = x.nodes /\ z.noValue = x.noValue
        /\ z.edges = {} /\ z.ready = x.ready /\ z.notReady = {} /\ z.queue = x.notReady
        /\ z.tries = x.tries /\ z.prev = x.prev
    BY <1>1 DEF Container
  <2> DEFINE y == [z EXCEPT !.pc = "queueExec"]
  <2>2. /\ y \in Container /\ y.pc = "queueExec" /\ y.node = None /\ y.edge = None
        /\ y.cur = x.cur /\ y.become = x.become /\ y.nodes = x.nodes /\ y.noValue = x.noValue
        /\ y.edges = {} /\ y.ready = x.ready /\ y.notReady = {} /\ y.queue = x.notReady
        /\ y.tries = x.tries /\ y.prev = x.prev
    BY <2>1 DEF Container, Pcs
  <2> HIDE DEF z, y
  <2>3. ClaimsApart(z) /\ QueueApart(z)
    BY <1>1, <2>1, NoneIsNoTask DEF Local, ClaimsApart, QueueApart, BigPcs, WaitPcs
  <2>4. Local(y)
    BY <1>1, <2>2, NoneIsNoTask DEF Local, ClaimsApart, EdgesApart, QueueApart, EdgePcs, BigPcs, WaitPcs
  <2>5. HeldBy(y) \subseteq HeldBy(x) /\ LiveBy(y) \subseteq LiveBy(x)
    BY <2>2, NoneIsNoTask DEF HeldBy, LiveBy, WaitPcs
  <2>6. TokensOf(y) \subseteq TokensOf(x) /\ BookOf(y) = {}
    BY <2>2 DEF TokensOf, BookOf
  <2>7. CASE x.ready = {}
    <3>1. HeldBy(z) \subseteq HeldBy(x) /\ LiveBy(z) \subseteq LiveBy(x)
      BY <2>1, NoneIsNoTask DEF HeldBy, LiveBy, WaitPcs
    <3>2. TokensOf(z) \subseteq TokensOf(x)
      BY <2>1 DEF TokensOf
    <3>3. QueueLeft(x) = EndOfPass(z)
      BY <1>3, <2>7 DEF QueueLeft, z
    <3>4. Follows(z, EndOfPass(z))
      BY <2>1, <2>3, EndOfPassFollows DEF WaitPcs
    <3> QED
      BY <2>1, <3>1, <3>2, <3>3, <3>4 DEF Follows, CacheFollows
  <2>8. CASE x.ready # {}
    <3>1. QueueLeft(x) = y
      BY <1>3, <2>8 DEF QueueLeft, z, y
    <3> QED
      BY <2>2, <2>4, <2>5, <2>6, <3>1 DEF Follows, CacheFollows
  <2> QED
    BY <2>7, <2>8
<1> QED
  BY <1>2, <1>3

(* ... or to the next step of giving up, where what was put aside has been   *)
(* counted.                                                                  *)
LEMMA GiveUpLeftFollows ==
    ASSUME NEW x \in Container, Local(x), x.pc \in {"giveUp", "giveExec", "giveStore"}
    PROVE  Follows(x, GiveUpLeft(x))
<1>1. x.edges = {}
  BY DEF Local, EdgesApart, EdgePcs
<1>2. ASSUME NEW p \in {"giveUp", "giveExec", "giveStore"}
      PROVE  Follows(x, [x EXCEPT !.pc = p])
  <2> DEFINE y == [x EXCEPT !.pc = p]
  <2>1. /\ y \in Container /\ y.pc = p
        /\ y.cur = x.cur /\ y.become = x.become /\ y.nodes = x.nodes /\ y.noValue = x.noValue
        /\ y.edges = {} /\ y.ready = x.ready /\ y.notReady = x.notReady /\ y.queue = x.queue
        /\ y.node = x.node /\ y.edge = x.edge /\ y.prev = x.prev
    BY <1>1 DEF Container, Pcs
  <2> HIDE DEF y
  <2>2. Local(y)
    BY <1>1, <2>1 DEF Local, ClaimsApart, EdgesApart, QueueApart, EdgePcs, BigPcs, WaitPcs
  <2>3. HeldBy(y) \subseteq HeldBy(x) /\ LiveBy(y) \subseteq LiveBy(x)
    BY <2>1 DEF HeldBy, LiveBy
  <2>4. TokensOf(y) \subseteq TokensOf(x) /\ BookOf(y) = {}
    BY <2>1 DEF TokensOf, BookOf
  <2>5. Follows(x, y)
    BY <2>1, <2>2, <2>3, <2>4 DEF Follows, CacheFollows
  <2> QED
    BY <2>5 DEF y
<1>3. CASE x.queue # {}
  <2>1. GiveUpLeft(x) = [x EXCEPT !.pc = x.pc]
    BY <1>3 DEF GiveUpLeft, Container
  <2> QED
    BY <1>2, <2>1
<1>4. CASE x.queue = {} /\ x.ready # {}
  BY <1>2, <1>4 DEF GiveUpLeft
<1>5. CASE x.queue = {} /\ x.ready = {} /\ x.notReady # {}
  BY <1>2, <1>5 DEF GiveUpLeft
<1>6. CASE x.queue = {} /\ x.ready = {} /\ x.notReady = {}
  BY <1>1, <1>6, NextIterationFollows DEF GiveUpLeft, Local
<1> QED
  BY <1>3, <1>4, <1>5, <1>6
-----------------------------------------------------------------------------
(* A step of e changes the state of e alone.                                 *)
LEMMA OneMoves ==
    ASSUME ExecutorInv, NEW e \in Executors, NEW y, Becomes(e, y)
    PROVE  /\ ex'[e] = y /\ \A f \in Executors \ {e} : ex'[f] = ex[f]
           /\ y \in Container => ex' \in [Executors -> Container]
           /\ ex[e] \in Container /\ Local(ex[e]) /\ History(ex[e], runs, final)
BY DEF ExecutorInv, TypeOK, Becomes

(* A step preserves the invariant if it preserves the protocol's part, keeps *)
(* the types, and leaves its container in order; results and runs only grow. *)
LEMMA StepInv ==
    ASSUME ExecutorInv, NEW e \in Executors, NEW y \in Container, Becomes(e, y),
           Local(y), History(y, runs', final'), ProtocolInv', Reported',
           result' = result, counter' \in [Tasks -> Nat], counted' \subseteq Tasks \X Tasks,
           store' \subseteq Tasks, final \subseteq final', final' \subseteq Tasks,
           pending' \subseteq Invocation, rerun' \subseteq Tasks, msgs' \subseteq Message,
           \A i \in pending' \ pending : i.data \subseteq Deps[i.key],
           runs' \in [Tasks -> Nat], \A t \in Tasks : runs[t] = 1 => runs'[t] = 1
    PROVE  ExecutorInv'
<1>1. TypeOK'
  BY OneMoves DEF ExecutorInv, TypeOK
<1>2. ASSUME NEW f \in Executors
      PROVE  Local(ex'[f]) /\ History(ex'[f], runs', final')
  <2>1. CASE f = e
    BY <2>1, OneMoves
  <2>2. CASE f # e
    <3>1. ex'[f] = ex[f] /\ Local(ex[f]) /\ History(ex[f], runs, final)
      BY <2>2, OneMoves DEF ExecutorInv
    <3>2. ex[f].prev \subseteq Tasks
      BY DEF ExecutorInv, TypeOK, Container
    <3>3. History(ex[f], runs', final')
      BY <3>1, <3>2 DEF History, Local, ClaimsApart
    <3> QED
      BY <3>1, <3>3
  <2> QED
    BY <2>1, <2>2
<1>3. PayloadsAreInputs'
  BY DEF ExecutorInv, PayloadsAreInputs
<1> QED
  BY <1>1, <1>2, <1>3 DEF ExecutorInv

(* A step that takes nothing new and only stores or publishes preserves the  *)
(* invariant.                                                                *)
LEMMA QuietInv ==
    ASSUME ExecutorInv, NEW e \in Executors, NEW y, Becomes(e, y), Follows(ex[e], y),
           ex[e].pc # "task", UNCHANGED <<result, counter, counted, pending, rerun, runs>>,
           store' \subseteq Tasks, final \subseteq final', final' \subseteq Tasks,
           msgs' \subseteq Message, Reported'
    PROVE  ExecutorInv'
<1>1. ProtocolInv'
  BY OneMoves, QuietStep DEF Follows, CacheFollows, ExecutorInv
<1>2. History(y, runs', final')
  BY OneMoves, NoneIsNoTask DEF Follows, CacheFollows, History, CacheFollows
<1> QED
  BY <1>1, <1>2, StepInv DEF Follows, CacheFollows, ExecutorInv, TypeOK

(* Messages that report no result, or the result of a task that is there.    *)
LEMMA PublishKeeps ==
    ASSUME ExecutorInv, NEW t \in Tasks, NEW ops, Publish(ops, t),
           ops \subseteq {"executing-task", "executed-task", "task-erred", "lambda-result"},
           "lambda-result" \in ops => t \in final' /\ runs'[t] = 1,
           final \subseteq final', \A s \in Tasks : runs[s] = 1 => runs'[s] = 1
    PROVE  Reported' /\ msgs' \subseteq Message
<1>1. msgs' = msgs \cup {<<op, t>> : op \in ops}
  BY DEF Publish
<1>2. msgs' \subseteq Message
  BY <1>1 DEF ExecutorInv, TypeOK, Message
<1>3. ASSUME NEW s \in Tasks, <<"lambda-result", s>> \in msgs'
      PROVE  s \in final' /\ runs'[s] = 1
  <2>1. CASE <<"lambda-result", s>> \in msgs
    BY <2>1 DEF ExecutorInv, Reported
  <2>2. CASE <<"lambda-result", s>> \notin msgs
    <3>1. PICK op \in ops : <<"lambda-result", s>> = <<op, t>>
      BY <1>1, <1>3, <2>2
    <3>2. op = "lambda-result" /\ s = t
      BY <3>1
    <3> QED
      BY <3>2
  <2> QED
    BY <2>1, <2>2
<1> QED
  BY <1>2, <1>3 DEF Reported

(* lambda_handler: the token moves from the invocation to the container.     *)
LEMMA StartInv ==
    ASSUME ExecutorInv, NEW e \in Executors, Start(e)
    PROVE  ExecutorInv'
<1> DEFINE x == ex[e]
<1>1. PICK i \in pending : /\ pending' = pending \ {i}
                           /\ Becomes(e, [x EXCEPT !.pc = "task", !.event = i, !.cur = i.key,
                                                   !.prev = i.data])
  BY Zenon DEF Start
<1> DEFINE y == [x EXCEPT !.pc = "task", !.event = i, !.cur = i.key, !.prev = i.data]
<1>2. x \in Container /\ Local(x) /\ x.pc = "idle" /\ i \in Invocation
  BY <1>1, OneMoves DEF Start, At, ExecutorInv, TypeOK
<1>3. /\ y \in Container /\ y.pc = "task" /\ y.cur = i.key
      /\ y.become = x.become /\ y.nodes = x.nodes /\ y.noValue = x.noValue /\ y.node = x.node
      /\ y.edges = x.edges /\ y.edge = x.edge /\ y.ready = x.ready
      /\ y.notReady = x.notReady /\ y.queue = x.queue /\ y.tries = x.tries
      /\ y.prev = i.data
  <2>1. i.key \in Tasks /\ i.data \subseteq Tasks
    BY <1>2 DEF Invocation
  <2> QED
    BY ZenonT(60), <1>2, <2>1 DEF Container, Pcs
<1>4. Becomes(e, y)
  BY <1>1
<1> HIDE DEF y
<1>5. ex'[e] = y /\ \A f \in Executors \ {e} : ex'[f] = ex[f]
  BY <1>4, OneMoves
<1>6. HeldBy(y) \subseteq HeldBy(x) /\ LiveBy(y) \subseteq LiveBy(x)
  BY <1>2, <1>3 DEF HeldBy, LiveBy
<1>7. TokensOf(y) \subseteq TokensOf(x) \cup {i.key} /\ BookOf(y) = {}
  BY <1>3 DEF TokensOf, BookOf
<1>8. i.key \in Tasks /\ i.key \notin TokensOf(x)
  BY <1>2 DEF Invocation, ExecutorInv, ProtocolInv, OneToken
<1>9. Local(y)
  BY <1>2, <1>3, <1>8 DEF Local, ClaimsApart, EdgesApart, QueueApart, EdgePcs, BigPcs, WaitPcs, TokensOf
<1>10. OneToken'
  BY <1>1, <1>5, <1>7 DEF ExecutorInv, ProtocolInv, OneToken
<1>11. \A t : HasToken(t)' => HasToken(t)
  BY <1>1, <1>5, <1>7 DEF HasToken
<1>12. UNCHANGED <<result, counter, counted, store, final, rerun, msgs, runs>>
  BY DEF Start, redis
<1>13. ProtocolInv'
  BY <1>5, <1>6, <1>7, <1>10, <1>11, <1>12, MoveStep DEF ExecutorInv
<1>14. \A d \in i.data : runs[d] = 1
  <2>1. HasToken(i.key) /\ i.key \in Tasks
    BY <1>8 DEF HasToken
  <2>2. \A d \in Deps[i.key] : Good(d)
    BY <2>1 DEF ExecutorInv, ProtocolInv, StartedSettled, Settled
  <2> QED
    BY <2>2 DEF ExecutorInv, PayloadsAreInputs, Good
<1>15. History(y, runs', final') /\ Reported'
  BY <1>3, <1>12, <1>14 DEF History, ExecutorInv, Reported
<1> QED
  BY <1>1, <1>3, <1>4, <1>9, <1>12, <1>13, <1>15, StepInv DEF ExecutorInv, TypeOK
-----------------------------------------------------------------------------
(* A task about to be run has not run, does not depend on itself, has no     *)
(* out-edge in its container's task queue and no result cached there.        *)
LEMMA TokenFacts ==
    ASSUME ExecutorInv, NEW e \in Executors, NEW t \in TokensOf(ex[e])
    PROVE  /\ t \in Tasks /\ runs[t] = 0 /\ t \notin Deps[t]
           /\ \A i \in ex[e].queue : i.large # t
           /\ ex[e].pc \in WaitPcs => \A i \in ex[e].notReady : i.large # t
           /\ t \notin ex[e].prev
<1> DEFINE x == ex[e]
<1>1. t \in Tasks /\ HasToken(t)
  BY DEF TokensOf, HasToken
<1>2. runs[t] = 0 /\ \A s \in Downstream(t) : <<t, s>> \notin HeldBy(x)
  BY <1>1 DEF ExecutorInv, ProtocolInv, TokenFirst, HeldEdge
<1>3. t \notin Deps[t]
  <2>1. Settled(t)
    BY <1>1 DEF ExecutorInv, ProtocolInv, StartedSettled
  <2>2. t \in Deps[t] => Good(t)
    BY <2>1 DEF Settled
  <2> QED
    BY <1>2, <2>2 DEF Good
<1>4. x \in Container /\ QueueApart(x)
  BY DEF ExecutorInv, TypeOK, Local
<1>5. \A i \in x.queue \cup x.notReady : i \in Delayed /\ i.task \in Downstream(i.large)
  BY <1>4 DEF Container, Delayed, QueueApart, Downstream
<1>6. \A i \in x.queue : <<i.large, i.task>> \in HeldBy(x)
  BY <1>5 DEF HeldBy, Delayed
<1>7. x.pc \in WaitPcs => \A i \in x.notReady : <<i.large, i.task>> \in HeldBy(x)
  BY <1>5 DEF HeldBy, Delayed, WaitPcs
<1>8. t \notin x.prev
  <2>1. t \in x.prev => t \in x.nodes \ Roots
    BY <1>2 DEF ExecutorInv, History, Local, ClaimsApart
  <2>2. t \in x.nodes \ Roots => \E s \in Downstream(t) : <<t, s>> \in HeldBy(x)
    BY <1>1 DEF Roots, HeldBy, Downstream
  <2> QED
    BY <1>2, <2>1, <2>2
<1> QED
  BY <1>1, <1>2, <1>3, <1>5, <1>6, <1>7, <1>8

(* The inputs of a task about to be run have run.                            *)
LEMMA InputsRan ==
    ASSUME ExecutorInv, NEW e \in Executors, NEW t \in TokensOf(ex[e])
    PROVE  \A d \in Deps[t] : d \in Tasks /\ runs[d] = 1
<1>1. t \in Tasks /\ HasToken(t)
  BY DEF TokensOf, HasToken
<1> QED
  BY <1>1 DEF ExecutorInv, ProtocolInv, StartedSettled, Settled, Good

(* A lambda_handler that raises ends like one that returns, if AWS does not  *)
(* run the event again.                                                      *)
LEMMA FailReturns ==
    ASSUME NEW e, NEW x, Fail(e, x), NoRerun'
    PROVE  Becomes(e, Return(x)) /\ UNCHANGED <<pending, rerun>>
BY DEF Fail, NoRerun

(* A step that runs t preserves the invariant, if what the container then    *)
(* holds is what it held and the out-edges of t.                             *)
LEMMA RunInv ==
    ASSUME ExecutorInv, NEW e \in Executors, NEW y \in Container, Becomes(e, y), Local(y),
           NEW t \in TokensOf(ex[e]), ProcessTask(ex[e], t),
           TokensOf(y) \subseteq TokensOf(ex[e]) \ {t},
           HeldBy(y) \subseteq HeldBy(ex[e]) \cup OutEdges(t),
           \A g \in LiveBy(y) : \/ g \in LiveBy(ex[e])
                                \/ g[1] = t /\ Outcome(ex[e], t) = "ok" /\ t \notin NoneTasks,
           BookOf(y) \subseteq BookOf(ex[e]), History(y, runs', final),
           UNCHANGED <<result, redis, pending, rerun>>
    PROVE  ExecutorInv'
<1>1. t \in Tasks /\ runs[t] = 0 /\ Outcome(ex[e], t) # "cached"
  BY TokenFacts DEF Outcome
<1>2. runs \in [Tasks -> Nat]
  BY DEF ExecutorInv, TypeOK
<1>3. /\ runs' = runs \/ runs' = [runs EXCEPT ![t] = @ + 1]
      /\ Outcome(ex[e], t) # "missing" => runs'[t] = 1
      /\ runs' \in [Tasks -> Nat] /\ \A s \in Tasks : runs[s] = 1 => runs'[s] = 1
  <2>1. CASE Outcome(ex[e], t) = "missing"
    BY <1>1, <1>2, <2>1 DEF ProcessTask
  <2>2. CASE Outcome(ex[e], t) # "missing"
    <3>1. runs' = [runs EXCEPT ![t] = @ + 1]
      BY <1>1, <2>2 DEF ProcessTask
    <3> QED
      BY <1>1, <1>2, <3>1
  <2> QED
    BY <2>1, <2>2
<1>4. Outcome(ex[e], t) = "ok" /\ t \notin NoneTasks => Good(t)'
  BY <1>1, <1>3 DEF Good, Outcome, Failing, NoneTasks
<1>5. ProtocolInv'
  BY <1>3, <1>4, OneMoves, RunStep DEF ExecutorInv, redis
<1>6. PICK ops \in SUBSET {"executing-task", "executed-task", "task-erred"} : Publish(ops, t)
  <2>1. Debug("executing-task") \subseteq {"executing-task"}
    BY DEF Debug
  <2> QED
    BY <2>1 DEF ProcessTask
<1>7. Reported' /\ msgs' \subseteq Message
  BY <1>1, <1>3, <1>6, PublishKeeps DEF redis
<1> QED
  BY <1>3, <1>5, <1>7, StepInv DEF ExecutorInv, TypeOK, redis

(* What running a task leaves alone in a container.                          *)
LEMMA RanFields ==
    ASSUME NEW x \in Container, NEW t \in Tasks, t \notin x.prev
    PROVE  LET r == Ran(x, t) IN
           /\ r \in Container /\ r.pc = x.pc /\ r.cur = x.cur /\ r.become = x.become
           /\ r.nodes = x.nodes /\ r.noValue = x.noValue /\ r.node = x.node
           /\ r.edges = x.edges /\ r.edge = x.edge /\ r.ready = x.ready
           /\ r.notReady = x.notReady /\ r.queue = x.queue /\ r.tries = x.tries
           /\ r.cached = x.cached /\ r.written = x.written
           /\ r.prev = IF Outcome(x, t) = "missing" THEN x.prev ELSE x.prev \cup Deps[t]
<1>0. Outcome(x, t) # "cached"
  BY DEF Outcome
<1>1. CASE Outcome(x, t) = "missing"
  BY <1>1 DEF Ran
<1>2. CASE Outcome(x, t) # "missing"
  <2> DEFINE done == IF t \in Failing THEN x.executed ELSE x.executed \cup {t}
             r == [x EXCEPT !.prev = x.prev \cup Deps[t], !.executed = done]
  <2>1. Deps[t] \subseteq Tasks /\ done \subseteq Tasks
    BY DepsFinite DEF Container
  <2>2. Ran(x, t) = r
    BY <1>0, <1>2 DEF Ran, Container
  <2> HIDE DEF done
  <2> QED
    BY ZenonT(60), <1>2, <2>1, <2>2 DEF Container
<1> QED
  BY <1>1, <1>2

(* The outcome of a run, computed again after it, is the same: a task that   *)
(* does not depend on itself finds no new input by running.                  *)
LEMMA OutcomeAfterRun ==
    ASSUME NEW x \in Container, NEW t \in Tasks, t \notin Deps[t], t \notin x.prev
    PROVE  Outcome(Ran(x, t), t) = Outcome(x, t)
<1> DEFINE w == Ran(x, t)
<1>1. t \notin w.prev
  BY RanFields
<1>2. CASE Outcome(x, t) = "missing"
  BY <1>2 DEF Ran
<1>3. CASE Outcome(x, t) # "missing"
  <2>1. Deps[t] \subseteq w.prev
    BY ZenonT(60), <1>3, RanFields
  <2>2. Deps[t] \subseteq x.prev \cup Readable
    BY <1>3 DEF Outcome
  <2> HIDE DEF w
  <2>3. Outcome(w, t) = Outcome(x, t)
    BY <1>1, <2>1, <2>2 DEF Outcome
  <2> QED
    BY <2>3 DEF w
<1> QED
  BY <1>2, <1>3

(* What putting a task that was just run into nodes_to_process changes.      *)
LEMMA PutRanFields ==
    ASSUME NEW x \in Container, NEW t \in Tasks, t \notin Deps[t], t \notin x.prev
    PROVE  LET z == PutNode(Ran(x, t), t) IN
           /\ z \in Container /\ z.pc = x.pc /\ z.cur = x.cur /\ z.become = x.become
           /\ z.nodes = x.nodes \cup {t} /\ z.node = x.node
           /\ z.noValue = IF t \in NoneTasks \/ Outcome(x, t) # "ok"
                          THEN x.noValue \cup {t} ELSE x.noValue
           /\ z.edges = x.edges /\ z.edge = x.edge /\ z.ready = x.ready
           /\ z.notReady = x.notReady /\ z.queue = x.queue /\ z.tries = x.tries
           /\ z.cached = x.cached /\ z.written = x.written
           /\ z.prev = IF Outcome(x, t) = "missing" THEN x.prev ELSE x.prev \cup Deps[t]
           /\ z.executed = Ran(x, t).executed
<1> DEFINE w == Ran(x, t)
           none == IF t \in NoneTasks \/ Outcome(x, t) # "ok"
                   THEN w.noValue \cup {t} ELSE w.noValue
           z == [w EXCEPT !.nodes = w.nodes \cup {t}, !.noValue = none]
<1>1. /\ w \in Container /\ w.pc = x.pc /\ w.cur = x.cur /\ w.become = x.become
      /\ w.nodes = x.nodes /\ w.node = x.node /\ w.noValue = x.noValue
      /\ w.edges = x.edges /\ w.edge = x.edge /\ w.ready = x.ready
      /\ w.notReady = x.notReady /\ w.queue = x.queue /\ w.tries = x.tries
      /\ w.cached = x.cached /\ w.written = x.written
      /\ w.prev = IF Outcome(x, t) = "missing" THEN x.prev ELSE x.prev \cup Deps[t]
  BY RanFields
<1>2. /\ Outcome(w, t) = Outcome(x, t) /\ Outcome(x, t) # "cached"
      /\ Outcome(x, t) = "ok" => t \notin Failing
      /\ t \in Failing => Outcome(x, t) # "ok"
  BY OutcomeAfterRun DEF Outcome
<1> HIDE DEF w
<1>3. t \in NoneTasks \cup Failing \/ ~HasResult(w, t) <=> t \in NoneTasks \/ Outcome(x, t) # "ok"
  BY <1>2 DEF HasResult
<1>4. PutNode(w, t) = z
  BY <1>1, <1>2, <1>3 DEF PutNode, Container
<1>5. none \subseteq Tasks
  BY <1>1 DEF Container
<1>6. /\ z \in Container /\ z.pc = w.pc /\ z.cur = w.cur /\ z.become = w.become
      /\ z.nodes = w.nodes \cup {t} /\ z.node = w.node /\ z.noValue = none
      /\ z.edges = w.edges /\ z.edge = w.edge /\ z.ready = w.ready
      /\ z.notReady = w.notReady /\ z.queue = w.queue /\ z.tries = w.tries
      /\ z.cached = w.cached /\ z.written = w.written
      /\ z.prev = w.prev /\ z.executed = w.executed
  <2> HIDE DEF none
  <2> QED
    BY <1>1, <1>5 DEF Container
<1>7. PutNode(Ran(x, t), t) = z /\ w = Ran(x, t)
  BY <1>4 DEF w
<1> QED
  BY <1>1, <1>6, <1>7

(* process_path runs current_path_node; an error ends the path.              *)
LEMMA ExecuteCurrentInv ==
    ASSUME ExecutorInv, NoRerun', NEW e \in Executors, ExecuteCurrent(e)
    PROVE  ExecutorInv'
<1> DEFINE x == ex[e]
           t == ex[e].cur
           z == PutNode(Ran(x, t), t)
           y == [z EXCEPT !.pc = "next"]
<1>1. x \in Container /\ Local(x) /\ x.pc = "task" /\ t \in Tasks /\ t \in TokensOf(x)
  BY DEF ExecutorInv, TypeOK, ExecuteCurrent, At, Local, ClaimsApart, TokensOf
<1>2. /\ runs[t] = 0 /\ t \notin Deps[t] /\ \A i \in x.queue : i.large # t
      /\ t \notin x.prev /\ (HasResult(x, t) <=> Outcome(x, t) = "ok")
  BY <1>1, TokenFacts DEF HasResult, Outcome
<1>3. ProcessTask(x, t) /\ UNCHANGED <<result, redis, pending, rerun>>
  BY FailReturns DEF ExecuteCurrent, BecomesUnless
<1>4. CASE Outcome(x, t) # "ok"
  <2>1. Becomes(e, Return(x))
    <3>1. CASE Raises(x, t)
      BY <3>1, FailReturns DEF ExecuteCurrent, BecomesUnless
    <3>2. CASE ~Raises(x, t)
      BY <1>2, <1>4, <3>2 DEF ExecuteCurrent, BecomesUnless
    <3> QED
      BY <3>1, <3>2
  <2>2. Return(x).cur = None /\ Return(x).pc = "idle" /\ TokensOf(Return(x)) = {}
    BY NoneIsNoTask DEF Return, Idle, TokensOf
  <2>3. History(Return(x), runs', final)
    BY <2>2, NoneIsNoTask DEF History, Return, Idle
  <2>4. Follows(x, Return(x))
    BY <1>1, ReturnFollows DEF Local
  <2> QED
    BY <1>1, <1>3, <2>1, <2>2, <2>3, <2>4, RunInv DEF Follows, CacheFollows
<1>5. CASE Outcome(x, t) = "ok"
  <2>1. Becomes(e, y)
    <3>1. ~Raises(x, t)
      BY <1>5 DEF Raises
    <3> QED
      BY <1>2, <1>5, <3>1 DEF ExecuteCurrent, BecomesUnless
  <2>2. /\ y \in Container /\ y.pc = "next" /\ y.cur = t /\ y.become = x.become
        /\ y.nodes = x.nodes \cup {t} /\ y.node = x.node
        /\ y.noValue = IF t \in NoneTasks THEN x.noValue \cup {t} ELSE x.noValue
        /\ y.edges = x.edges /\ y.edge = x.edge /\ y.ready = x.ready
        /\ y.notReady = x.notReady /\ y.queue = x.queue /\ y.tries = x.tries
        /\ y.prev = x.prev \cup Deps[t]
    <3>1. /\ z \in Container /\ z.cur = t /\ z.become = x.become
          /\ z.nodes = x.nodes \cup {t} /\ z.node = x.node
          /\ z.noValue = IF t \in NoneTasks THEN x.noValue \cup {t} ELSE x.noValue
          /\ z.edges = x.edges /\ z.edge = x.edge /\ z.ready = x.ready
          /\ z.notReady = x.notReady /\ z.queue = x.queue /\ z.tries = x.tries
          /\ z.prev = x.prev \cup Deps[t]
      BY <1>1, <1>2, <1>5, PutRanFields
    <3> HIDE DEF z
    <3> QED
      BY <3>1 DEF Container, Pcs
  <2> HIDE DEF y
  <2>3. Local(y)
    BY <1>1, <1>2, <2>2 DEF Local, ClaimsApart, EdgesApart, QueueApart, EdgePcs, BigPcs, WaitPcs
  <2>4. TokensOf(y) \subseteq TokensOf(x) \ {t} /\ BookOf(y) = {}
    BY <1>1, <2>2 DEF TokensOf, BookOf, Local, ClaimsApart
  <2>5. HeldBy(y) \subseteq HeldBy(x) \cup OutEdges(t)
    BY <1>1, <2>2 DEF HeldBy, OutEdges
  <2>6. \A g \in LiveBy(y) : g \in LiveBy(x) \/ (g[1] = t /\ t \notin NoneTasks)
    BY <1>1, <2>2, <2>5 DEF LiveBy, OutEdges
  <2>7. runs'[t] = 1
    BY <1>1, <1>2, <1>3, <1>5 DEF ProcessTask, ExecutorInv, TypeOK
  <2>8. History(y, runs', final)
    <3>1. /\ \A s \in Tasks : runs[s] = 1 => runs'[s] = 1
          /\ \A d \in Deps[t] : d \in Tasks /\ runs[d] = 1
          /\ x.prev \subseteq Tasks /\ x.noValue \subseteq y.noValue
      BY <1>1, <1>2, <1>3, <2>2, InputsRan DEF ProcessTask, ExecutorInv, TypeOK, Container
    <3>2. \A d \in x.prev : runs[d] = 1 \/ d \in x.noValue \ Roots
      BY DEF ExecutorInv, History
    <3> QED
      BY <2>2, <2>7, <3>1, <3>2 DEF History
  <2> QED
    BY <1>1, <1>3, <1>5, <2>1, <2>2, <2>3, <2>4, <2>5, <2>6, <2>8, RunInv
<1> QED
  BY <1>4, <1>5

(* A ready task was run, or given up on, and its output kept, or not.        *)
AfterReady(x, t, z) ==
    /\ z \in Container /\ z.pc = x.pc /\ z.cur = x.cur /\ z.become = x.become
    /\ z.node = x.node /\ z.edges = x.edges /\ z.edge = x.edge
    /\ z.ready \subseteq x.ready \ {t} /\ z.notReady = x.notReady /\ z.queue = x.queue
    /\ z.tries = x.tries /\ z.prev \subseteq x.prev \cup Deps[t] \cup {t}
    /\ t \in z.prev => t \in x.prev \/ Outcome(x, t) # "missing" \/ t \in z.noValue \ Roots
    /\ \/ z.nodes = x.nodes /\ z.noValue = x.noValue
       \/ /\ z.nodes = x.nodes \cup {t}
          /\ z.noValue = IF t \in NoneTasks \/ Outcome(x, t) # "ok"
                         THEN x.noValue \cup {t} ELSE x.noValue

(* Such a run uses up the token of t and may add its out-edges.              *)
LEMMA AfterReadyFacts ==
    ASSUME ExecutorInv, NEW e \in Executors, ex[e].pc \in {"pull", "queueExec", "giveExec"},
           NEW t \in ex[e].ready, NEW z, AfterReady(ex[e], t, z)
    PROVE  /\ Local(z) /\ t \in TokensOf(ex[e]) /\ TokensOf(z) \subseteq TokensOf(ex[e]) \ {t}
           /\ HeldBy(z) \subseteq HeldBy(ex[e]) \cup OutEdges(t) /\ BookOf(z) = {}
           /\ \A g \in LiveBy(z) : \/ g \in LiveBy(ex[e])
                                   \/ g[1] = t /\ Outcome(ex[e], t) = "ok" /\ t \notin NoneTasks
<1> DEFINE x == ex[e]
<1>1. x \in Container /\ Local(x)
  BY DEF ExecutorInv, TypeOK
<1>2. t \in TokensOf(x)
  BY <1>1 DEF TokensOf, Container
<1>3. t \in Tasks /\ \A i \in x.queue : i.large # t
  BY <1>2, TokenFacts
<1>4. Local(z)
  BY <1>1, <1>3 DEF AfterReady, Local, ClaimsApart, EdgesApart, QueueApart, EdgePcs, BigPcs, WaitPcs
<1>5. TokensOf(z) \subseteq TokensOf(x) \ {t} /\ BookOf(z) = {}
  BY <1>1 DEF AfterReady, TokensOf, BookOf, Local, ClaimsApart
<1>6. HeldBy(z) \subseteq HeldBy(x) \cup OutEdges(t)
  BY DEF AfterReady, HeldBy, OutEdges
<1>7. \A g \in LiveBy(z) : g \in LiveBy(x) \/ (g[1] = t /\ Outcome(x, t) = "ok" /\ t \notin NoneTasks)
  <2>1. CASE z.nodes = x.nodes /\ z.noValue = x.noValue
    BY <2>1 DEF AfterReady, LiveBy, HeldBy
  <2>2. CASE /\ z.nodes = x.nodes \cup {t}
             /\ z.noValue = IF t \in NoneTasks \/ Outcome(x, t) # "ok"
                            THEN x.noValue \cup {t} ELSE x.noValue
    BY <1>6, <2>2 DEF LiveBy, OutEdges
  <2> QED
    BY <2>1, <2>2 DEF AfterReady
<1> QED
  BY <1>2, <1>4, <1>5, <1>6, <1>7

(* A step that runs a ready task and goes on from there.                     *)
LEMMA ReadyRunInv ==
    ASSUME ExecutorInv, NEW e \in Executors, ex[e].pc \in {"pull", "queueExec", "giveExec"},
           NEW t \in ex[e].ready, NEW z, AfterReady(ex[e], t, z), NEW y, Follows(z, y),
           ProcessTask(ex[e], t), Becomes(e, y), UNCHANGED <<result, redis, pending, rerun>>
    PROVE  ExecutorInv'
<1> DEFINE x == ex[e]
<1>1. t \in TokensOf(x) /\ t \in Tasks /\ runs[t] = 0 /\ t \notin x.prev
  BY AfterReadyFacts, TokenFacts
<1>2. /\ \A s \in Tasks : runs[s] = 1 => runs'[s] = 1
      /\ Outcome(x, t) # "missing" => runs'[t] = 1
  BY <1>1 DEF ProcessTask, Outcome, ExecutorInv, TypeOK
<1>3. History(x, runs, final) /\ x.prev \subseteq Tasks
  BY DEF ExecutorInv, TypeOK, Container
<1>4. \A d \in z.prev : runs'[d] = 1 \/ d \in z.noValue \ Roots
  <2> SUFFICES ASSUME NEW d \in z.prev, d \notin z.noValue \ Roots
               PROVE  runs'[d] = 1
    OBVIOUS
  <2>1. x.noValue \subseteq z.noValue
    BY DEF AfterReady
  <2>2. CASE d \in x.prev
    BY <1>2, <1>3, <2>1, <2>2 DEF History
  <2>3. CASE d \in Deps[t]
    BY <1>1, <1>2, <2>3, InputsRan
  <2>4. CASE d = t
    BY <1>1, <1>2, <2>4 DEF AfterReady
  <2> QED
    BY <2>2, <2>3, <2>4 DEF AfterReady
<1>5. History(y, runs', final)
  BY <1>2, <1>3, <1>4, NoneIsNoTask DEF Follows, CacheFollows, History, AfterReady
<1> QED
  BY <1>1, <1>5, AfterReadyFacts, RunInv DEF Follows, CacheFollows

(* Failing at a ready task, which returns from the handler.                  *)
LEMMA ReadyFailInv ==
    ASSUME ExecutorInv, NEW e \in Executors, ex[e].pc \in {"pull", "queueExec", "giveExec"},
           NEW t \in ex[e].ready, ProcessTask(ex[e], t), Becomes(e, Return(ex[e])),
           UNCHANGED <<result, redis, pending, rerun>>
    PROVE  ExecutorInv'
<1> DEFINE x == ex[e]
           z == [x EXCEPT !.ready = {}]
<1>1. x \in Container
  BY DEF ExecutorInv, TypeOK
<1>2. AfterReady(x, t, z)
  BY <1>1 DEF AfterReady, Container
<1>3. Local(z)
  BY <1>1, <1>2, AfterReadyFacts
<1>4. Return(z) = Return(x)
  BY <1>1 DEF Return, Container
<1> HIDE DEF z
<1>5. Follows(z, Return(z))
  BY <1>2, <1>3, ReturnFollows DEF AfterReady, Local
<1> QED
  BY <1>1, <1>2, <1>4, <1>5, ReadyRunInv

(* process_enqueued_tasks runs a ready task; an error ends the pass, and     *)
(* maybe the path.                                                           *)
LEMMA ExecuteEnqueuedInv ==
    ASSUME ExecutorInv, NoRerun', NEW e \in Executors, ExecuteEnqueued(e)
    PROVE  ExecutorInv'
<1> DEFINE x == ex[e]
           Y(t) == Keep(RanReady(x, t), t)
           G(t) == CASE HasResult(x, t) -> IF Y(t).ready = {} THEN EndOfPass(Y(t)) ELSE Y(t)
                     [] ~HasResult(x, t) /\ x.looped -> NextIteration([x EXCEPT !.ready = {}])
                     [] OTHER -> Return(x)
<1>1. x \in Container /\ Local(x) /\ x.pc = "queueExec" /\ UNCHANGED <<result, redis>>
  BY DEF ExecutorInv, TypeOK, ExecuteEnqueued, At
<1>2. x.edges = {} /\ x.notReady = {}
  BY <1>1 DEF Local, EdgesApart, QueueApart, EdgePcs, WaitPcs
<1>3. PICK t \in x.ready : ProcessTask(x, t) /\ BecomesUnless(EnqueuedFails(x, t), e, x, G(t))
  BY DEF ExecuteEnqueued
<1>4. /\ UNCHANGED <<pending, rerun>>
      /\ EnqueuedFails(x, t) => Becomes(e, Return(x))
      /\ ~EnqueuedFails(x, t) => Becomes(e, G(t))
  <2> HIDE DEF G
  <2> QED
    BY <1>3, FailReturns DEF BecomesUnless
<1>5. t \in TokensOf(x) /\ t \in Tasks
  BY <1>1 DEF TokensOf, Container
<1>6. t \notin Deps[t] /\ t \notin x.prev /\ (HasResult(x, t) <=> Outcome(x, t) = "ok")
  BY <1>5, TokenFacts DEF HasResult, Outcome
<1>7. CASE Outcome(x, t) = "ok"
  <2> DEFINE y == Y(t)
             p == PutNode(Ran(x, t), t)
  <2>1. /\ p \in Container /\ p.pc = x.pc /\ p.cur = x.cur /\ p.become = x.become
        /\ p.nodes = x.nodes \cup {t} /\ p.node = x.node
        /\ p.noValue = IF t \in NoneTasks \/ Outcome(x, t) # "ok"
                       THEN x.noValue \cup {t} ELSE x.noValue
        /\ p.edges = x.edges /\ p.edge = x.edge /\ p.ready = x.ready
        /\ p.notReady = x.notReady /\ p.queue = x.queue /\ p.tries = x.tries
    BY <1>1, <1>5, <1>6, PutRanFields
  <2>2. p.prev = x.prev \cup Deps[t]
    BY <1>1, <1>5, <1>6, <1>7, PutRanFields
  <2>3. AfterReady(x, t, y) /\ y.pc = "queueExec"
    <3>1. y = [[p EXCEPT !.ready = @ \ {t}] EXCEPT !.prev = @ \cup {t}]
      BY DEF Keep, RanReady
    <3> HIDE DEF p
    <3> HIDE DEF Y
    <3>2. /\ y \in Container /\ y.pc = p.pc /\ y.cur = p.cur /\ y.become = p.become
          /\ y.nodes = p.nodes /\ y.node = p.node /\ y.noValue = p.noValue
          /\ y.edges = p.edges /\ y.edge = p.edge /\ y.ready = p.ready \ {t}
          /\ y.notReady = p.notReady /\ y.queue = p.queue /\ y.tries = p.tries
          /\ y.prev = p.prev \cup {t}
      BY ZenonT(60), <1>5, <2>1, <3>1 DEF Container
    <3> QED
      BY <1>1, <1>7, <2>1, <2>2, <3>2 DEF AfterReady
  <2>4. ~EnqueuedFails(x, t)
    BY <1>6, <1>7 DEF EnqueuedFails, Raises
  <2>5. Becomes(e, IF y.ready = {} THEN EndOfPass(y) ELSE y)
    BY <1>4, <1>6, <1>7, <2>4
  <2> HIDE DEF y, p
  <2>6. Local(y) /\ y \in Container /\ BookOf(y) = {}
    BY <1>1, <2>3, AfterReadyFacts DEF AfterReady
  <2>7. CASE y.ready = {}
    <3>1. Follows(y, EndOfPass(y))
      BY <1>2, <2>3, <2>6, EndOfPassFollows DEF AfterReady, Local
    <3> QED
      BY <1>1, <1>3, <1>4, <2>3, <2>5, <2>7, <3>1, ReadyRunInv
  <2>8. CASE y.ready # {}
    <3>1. y.pc = "queueExec" /\ y.cur \in {y.cur, None}
      BY <2>3
    <3>2. Follows(y, y)
      BY <2>6, <3>1 DEF Follows, CacheFollows
    <3> QED
      BY <1>1, <1>3, <1>4, <2>3, <2>5, <2>8, <3>2, ReadyRunInv
  <2> QED
    BY <2>7, <2>8
<1>8. CASE Outcome(x, t) # "ok" /\ ~EnqueuedFails(x, t) /\ x.looped
  <2> DEFINE z == [x EXCEPT !.ready = {}]
  <2>1. AfterReady(x, t, z) /\ z.edges = {} /\ z.notReady = {}
    BY <1>1, <1>2 DEF AfterReady, Container
  <2>2. Local(z)
    BY <1>1, <2>1, AfterReadyFacts
  <2>3. Becomes(e, NextIteration(z))
    BY <1>4, <1>6, <1>8
  <2> HIDE DEF z
  <2>4. Follows(z, NextIteration(z))
    BY <2>1, <2>2, NextIterationFollows DEF AfterReady, Local
  <2> QED
    BY <1>1, <1>3, <1>4, <2>1, <2>3, <2>4, ReadyRunInv
<1>9. CASE Outcome(x, t) # "ok" /\ (EnqueuedFails(x, t) \/ ~x.looped)
  <2>1. Becomes(e, Return(x))
    BY <1>4, <1>6, <1>9
  <2> QED
    BY <1>1, <1>3, <1>4, <2>1, ReadyFailInv
<1> QED
  BY <1>7, <1>8, <1>9

(* process_enqueued_tasks_looped, giving up, runs a task its increments made *)
(* ready.                                                                    *)
LEMMA GiveUpExecuteInv ==
    ASSUME ExecutorInv, NoRerun', NEW e \in Executors, GiveUpExecute(e)
    PROVE  ExecutorInv'
<1> DEFINE x == ex[e]
           Y(t) == RanReady(x, t)
           W(t) == IF HasResult(x, t) THEN Keep(Y(t), t) ELSE Y(t)
           fails(t) == Raises(x, t) \/ (~HasResult(x, t) /\ x.nodes = {})
<1>1. x \in Container /\ Local(x) /\ x.pc = "giveExec" /\ UNCHANGED <<result, redis>>
  BY DEF ExecutorInv, TypeOK, GiveUpExecute, At
<1>2. PICK t \in x.ready : ProcessTask(x, t) /\ BecomesUnless(fails(t), e, x, GiveUpLeft(W(t)))
  BY DEF GiveUpExecute
<1>3. /\ UNCHANGED <<pending, rerun>>
      /\ Becomes(e, Return(x)) \/ Becomes(e, GiveUpLeft(W(t)))
  <2> HIDE DEF W, fails
  <2> QED
    BY <1>2, FailReturns DEF BecomesUnless
<1>4. t \in TokensOf(x) /\ t \in Tasks
  BY <1>1 DEF TokensOf, Container
<1>5. t \notin Deps[t] /\ t \notin x.prev /\ (HasResult(x, t) <=> Outcome(x, t) = "ok")
  BY <1>4, TokenFacts DEF HasResult, Outcome
<1>6. CASE Becomes(e, Return(x))
  BY <1>1, <1>2, <1>3, <1>6, ReadyFailInv
<1>7. CASE Becomes(e, GiveUpLeft(W(t)))
  <2> DEFINE p == PutNode(Ran(x, t), t)
             y == Y(t)
             w == W(t)
  <2>1. /\ p \in Container /\ p.pc = x.pc /\ p.cur = x.cur /\ p.become = x.become
        /\ p.nodes = x.nodes \cup {t} /\ p.node = x.node
        /\ p.noValue = IF t \in NoneTasks \/ Outcome(x, t) # "ok"
                       THEN x.noValue \cup {t} ELSE x.noValue
        /\ p.edges = x.edges /\ p.edge = x.edge /\ p.ready = x.ready
        /\ p.notReady = x.notReady /\ p.queue = x.queue /\ p.tries = x.tries
    BY <1>1, <1>4, <1>5, PutRanFields
  <2>2. p.prev \subseteq x.prev \cup Deps[t]
    BY <1>1, <1>4, <1>5, PutRanFields
  <2>3. y = [p EXCEPT !.ready = @ \ {t}]
    BY DEF RanReady
  <2> HIDE DEF p, y, Y
  <2>4. /\ y \in Container /\ y.pc = p.pc /\ y.cur = p.cur /\ y.become = p.become
        /\ y.nodes = p.nodes /\ y.node = p.node /\ y.noValue = p.noValue
        /\ y.edges = p.edges /\ y.edge = p.edge /\ y.ready = p.ready \ {t}
        /\ y.notReady = p.notReady /\ y.queue = p.queue /\ y.tries = p.tries
        /\ y.prev = p.prev
    BY <2>1, <2>3 DEF Container
  <2>5. w = IF Outcome(x, t) = "ok" THEN [y EXCEPT !.prev = @ \cup {t}] ELSE y
    BY <1>5 DEF y, Keep
  <2> HIDE DEF w, W
  <2>6. /\ w \in Container /\ w.pc = y.pc /\ w.cur = y.cur /\ w.become = y.become
        /\ w.nodes = y.nodes /\ w.node = y.node /\ w.noValue = y.noValue
        /\ w.edges = y.edges /\ w.edge = y.edge /\ w.ready = y.ready
        /\ w.notReady = y.notReady /\ w.queue = y.queue /\ w.tries = y.tries
        /\ w.prev = IF Outcome(x, t) = "ok" THEN y.prev \cup {t} ELSE y.prev
    BY <1>4, <2>4, <2>5 DEF Container
  <2>7. AfterReady(x, t, w)
    BY <1>5, <2>1, <2>2, <2>4, <2>6 DEF AfterReady
  <2>8. Local(w)
    BY <1>1, <2>7, AfterReadyFacts
  <2>9. Follows(w, GiveUpLeft(w))
    BY <1>1, <2>1, <2>4, <2>6, <2>8, GiveUpLeftFollows
  <2>10. Becomes(e, GiveUpLeft(w))
    BY <1>7 DEF w
  <2> QED
    BY <1>1, <1>2, <1>3, <2>7, <2>9, <2>10, ReadyRunInv
<1> QED
  BY <1>3, <1>6, <1>7

(* process_big runs a task pulled down, root or not.                         *)
LEMMA ExecutePulledInv ==
    ASSUME ExecutorInv, NoRerun', NEW e \in Executors, ExecutePulled(e)
    PROVE  ExecutorInv'
<1> DEFINE x == ex[e]
           Y(t) == Keep(RanReady(x, t), t)
           root(t) == [Y(t) EXCEPT !.nodes = x.nodes, !.noValue = x.noValue, !.cached = x.cached,
                                   !.pc = "pullSet", !.edge = t]
           other(t) == [Y(t) EXCEPT !.cached = x.cached \ {t}]
           fails(t) == Raises(x, t) \/ (Outcome(x, t) = "missing" /\ t \in Roots)
<1>1. x \in Container /\ Local(x) /\ x.pc = "pull" /\ UNCHANGED <<result, redis>>
  BY DEF ExecutorInv, TypeOK, ExecutePulled, At
<1>2. PICK t \in x.ready :
          /\ ProcessTask(x, t)
          /\ BecomesUnless(fails(t), e, x, IF t \in Roots THEN root(t) ELSE PulledLeft(other(t)))
  BY ZenonT(60) DEF ExecutePulled
<1>3. /\ UNCHANGED <<pending, rerun>>
      /\ \/ Becomes(e, Return(x))
         \/ ~fails(t) /\ Becomes(e, IF t \in Roots THEN root(t) ELSE PulledLeft(other(t)))
  <2> HIDE DEF fails, root, other
  <2> QED
    BY <1>2, FailReturns DEF BecomesUnless
<1>4. t \in TokensOf(x) /\ t \in Tasks
  BY <1>1 DEF TokensOf, Container
<1>5. t \notin Deps[t] /\ runs[t] = 0 /\ t \notin x.prev
  BY <1>4, TokenFacts
<1> DEFINE p == PutNode(Ran(x, t), t)
           y == Y(t)
<1>6. /\ p \in Container /\ p.pc = x.pc /\ p.cur = x.cur /\ p.become = x.become
      /\ p.nodes = x.nodes \cup {t} /\ p.node = x.node
      /\ p.noValue = IF t \in NoneTasks \/ Outcome(x, t) # "ok"
                     THEN x.noValue \cup {t} ELSE x.noValue
      /\ p.edges = x.edges /\ p.edge = x.edge /\ p.ready = x.ready
      /\ p.notReady = x.notReady /\ p.queue = x.queue /\ p.tries = x.tries
  BY <1>1, <1>4, <1>5, PutRanFields
<1>7. p.prev \subseteq x.prev \cup Deps[t]
  BY <1>1, <1>4, <1>5, PutRanFields
<1>8. y = [[p EXCEPT !.ready = @ \ {t}] EXCEPT !.prev = @ \cup {t}]
  BY DEF Keep, RanReady
<1> HIDE DEF p, Y
<1>9. /\ y \in Container /\ y.pc = p.pc /\ y.cur = p.cur /\ y.become = p.become
      /\ y.nodes = p.nodes /\ y.node = p.node /\ y.noValue = p.noValue
      /\ y.edges = p.edges /\ y.edge = p.edge /\ y.ready = p.ready \ {t}
      /\ y.notReady = p.notReady /\ y.queue = p.queue /\ y.tries = p.tries
      /\ y.prev = p.prev \cup {t}
  BY ZenonT(60), <1>4, <1>6, <1>8 DEF Container
<1> HIDE DEF y
<1>10. CASE Becomes(e, Return(x))
  BY <1>1, <1>2, <1>3, <1>10, ReadyFailInv
<1>11. CASE t \notin Roots /\ Becomes(e, PulledLeft(other(t)))
  <2> DEFINE z == other(t)
  <2>1. z = [y EXCEPT !.cached = x.cached \ {t}] /\ x.cached \subseteq Tasks
    BY <1>1 DEF y, Container
  <2>2. /\ z \in Container /\ z.pc = y.pc /\ z.cur = y.cur /\ z.become = y.become
        /\ z.nodes = y.nodes /\ z.node = y.node /\ z.noValue = y.noValue
        /\ z.edges = y.edges /\ z.edge = y.edge /\ z.ready = y.ready
        /\ z.notReady = y.notReady /\ z.queue = y.queue /\ z.tries = y.tries
        /\ z.prev = y.prev
    BY <1>9, <2>1 DEF Container
  <2> HIDE DEF z, other
  <2>3. AfterReady(x, t, z)
    BY <1>6, <1>7, <1>9, <1>11, <2>2 DEF AfterReady
  <2>4. Local(z)
    BY <1>1, <2>3, AfterReadyFacts
  <2>5. Follows(z, PulledLeft(z))
    BY <1>1, <1>6, <1>9, <2>2, <2>4, PulledLeftFollows
  <2>6. Becomes(e, PulledLeft(z))
    BY <1>11 DEF z
  <2> QED
    BY <1>1, <1>2, <1>3, <2>3, <2>5, <2>6, ReadyRunInv
<1>12. CASE t \in Roots /\ ~fails(t) /\ Becomes(e, root(t))
  <2> DEFINE z == root(t)
             w == [y EXCEPT !.nodes = x.nodes, !.noValue = x.noValue]
  <2>1. z = [y EXCEPT !.nodes = x.nodes, !.noValue = x.noValue, !.cached = x.cached,
                      !.pc = "pullSet", !.edge = t]
    BY DEF y
  <2>2. x.nodes \subseteq Tasks /\ x.noValue \subseteq Tasks /\ x.cached \subseteq Tasks
    BY <1>1 DEF Container
  <2> HIDE DEF root, z
  <2>3. /\ w \in Container /\ w.pc = y.pc /\ w.cur = y.cur /\ w.become = y.become
        /\ w.nodes = x.nodes /\ w.node = y.node /\ w.noValue = x.noValue
        /\ w.edges = y.edges /\ w.edge = y.edge /\ w.ready = y.ready
        /\ w.notReady = y.notReady /\ w.queue = y.queue /\ w.tries = y.tries
        /\ w.prev = y.prev
    BY <1>9, <2>2 DEF Container
  <2>4. /\ z \in Container /\ z.pc = "pullSet" /\ z.cur = y.cur /\ z.become = y.become
        /\ z.nodes = x.nodes /\ z.node = y.node /\ z.noValue = x.noValue
        /\ z.edges = y.edges /\ z.edge = t /\ z.ready = y.ready
        /\ z.notReady = y.notReady /\ z.queue = y.queue /\ z.tries = y.tries
        /\ z.prev = y.prev
    BY ZenonT(60), <1>4, <1>9, <2>1, <2>2 DEF Container, Pcs
  <2> HIDE DEF w
  <2>5. Outcome(x, t) # "missing"
    BY <1>12
  <2>6. AfterReady(x, t, w)
    BY <1>6, <1>7, <1>9, <2>3, <2>5 DEF AfterReady
  <2>7. Local(w)
    BY <1>1, <2>6, AfterReadyFacts
  <2>8. Local(z)
    BY <1>1, <1>4, <1>6, <1>9, <2>3, <2>4, <2>7
       DEF Local, ClaimsApart, EdgesApart, QueueApart, EdgePcs, BigPcs, WaitPcs
  <2>9. HeldBy(z) \subseteq HeldBy(w) /\ LiveBy(z) \subseteq LiveBy(w)
    BY <2>3, <2>4 DEF HeldBy, LiveBy
  <2>10. TokensOf(z) \subseteq TokensOf(w) /\ BookOf(z) = {}
    BY <2>3, <2>4 DEF TokensOf, BookOf
  <2>11. runs'[t] = 1 /\ \A s \in Tasks : runs[s] = 1 => runs'[s] = 1
    BY <1>2, <1>4, <1>5, <2>5 DEF ProcessTask, Outcome, ExecutorInv, TypeOK
  <2>12. History(x, runs, final) /\ x.prev \subseteq Tasks
    BY <1>1 DEF ExecutorInv, Container
  <2>13. \A d \in Deps[t] : d \in Tasks /\ runs[d] = 1
    BY <1>4, InputsRan
  <2>14. History(z, runs', final)
    BY <1>1, <1>6, <1>7, <1>9, <2>4, <2>11, <2>12, <2>13 DEF History
  <2>15. Becomes(e, z)
    BY <1>12 DEF z
  <2> QED
    BY <1>1, <1>2, <1>3, <1>4, <2>4, <2>6, <2>8, <2>9, <2>10, <2>14, <2>15, AfterReadyFacts, RunInv
<1> QED
  <2> HIDE DEF root, other, fails
  <2> QED
    BY <1>3, <1>10, <1>11, <1>12
-----------------------------------------------------------------------------
(* process_path takes the next node; its out-edges move from                 *)
(* nodes_to_process to out_edges, or are dropped with an output of None.     *)
LEMMA SelectNodeInv ==
    ASSUME ExecutorInv, NoRerun', NEW e \in Executors, SelectNode(e)
    PROVE  ExecutorInv'
<1> DEFINE x == ex[e]
           Z(n) == TakeNode(x, n)
           P(n) == IF n \in Big THEN "bigGet" ELSE IF Z(n).become = None THEN "peek" ELSE "store"
           S(n) == [Z(n) EXCEPT !.edges = Downstream(n), !.prev = @ \cup {n}, !.pc = P(n)]
           G(n) == IF n \in Roots THEN AfterNode(Z(n)) ELSE S(n)
<1>1. /\ x \in Container /\ Local(x) /\ x.pc = "next"
      /\ UNCHANGED <<result, counter, counted, store, final, msgs, runs>>
  BY DEF ExecutorInv, TypeOK, SelectNode, At, redis
<1>2. PICK n \in x.nodes : BecomesUnless(n \in x.noValue \ Roots, e, Z(n), G(n))
  BY ZenonT(60) DEF SelectNode
<1>3. /\ UNCHANGED <<pending, rerun>>
      /\ n \in x.noValue \ Roots => Becomes(e, Return(Z(n)))
      /\ n \notin x.noValue \ Roots => Becomes(e, G(n))
  <2> HIDE DEF Z, G
  <2> QED
    BY <1>2, FailReturns DEF BecomesUnless
<1> DEFINE z == Z(n)
           p == P(n)
<1>4. n \in Tasks /\ p \in {"bigGet", "peek", "store"} /\ (n \in x.cached) \in BOOLEAN
  BY <1>1, <1>2 DEF Container
<1>5. /\ z \in Container /\ z.pc = "next" /\ z.cur = x.cur /\ z.become = x.become
      /\ z.nodes = x.nodes \ {n} /\ z.node = n /\ z.noValue = x.noValue \ {n}
      /\ z.edges = x.edges /\ z.edge = x.edge /\ z.ready = x.ready
      /\ z.notReady = x.notReady /\ z.queue = x.queue /\ z.tries = x.tries
      /\ z.prev = x.prev
  BY ZenonT(60), <1>1, <1>4 DEF TakeNode, Container
<1>6. x.edges = {} /\ x.notReady = {} /\ \A i \in x.queue : i.large # n
  BY <1>1, <1>2 DEF Local, EdgesApart, QueueApart, EdgePcs, WaitPcs
<1>7. Reported' /\ store' \subseteq Tasks /\ final' \subseteq Tasks /\ msgs' \subseteq Message
  BY <1>1 DEF ExecutorInv, TypeOK, Reported
<1>8. History(x, runs, final)
  BY DEF ExecutorInv
<1>9. CASE n \in Roots \/ n \in x.noValue
  <2>1. \/ n \in Roots /\ Becomes(e, AfterNode(z))
        \/ Becomes(e, Return(z))
    BY <1>3, <1>9
  <2> HIDE DEF z, p
  <2>2. Local(z)
    BY <1>1, <1>5, <1>6 DEF Local, ClaimsApart, EdgesApart, QueueApart, EdgePcs, BigPcs, WaitPcs
  <2>3. HeldBy(z) \subseteq HeldBy(x) /\ LiveBy(z) \subseteq LiveBy(x)
    BY <1>1, <1>5, <1>6 DEF HeldBy, LiveBy
  <2>4. TokensOf(z) \subseteq TokensOf(x)
    BY <1>1, <1>5 DEF TokensOf
  <2>5. CASE n \in Roots /\ Becomes(e, AfterNode(z))
    <3>1. Follows(z, AfterNode(z))
      BY <1>5, <2>2, AfterNodeFollows
    <3>2. Follows(x, AfterNode(z))
      BY <1>5, <2>3, <2>4, <2>5, <3>1 DEF Follows, CacheFollows
    <3> QED
      BY <1>1, <1>3, <1>7, <2>5, <3>2, QuietInv
  <2>6. CASE Becomes(e, Return(z))
    <3>1. Follows(z, Return(z)) /\ Return(z).prev = {}
      BY <1>5, <2>2, ReturnFollows DEF Local, Return, Idle
    <3>2. Follows(x, Return(z))
      BY <1>5, <2>3, <2>4, <3>1 DEF Follows, CacheFollows
    <3> QED
      BY <1>1, <1>3, <1>7, <2>6, <3>2, QuietInv
  <2> QED
    BY <2>1, <2>5, <2>6
<1>10. CASE n \notin Roots /\ n \notin x.noValue
  <2> DEFINE y == S(n)
  <2>1. Becomes(e, y)
    BY <1>3, <1>10
  <2>2. y = [z EXCEPT !.edges = Downstream(n), !.prev = @ \cup {n}, !.pc = p]
    OBVIOUS
  <2> HIDE DEF z, p, y
  <2>3. /\ y \in Container /\ y.pc = p /\ y.cur = z.cur /\ y.become = z.become
        /\ y.nodes = z.nodes /\ y.node = z.node /\ y.noValue = z.noValue
        /\ y.edges = Downstream(n) /\ y.edge = z.edge /\ y.ready = z.ready
        /\ y.notReady = z.notReady /\ y.queue = z.queue /\ y.tries = z.tries
        /\ y.prev = z.prev \cup {n}
    BY ZenonT(60), <1>4, <1>5, <2>2 DEF Container, Pcs, Downstream
  <2>4. Local(y)
    BY <1>1, <1>4, <1>5, <1>6, <1>10, <2>3
       DEF Local, ClaimsApart, EdgesApart, QueueApart, EdgePcs, BigPcs, WaitPcs
  <2>5. HeldBy(y) \subseteq HeldBy(x)
    BY <1>1, <1>2, <1>4, <1>5, <1>6, <2>3 DEF HeldBy
  <2>6. LiveBy(y) \subseteq LiveBy(x)
    BY <1>1, <1>5, <1>6, <1>10, <2>3, <2>5 DEF LiveBy
  <2>7. TokensOf(y) \subseteq TokensOf(x) /\ BookOf(y) = {}
    BY <1>4, <1>5, <2>3 DEF TokensOf, BookOf
  <2>8. ProtocolInv'
    BY <1>1, <1>3, <2>1, <2>5, <2>6, <2>7, OneMoves, QuietStep DEF ExecutorInv
  <2>9. runs[n] = 1
    <3>1. PICK s \in Tasks : s \in Downstream(n)
      BY <1>4, <1>10 DEF Roots, Downstream
    <3>2. <<n, s>> \in LiveBy(x)
      BY <1>2, <1>4, <1>10, <3>1 DEF LiveBy, HeldBy
    <3> QED
      BY <3>2 DEF ExecutorInv, ProtocolInv, EdgesGood, Good
  <2>10. History(y, runs', final')
    BY <1>1, <1>4, <1>5, <1>8, <1>10, <2>3, <2>9, NoneIsNoTask DEF History
  <2> QED
    BY <1>1, <1>3, <1>7, <2>1, <2>3, <2>4, <2>8, <2>10, StepInv DEF ExecutorInv, TypeOK
<1> QED
  BY <1>9, <1>10

(* process_path becomes the task found: the token moves within the           *)
(* container.                                                                *)
LEMMA EndOfNodesInv ==
    ASSUME ExecutorInv, NEW e \in Executors, EndOfNodes(e)
    PROVE  ExecutorInv'
<1> DEFINE x == ex[e]
<1>1. /\ x \in Container /\ Local(x) /\ x.pc = "next" /\ History(x, runs, final)
      /\ UNCHANGED <<result, counter, counted, store, final, pending, rerun, msgs, runs>>
  BY DEF ExecutorInv, TypeOK, EndOfNodes, At, redis
<1>2. x.edges = {} /\ x.notReady = {} /\ x.tries <= MaxTries
  BY <1>1 DEF Local, ClaimsApart, EdgesApart, QueueApart, EdgePcs, WaitPcs
<1>3. Reported' /\ store' \subseteq Tasks /\ final' \subseteq Tasks /\ msgs' \subseteq Message
  BY <1>1 DEF ExecutorInv, TypeOK, Reported
<1>4. CASE x.become # None
  <2> DEFINE y == [x EXCEPT !.pc = "task", !.cur = x.become, !.become = None]
  <2>1. Becomes(e, y)
    BY <1>4 DEF EndOfNodes
  <2>2. /\ y \in Container /\ y.pc = "task" /\ y.cur = x.become /\ y.become = None
        /\ y.nodes = x.nodes /\ y.node = x.node /\ y.noValue = x.noValue
        /\ y.edges = {} /\ y.edge = x.edge /\ y.ready = x.ready
        /\ y.notReady = {} /\ y.queue = x.queue /\ y.tries = x.tries /\ y.prev = x.prev /\ x.become \in Tasks
    BY <1>1, <1>2, <1>4 DEF Container, Pcs
  <2> HIDE DEF y
  <2>3. Local(y)
    BY <1>1, <1>2, <2>2, NoneIsNoTask
       DEF Local, ClaimsApart, EdgesApart, QueueApart, EdgePcs, BigPcs, WaitPcs, Container
  <2>4. HeldBy(y) \subseteq HeldBy(x) /\ LiveBy(y) \subseteq LiveBy(x)
    <3>1. HeldBy(y) \subseteq HeldBy(x)
      BY <1>2, <2>2 DEF HeldBy
    <3> QED
      BY <2>2, <3>1 DEF LiveBy
  <2>5. TokensOf(y) \subseteq TokensOf(x) /\ BookOf(y) = {}
    BY <2>2, NoneIsNoTask DEF TokensOf, BookOf
  <2>6. ProtocolInv'
    BY <1>1, <2>1, <2>4, <2>5, OneMoves, QuietStep DEF ExecutorInv
  <2>7. History(y, runs', final')
    BY <1>1, <2>2 DEF History
  <2> QED
    BY <1>1, <1>3, <2>1, <2>2, <2>3, <2>6, <2>7, StepInv DEF ExecutorInv, TypeOK
<1>5. CASE x.become = None /\ x.cur = None
  <2>1. Becomes(e, EnterLoop(x))
    BY <1>5, NoneIsNoTask DEF EndOfNodes, Roots
  <2> QED
    BY <1>1, <1>2, <1>3, <2>1, EnterLoopFollows, QuietInv
<1>6. CASE x.become = None /\ x.cur # None
  <2> DEFINE p == IF x.cur \in Roots THEN "rootSet" ELSE "save"
             y == [x EXCEPT !.pc = p]
  <2>1. Becomes(e, y)
    <3>1. CASE x.cur \in Roots
      BY <1>6, <3>1 DEF EndOfNodes
    <3>2. CASE x.cur \notin Roots
      BY <1>6, <3>2 DEF EndOfNodes
    <3> QED
      BY <3>1, <3>2
  <2>2. p \in {"rootSet", "save"} /\ x.cur \in Tasks
    BY <1>1, <1>6 DEF Container
  <2> HIDE DEF p
  <2>3. /\ y \in Container /\ y.pc = p /\ y.cur = x.cur /\ y.become = x.become
        /\ y.nodes = x.nodes /\ y.node = x.node /\ y.noValue = x.noValue
        /\ y.edges = {} /\ y.edge = x.edge /\ y.ready = x.ready
        /\ y.notReady = {} /\ y.queue = x.queue /\ y.tries = x.tries /\ y.prev = x.prev
    BY <1>1, <1>2, <2>2 DEF Container, Pcs
  <2> HIDE DEF y
  <2>4. Local(y)
    BY <1>1, <1>2, <2>2, <2>3
       DEF Local, ClaimsApart, EdgesApart, QueueApart, EdgePcs, BigPcs, WaitPcs
  <2>5. HeldBy(y) \subseteq HeldBy(x) /\ LiveBy(y) \subseteq LiveBy(x)
    BY <1>2, <2>2, <2>3 DEF HeldBy, LiveBy
  <2>6. TokensOf(y) \subseteq TokensOf(x) /\ BookOf(y) = {}
    BY <2>2, <2>3 DEF TokensOf, BookOf
  <2>7. Follows(x, y)
    BY <2>2, <2>3, <2>4, <2>5, <2>6 DEF Follows, CacheFollows
  <2> QED
    BY <1>1, <1>3, <2>1, <2>7, QuietInv
<1> QED
  BY <1>4, <1>5, <1>6

(* The final result of current_path_node is written before it is announced,  *)
(* ...                                                                       *)
LEMMA RootSetInv ==
    ASSUME ExecutorInv, NEW e \in Executors, RootSet(e)
    PROVE  ExecutorInv'
<1> DEFINE x == ex[e]
           y == [x EXCEPT !.pc = "rootMsg"]
<1>1. /\ x \in Container /\ Local(x) /\ x.pc = "rootSet" /\ History(x, runs, final)
      /\ UNCHANGED <<result, counter, counted, store, pending, rerun, msgs, runs>>
      /\ final' = final \cup {x.cur} /\ Becomes(e, y)
  BY DEF ExecutorInv, TypeOK, RootSet, SetFinal, At
<1>2. x.cur \in Tasks /\ x.edges = {} /\ x.notReady = {}
  BY <1>1 DEF Local, ClaimsApart, EdgesApart, QueueApart, EdgePcs, WaitPcs
<1>3. /\ y \in Container /\ y.pc = "rootMsg" /\ y.cur = x.cur /\ y.become = x.become
      /\ y.nodes = x.nodes /\ y.node = x.node /\ y.noValue = x.noValue
      /\ y.edges = {} /\ y.edge = x.edge /\ y.ready = x.ready
      /\ y.notReady = {} /\ y.queue = x.queue /\ y.tries = x.tries /\ y.prev = x.prev
  BY <1>1, <1>2 DEF Container, Pcs
<1> HIDE DEF y
<1>4. Local(y)
  BY <1>1, <1>2, <1>3 DEF Local, ClaimsApart, EdgesApart, QueueApart, EdgePcs, BigPcs, WaitPcs
<1>5. HeldBy(y) \subseteq HeldBy(x) /\ LiveBy(y) \subseteq LiveBy(x)
  BY <1>2, <1>3 DEF HeldBy, LiveBy
<1>6. TokensOf(y) \subseteq TokensOf(x) /\ BookOf(y) = {}
  BY <1>3 DEF TokensOf, BookOf
<1>7. ProtocolInv'
  BY <1>1, <1>5, <1>6, OneMoves, QuietStep DEF ExecutorInv
<1>8. History(y, runs', final') /\ Reported'
  BY <1>1, <1>2, <1>3 DEF History, ExecutorInv, Reported
<1> QED
  BY <1>1, <1>2, <1>3, <1>4, <1>7, <1>8, StepInv DEF ExecutorInv, TypeOK

(* ... and so is that of a root pulled down.                                 *)
LEMMA PulledSetInv ==
    ASSUME ExecutorInv, NEW e \in Executors, PulledSet(e)
    PROVE  ExecutorInv'
<1> DEFINE x == ex[e]
           y == [x EXCEPT !.pc = "pullMsg"]
<1>1. /\ x \in Container /\ Local(x) /\ x.pc = "pullSet" /\ History(x, runs, final)
      /\ UNCHANGED <<result, counter, counted, store, pending, rerun, msgs, runs>>
      /\ final' = final \cup {x.edge} /\ Becomes(e, y)
  BY DEF ExecutorInv, TypeOK, PulledSet, SetFinal, At
<1>2. x.edge \in Tasks /\ x.edges = {} /\ x.notReady = {}
  BY <1>1 DEF Local, ClaimsApart, EdgesApart, QueueApart, EdgePcs, WaitPcs
<1>3. /\ y \in Container /\ y.pc = "pullMsg" /\ y.cur = x.cur /\ y.become = x.become
      /\ y.nodes = x.nodes /\ y.node = x.node /\ y.noValue = x.noValue
      /\ y.edges = {} /\ y.edge = x.edge /\ y.ready = x.ready
      /\ y.notReady = {} /\ y.queue = x.queue /\ y.tries = x.tries /\ y.prev = x.prev
  BY <1>1, <1>2 DEF Container, Pcs
<1> HIDE DEF y
<1>4. Local(y)
  BY <1>1, <1>2, <1>3 DEF Local, ClaimsApart, EdgesApart, QueueApart, EdgePcs, BigPcs, WaitPcs
<1>5. HeldBy(y) \subseteq HeldBy(x) /\ LiveBy(y) \subseteq LiveBy(x)
  BY <1>2, <1>3 DEF HeldBy, LiveBy
<1>6. TokensOf(y) \subseteq TokensOf(x) /\ BookOf(y) = {}
  BY <1>3 DEF TokensOf, BookOf
<1>7. ProtocolInv'
  BY <1>1, <1>5, <1>6, OneMoves, QuietStep DEF ExecutorInv
<1>8. History(y, runs', final') /\ Reported'
  BY <1>1, <1>2, <1>3 DEF History, ExecutorInv, Reported
<1> QED
  BY <1>1, <1>2, <1>3, <1>4, <1>7, <1>8, StepInv DEF ExecutorInv, TypeOK

(* The steps that only store, publish or evict and move on.                  *)
LEMMA RootMsgInv ==
    ASSUME ExecutorInv, NEW e \in Executors, RootMsg(e)
    PROVE  ExecutorInv'
<1> DEFINE x == ex[e]
<1>1. /\ x \in Container /\ Local(x) /\ x.pc = "rootMsg" /\ History(x, runs, final)
      /\ UNCHANGED <<result, counter, counted, store, final, pending, rerun, runs>>
      /\ Publish({"lambda-result"}, x.cur) /\ Becomes(e, NextIteration(x))
  BY DEF ExecutorInv, TypeOK, RootMsg, redis, At
<1>2. x.cur \in Tasks /\ x.edges = {} /\ x.notReady = {} /\ x.cur \in final /\ runs[x.cur] = 1
  BY <1>1 DEF Local, ClaimsApart, EdgesApart, QueueApart, EdgePcs, WaitPcs, History
<1>3. Reported' /\ msgs' \subseteq Message
  BY <1>1, <1>2, PublishKeeps
<1>4. Follows(x, NextIteration(x))
  BY <1>1, <1>2, NextIterationFollows DEF Local
<1> QED
  BY <1>1, <1>3, <1>4, QuietInv DEF ExecutorInv, TypeOK

(* ... announce the result of a root pulled down, ...                        *)
LEMMA PulledMsgInv ==
    ASSUME ExecutorInv, NEW e \in Executors, PulledMsg(e)
    PROVE  ExecutorInv'
<1> DEFINE x == ex[e]
<1>1. /\ x \in Container /\ Local(x) /\ x.pc = "pullMsg" /\ History(x, runs, final)
      /\ UNCHANGED <<result, counter, counted, store, final, pending, rerun, runs>>
      /\ Publish({"lambda-result"}, x.edge) /\ Becomes(e, PulledLeft(x))
  BY DEF ExecutorInv, TypeOK, PulledMsg, redis, At
<1>2. x.edge \in Tasks /\ x.edge \in final /\ runs[x.edge] = 1
  BY <1>1 DEF Local, ClaimsApart, History
<1>3. Reported' /\ msgs' \subseteq Message
  BY <1>1, <1>2, PublishKeeps
<1>4. Follows(x, PulledLeft(x))
  BY <1>1, PulledLeftFollows
<1> QED
  BY <1>1, <1>3, <1>4, QuietInv DEF ExecutorInv, TypeOK

(* ... save the output of current_path_node, ...                             *)
LEMMA SaveInv ==
    ASSUME ExecutorInv, NEW e \in Executors, Save(e)
    PROVE  ExecutorInv'
<1> DEFINE x == ex[e]
<1>1. /\ x \in Container /\ Local(x) /\ x.pc = "save"
      /\ UNCHANGED <<result, counter, counted, final, pending, rerun, msgs, runs>>
      /\ Becomes(e, EnterLoop(x)) /\ (store' = store \/ store' = store \cup {x.cur})
  BY DEF ExecutorInv, TypeOK, Save, redis, At, StoreValue
<1>2. x.cur \in Tasks /\ x.edges = {} /\ x.notReady = {}
  BY <1>1 DEF Local, ClaimsApart, EdgesApart, QueueApart, EdgePcs, WaitPcs
<1>3. Follows(x, EnterLoop(x))
  BY <1>1, <1>2, EnterLoopFollows DEF Local
<1>4. Reported'
  BY <1>1 DEF ExecutorInv, Reported
<1> QED
  BY <1>1, <1>2, <1>3, <1>4, QuietInv DEF ExecutorInv, TypeOK

(* ... store a small output before its edges are counted, ...                *)
LEMMA SmallStoreInv ==
    ASSUME ExecutorInv, NEW e \in Executors, SmallStore(e)
    PROVE  ExecutorInv'
<1> DEFINE x == ex[e]
<1>1. /\ x \in Container /\ Local(x) /\ x.pc = "store"
      /\ UNCHANGED <<result, counter, counted, final, pending, rerun, runs>>
      /\ Becomes(e, EdgesLeft(x)) /\ store' \in {store, store \cup {x.node}}
      /\ Publish(Debug("executed-task"), x.node)
  BY DEF ExecutorInv, TypeOK, SmallStore, At, StoreValue, redis
<1>2. x.node \in Tasks
  BY <1>1 DEF Local, EdgesApart, EdgePcs
<1>3. Debug("executed-task") \subseteq {"executed-task"}
  BY DEF Debug
<1>4. Reported' /\ msgs' \subseteq Message
  BY <1>1, <1>2, <1>3, PublishKeeps
<1>5. Follows(x, EdgesLeft(x))
  BY <1>1, EdgesLeftFollows
<1> QED
  BY <1>1, <1>2, <1>4, <1>5, QuietInv DEF ExecutorInv, TypeOK

(* ... evict cached outputs, ...                                             *)
LEMMA EvictInv ==
    ASSUME ExecutorInv, NEW e \in Executors, Evict(e)
    PROVE  ExecutorInv'
<1> DEFINE x == ex[e]
<1>1. /\ x \in Container /\ Local(x) /\ x.pc = "evict"
      /\ UNCHANGED <<result, counter, counted, store, final, pending, rerun, msgs, runs>>
  BY DEF ExecutorInv, TypeOK, Evict, redis, At
<1>2. PICK gone : Becomes(e, InvokeLeft([x EXCEPT !.prev = @ \ gone]))
  BY DEF Evict
<1> DEFINE z == [x EXCEPT !.prev = @ \ gone]
<1>3. /\ z \in Container /\ z.pc = "evict" /\ z.cur = x.cur /\ z.become = x.become
      /\ z.nodes = x.nodes /\ z.node = x.node /\ z.noValue = x.noValue
      /\ z.edges = x.edges /\ z.edge = x.edge /\ z.ready = x.ready
      /\ z.notReady = x.notReady /\ z.queue = x.queue /\ z.tries = x.tries /\ z.prev \subseteq x.prev
  BY <1>1 DEF Container
<1>4. Becomes(e, InvokeLeft(z))
  BY <1>2
<1> HIDE DEF z
<1>5. Local(z)
  BY <1>1, <1>3 DEF Local, ClaimsApart, EdgesApart, QueueApart, EdgePcs, BigPcs, WaitPcs
<1>6. HeldBy(z) = HeldBy(x) /\ LiveBy(z) = LiveBy(x) /\ TokensOf(z) = TokensOf(x)
  BY <1>1, <1>3 DEF HeldBy, LiveBy, TokensOf
<1>7. Follows(z, InvokeLeft(z))
  BY <1>3, <1>5, InvokeLeftFollows
<1>8. Follows(x, InvokeLeft(z))
  BY <1>3, <1>6, <1>7 DEF Follows, CacheFollows
<1>9. Reported'
  BY <1>1 DEF ExecutorInv, Reported
<1> QED
  BY <1>1, <1>4, <1>8, <1>9, QuietInv DEF ExecutorInv, TypeOK

(* ... end the loop over the dependents of a big output, ...                 *)
LEMMA BigDoneInv ==
    ASSUME ExecutorInv, NEW e \in Executors, BigDone(e)
    PROVE  ExecutorInv'
<1> DEFINE x == ex[e]
<1>1. /\ x \in Container /\ Local(x) /\ x.pc = "bigDone"
      /\ UNCHANGED <<result, counter, counted, store, final, pending, rerun, runs>>
      /\ Becomes(e, PulledLeft(x)) /\ Publish({"executed-task"}, x.node)
  BY DEF ExecutorInv, TypeOK, BigDone, redis, At
<1>2. Follows(x, PulledLeft(x))
  BY <1>1, PulledLeftFollows
<1>3. x.node \in Tasks
  BY <1>1 DEF Local, EdgesApart
<1>4. Reported' /\ msgs' \subseteq Message
  BY <1>1, <1>3, PublishKeeps
<1> QED
  BY <1>1, <1>2, <1>4, QuietInv DEF ExecutorInv, TypeOK

(* ... store the big outputs given up on, ...                                *)
LEMMA GiveUpStoreInv ==
    ASSUME ExecutorInv, NEW e \in Executors, GiveUpStore(e)
    PROVE  ExecutorInv'
<1> DEFINE x == ex[e]
<1>1. /\ x \in Container /\ Local(x) /\ x.pc = "giveStore"
      /\ UNCHANGED <<result, counter, counted, final, pending, rerun, msgs, runs>>
  BY DEF ExecutorInv, TypeOK, GiveUpStore, At, StoreValue
<1>2. PICK i \in x.notReady : /\ store' = store \cup {i.large}
                              /\ Becomes(e, GiveUpLeft([x EXCEPT !.notReady = @ \ {i}]))
  BY DEF GiveUpStore, StoreValue
<1> DEFINE z == [x EXCEPT !.notReady = @ \ {i}]
<1>3. /\ z \in Container /\ z.pc = "giveStore" /\ z.cur = x.cur /\ z.become = x.become
      /\ z.nodes = x.nodes /\ z.node = x.node /\ z.noValue = x.noValue
      /\ z.edges = x.edges /\ z.edge = x.edge /\ z.ready = x.ready
      /\ z.notReady = x.notReady \ {i} /\ z.queue = x.queue /\ z.tries = x.tries /\ z.prev = x.prev
  BY <1>1 DEF Container
<1>4. Becomes(e, GiveUpLeft(z)) /\ i.large \in Tasks
  BY <1>1, <1>2 DEF Container, Delayed
<1> HIDE DEF z
<1>5. Local(z)
  BY <1>1, <1>3 DEF Local, ClaimsApart, EdgesApart, QueueApart, EdgePcs, BigPcs, WaitPcs
<1>6. HeldBy(z) = HeldBy(x) /\ LiveBy(z) = LiveBy(x) /\ TokensOf(z) = TokensOf(x)
  BY <1>1, <1>3 DEF HeldBy, LiveBy, TokensOf
<1>7. Follows(z, GiveUpLeft(z))
  BY <1>3, <1>5, GiveUpLeftFollows
<1>8. Follows(x, GiveUpLeft(z))
  BY <1>3, <1>6, <1>7 DEF Follows, CacheFollows
<1>9. Reported'
  BY <1>1 DEF ExecutorInv, Reported
<1> QED
  BY <1>1, <1>2, <1>4, <1>8, <1>9, QuietInv DEF ExecutorInv, TypeOK

(* ... or store a big output before its edge is counted.                     *)
LEMMA BigStoreInv ==
    ASSUME ExecutorInv, NEW e \in Executors, BigStore(e)
    PROVE  ExecutorInv'
<1> DEFINE x == ex[e]
           y == [x EXCEPT !.pc = "bigIncr", !.written = TRUE]
<1>1. /\ x \in Container /\ Local(x) /\ x.pc = "bigStore"
      /\ UNCHANGED <<result, counter, counted, final, pending, rerun, runs>>
      /\ Becomes(e, y) /\ store' = store \cup {x.node} /\ Publish({"executed-task"}, x.node)
  BY DEF ExecutorInv, TypeOK, BigStore, At, StoreValue
<1>2. /\ y \in Container /\ y.pc = "bigIncr" /\ y.cur = x.cur /\ y.become = x.become
      /\ y.nodes = x.nodes /\ y.node = x.node /\ y.noValue = x.noValue
      /\ y.edges = x.edges /\ y.edge = x.edge /\ y.ready = x.ready
      /\ y.notReady = x.notReady /\ y.queue = x.queue /\ y.tries = x.tries /\ y.prev = x.prev
  BY <1>1 DEF Container, Pcs
<1> HIDE DEF y
<1>3. x.node \in Tasks
  BY <1>1 DEF Local, EdgesApart, EdgePcs
<1>4. Local(y)
  BY <1>1, <1>2 DEF Local, ClaimsApart, EdgesApart, QueueApart, EdgePcs, BigPcs, WaitPcs
<1>5. HeldBy(y) \subseteq HeldBy(x) /\ LiveBy(y) \subseteq LiveBy(x)
  BY <1>1, <1>2 DEF HeldBy, LiveBy
<1>6. TokensOf(y) \subseteq TokensOf(x) /\ BookOf(y) = {}
  BY <1>2 DEF TokensOf, BookOf
<1>7. Reported' /\ msgs' \subseteq Message
  BY <1>1, <1>3, PublishKeeps
<1>8. Follows(x, y)
  BY <1>2, <1>4, <1>5, <1>6 DEF Follows, CacheFollows
<1> QED
  BY <1>1, <1>3, <1>7, <1>8, QuietInv DEF ExecutorInv, TypeOK
-----------------------------------------------------------------------------
(* An edge a container works on is live, and leads to a dependent.           *)
LEMMA EdgeLive ==
    ASSUME NEW x \in Container, Local(x), x.pc \in EdgePcs,
           NEW s, s \in x.edges \/ (x.pc \in {"bigStore", "bigIncr"} /\ s = x.edge)
    PROVE  s \in Tasks /\ x.node \in Deps[s] /\ <<x.node, s>> \in LiveBy(x)
<1>1. s \in Downstream(x.node) /\ x.node \in Tasks /\ x.node \notin x.noValue
  BY DEF Local, ClaimsApart, EdgesApart, EdgePcs, BigPcs
<1> QED
  BY <1>1 DEF LiveBy, HeldBy, Downstream

(* An edge that waits in the task queue is live, and leads to a dependent.   *)
LEMMA WaitLive ==
    ASSUME NEW x \in Container, Local(x), NEW i \in x.queue
    PROVE  i \in Delayed /\ i.task \in Tasks /\ i.large \in Deps[i.task]
           /\ i.task \in Downstream(i.large) /\ <<i.large, i.task>> \in LiveBy(x)
<1>1. i \in Delayed /\ i.large \in Deps[i.task] /\ i.large \notin x.noValue
  BY DEF Local, ClaimsApart, QueueApart, Container
<1> QED
  BY <1>1 DEF LiveBy, HeldBy, Downstream, Delayed

(* A step that finds a task ready, and takes it, preserves the invariant.    *)
LEMMA TakeInv ==
    ASSUME ExecutorInv, NEW e \in Executors, NEW y \in Container, Becomes(e, y), Local(y),
           ProtocolInv', ex[e].pc # "task", y.cur \in {ex[e].cur, None},
           y.pc \notin {"task", "rootMsg", "pullSet", "pullMsg"}, CacheFollows(ex[e], y),
           UNCHANGED <<result, store, final, pending, rerun, msgs, runs>>,
           \/ UNCHANGED <<counter, counted>>
           \/ \E s \in Tasks : \E d \in Deps[s] : Incr(d, s)
    PROVE  ExecutorInv'
<1>1. counter' \in [Tasks -> Nat] /\ counted' \subseteq Tasks \X Tasks
  <2>1. counter \in [Tasks -> Nat] /\ counted \subseteq Tasks \X Tasks
    BY DEF ExecutorInv, TypeOK
  <2>2. ASSUME NEW s \in Tasks, NEW d \in Deps[s], Incr(d, s)
        PROVE  counter' \in [Tasks -> Nat] /\ counted' \subseteq Tasks \X Tasks
    BY <2>1, <2>2, DepsFinite DEF Incr
  <2> QED
    BY <2>1, <2>2
<1>2. History(y, runs', final')
  BY NoneIsNoTask DEF ExecutorInv, History, CacheFollows
<1>3. Reported'
  BY DEF ExecutorInv, Reported
<1> QED
  BY <1>1, <1>2, <1>3, StepInv DEF ExecutorInv, TypeOK

(* The plain GET of the become node's counter: its edge is used up,          *)
(* uncounted.                                                                *)
LEMMA PeekBecomeInv ==
    ASSUME ExecutorInv, NEW e \in Executors, PeekBecome(e)
    PROVE  ExecutorInv'
<1> DEFINE x == ex[e]
           b == Become[x.node]
<1>1. /\ x \in Container /\ Local(x) /\ x.pc = "peek"
      /\ UNCHANGED <<result, counter, counted, store, final, pending, rerun, msgs, runs>>
      /\ Becomes(e, IF IsReady(b) THEN [TakeBecome(x, b) EXCEPT !.pc = "store"]
                                  ELSE [x EXCEPT !.pc = "store"])
  BY DEF ExecutorInv, TypeOK, PeekBecome, redis, At
<1>2. x.node \in Tasks \ Roots /\ b \in x.edges
  BY <1>1, ExecutorAssumption DEF Local, EdgesApart, EdgePcs
<1>3. b \in Tasks /\ x.node \in Deps[b] /\ <<x.node, b>> \in LiveBy(x)
  BY <1>1, <1>2, EdgeLive DEF EdgePcs
<1>4. CASE ~IsReady(b)
  <2> DEFINE y == [x EXCEPT !.pc = "store"]
  <2>1. Becomes(e, y)
    BY <1>1, <1>4
  <2>2. /\ y \in Container /\ y.pc = "store" /\ y.cur = x.cur /\ y.become = x.become
        /\ y.nodes = x.nodes /\ y.node = x.node /\ y.noValue = x.noValue
        /\ y.edges = x.edges /\ y.edge = x.edge /\ y.ready = x.ready
        /\ y.notReady = x.notReady /\ y.queue = x.queue /\ y.tries = x.tries /\ y.prev = x.prev
    BY <1>1 DEF Container, Pcs
  <2> HIDE DEF y
  <2>3. Local(y)
    BY <1>1, <2>2 DEF Local, ClaimsApart, EdgesApart, QueueApart, EdgePcs, BigPcs, WaitPcs
  <2>4. HeldBy(y) \subseteq HeldBy(x) /\ LiveBy(y) \subseteq LiveBy(x)
    BY <1>1, <2>2 DEF HeldBy, LiveBy
  <2>5. TokensOf(y) \subseteq TokensOf(x) /\ BookOf(y) = {}
    BY <2>2 DEF TokensOf, BookOf
  <2>6. Follows(x, y)
    BY <2>2, <2>3, <2>4, <2>5 DEF Follows, CacheFollows
  <2>7. Reported'
    BY <1>1 DEF ExecutorInv, Reported
  <2> QED
    BY <1>1, <2>1, <2>6, <2>7, QuietInv DEF ExecutorInv, TypeOK
<1>5. CASE IsReady(b)
  <2> DEFINE y == [TakeBecome(x, b) EXCEPT !.pc = "store"]
  <2>1. Becomes(e, y)
    BY <1>1, <1>5
  <2>2. /\ y \in Container /\ y.pc = "store" /\ y.cur = x.cur /\ y.become = b
        /\ y.nodes = x.nodes /\ y.node = x.node /\ y.noValue = x.noValue
        /\ y.edges = x.edges \ {b} /\ y.edge = x.edge /\ y.ready = x.ready
        /\ y.notReady = x.notReady /\ y.queue = x.queue /\ y.tries = x.tries /\ y.prev = x.prev
    BY <1>1, <1>3 DEF TakeBecome, Container, Pcs
  <2> HIDE DEF y
  <2>3. HeldEdge(<<x.node, b>>) /\ counter[b] = NumDeps(b) - 1
    BY <1>3, <1>5 DEF HeldEdge, LiveBy, IsReady
  <2>4. b \notin TokensOf(x)
    BY <1>3, <2>3, HolderAlone DEF HasToken, ExecutorInv
  <2>5. Local(y)
    BY <1>1, <1>3, <2>2, <2>4
       DEF Local, ClaimsApart, EdgesApart, QueueApart, EdgePcs, BigPcs, WaitPcs, TokensOf
  <2>6. HeldBy(y) \subseteq HeldBy(x) \ {<<x.node, b>>} /\ LiveBy(y) \subseteq LiveBy(x)
    <3>1. \A i \in x.queue : ~(i.large = x.node /\ i.task = b)
      BY <1>1, <1>2 DEF Local, QueueApart
    <3>2. x.node \notin x.nodes
      BY <1>1 DEF Local, EdgesApart, EdgePcs
    <3> QED
      BY <1>1, <2>2, <3>1, <3>2 DEF HeldBy, LiveBy
  <2>7. TokensOf(y) \subseteq TokensOf(x) \cup {b} /\ BookOf(y) = {}
    BY <2>2 DEF TokensOf, BookOf
  <2>8. ProtocolInv'
    BY <1>1, <1>3, <1>5, <2>1, <2>6, <2>7, OneMoves, CheckStep DEF ExecutorInv
  <2> QED
    BY <1>1, <2>1, <2>2, <2>5, <2>8, TakeInv DEF CacheFollows
<1> QED
  BY <1>4, <1>5

(* A task that an increment makes ready has no token yet.                    *)
LEMMA NewlyReady ==
    ASSUME ExecutorInv, NEW e \in Executors, NEW s \in Tasks, NEW d \in Deps[s],
           <<d, s>> \in LiveBy(ex[e]), IsReady(s) \/ IncrIsReady(s)
    PROVE  s \notin TokensOf(ex[e])
<1>1. HeldEdge(<<d, s>>)
  BY DEF HeldEdge, LiveBy
<1>2. counter[s] = NumDeps(s) - 1
  BY DepsFinite DEF IsReady, IncrIsReady, ExecutorInv, TypeOK
<1> QED
  BY <1>1, <1>2, HolderAlone DEF HasToken, ExecutorInv

(* The INCR for one dependent of a small output.                             *)
LEMMA SmallEdgeInv ==
    ASSUME ExecutorInv, NEW e \in Executors, SmallEdge(e)
    PROVE  ExecutorInv'
<1> DEFINE x == ex[e]
           E(s) == [x EXCEPT !.edges = @ \ {s}]
           Z(s) == IF IncrIsReady(s) THEN TakeReady(E(s), s) ELSE E(s)
<1>1. /\ x \in Container /\ Local(x) /\ x.pc = "edges"
      /\ UNCHANGED <<result, pending, rerun, msgs, runs>>
  BY DEF ExecutorInv, TypeOK, SmallEdge, At
<1>2. PICK s \in x.edges : Incr(E(s).node, s) /\ Becomes(e, EdgesLeft(Z(s)))
  BY DEF SmallEdge
<1> DEFINE w == E(s)
           z == Z(s)
<1>3. /\ w \in Container /\ w.pc = "edges" /\ w.cur = x.cur /\ w.become = x.become
      /\ w.nodes = x.nodes /\ w.node = x.node /\ w.noValue = x.noValue
      /\ w.edges = x.edges \ {s} /\ w.edge = x.edge /\ w.ready = x.ready
      /\ w.notReady = x.notReady /\ w.queue = x.queue /\ w.tries = x.tries /\ w.prev = x.prev
  BY <1>1 DEF Container
<1>4. s \in Tasks /\ x.node \in Deps[s] /\ <<x.node, s>> \in LiveBy(x)
  BY <1>1, EdgeLive DEF EdgePcs
<1>5. Incr(x.node, s) /\ Becomes(e, EdgesLeft(z)) /\ UNCHANGED <<store, final>>
  BY <1>2, <1>3 DEF Incr
<1>6. /\ z \in Container /\ z.pc = "edges" /\ z.cur = x.cur
      /\ z.nodes = x.nodes /\ z.node = x.node /\ z.noValue = x.noValue
      /\ z.edges = x.edges \ {s} /\ z.edge = x.edge
      /\ z.notReady = x.notReady /\ z.queue = x.queue /\ z.tries = x.tries /\ z.prev = x.prev
      /\ \/ z.become = x.become /\ z.ready = x.ready
         \/ IncrIsReady(s) /\ x.become = None /\ z.become = s /\ z.ready = x.ready
         \/ IncrIsReady(s) /\ z.become = x.become /\ z.ready = x.ready \cup {s}
  <2> HIDE DEF w
  <2>1. z = IF IncrIsReady(s) THEN TakeReady(w, s) ELSE w
    BY DEF w
  <2> HIDE DEF z
  <2>2. CASE ~IncrIsReady(s)
    BY <1>3, <2>1, <2>2
  <2>3. CASE IncrIsReady(s) /\ w.become = None
    <3>1. z = [w EXCEPT !.become = s]
      BY <2>1, <2>3 DEF TakeReady
    <3> QED
      BY <1>3, <1>4, <2>3, <3>1 DEF Container
  <2>4. CASE IncrIsReady(s) /\ w.become # None
    <3>1. z = [w EXCEPT !.ready = @ \cup {s}]
      BY <2>1, <2>4 DEF TakeReady
    <3> QED
      BY <1>3, <1>4, <2>4, <3>1 DEF Container
  <2> QED
    BY <2>2, <2>3, <2>4
<1> HIDE DEF w, z
<1>7. IncrIsReady(s) => s # x.become /\ s \notin x.ready
  BY <1>4, NewlyReady DEF TokensOf
<1>8. Local(z)
  BY <1>1, <1>4, <1>6, <1>7, NoneIsNoTask
     DEF Local, ClaimsApart, EdgesApart, QueueApart, EdgePcs, BigPcs, WaitPcs, Container
<1>9. HeldBy(z) \subseteq HeldBy(x) \ {<<x.node, s>>} /\ LiveBy(z) \subseteq LiveBy(x)
  <2>1. \A i \in x.queue : ~(i.large = x.node /\ i.task = s)
    BY <1>1, <1>2 DEF Local, QueueApart
  <2>2. x.node \notin x.nodes
    BY <1>1 DEF Local, EdgesApart, EdgePcs
  <2> QED
    BY <1>1, <1>6, <2>1, <2>2 DEF HeldBy, LiveBy
<1>10. \/ TokensOf(z) \subseteq TokensOf(x)
       \/ TokensOf(z) \subseteq TokensOf(x) \cup {s} /\ IncrIsReady(s)
  BY <1>6 DEF TokensOf
<1>11. Follows(z, EdgesLeft(z))
  BY <1>6, <1>8, EdgesLeftFollows
<1>12. ProtocolInv'
  BY <1>1, <1>4, <1>5, <1>9, <1>10, <1>11, OneMoves, IncrStep DEF Follows, CacheFollows, ExecutorInv
<1> QED
  BY <1>1, <1>4, <1>5, <1>6, <1>11, <1>12, TakeInv DEF Follows, CacheFollows

(* The token of a ready task moves from the container to an invocation.      *)
LEMMA InvokeInv ==
    ASSUME ExecutorInv, NEW e \in Executors, Invoke(e)
    PROVE  ExecutorInv'
<1> DEFINE x == ex[e]
<1>1. /\ x \in Container /\ Local(x) /\ x.pc = "invoke" /\ History(x, runs, final)
      /\ UNCHANGED <<result, counter, counted, store, final, rerun, msgs, runs>>
  BY DEF ExecutorInv, TypeOK, Invoke, redis, At
<1>0. PICK s \in x.ready : \E data \in SUBSET (Deps[s] \cap x.prev) :
          /\ pending' = pending \cup {[key |-> s, by |-> x.node, data |-> data, attempt |-> 0]}
          /\ Becomes(e, InvokeLeft([x EXCEPT !.ready = @ \ {s}]))
  BY DEF Invoke
<1>2. PICK data \in SUBSET (Deps[s] \cap x.prev) :
          /\ pending' = pending \cup {[key |-> s, by |-> x.node, data |-> data, attempt |-> 0]}
          /\ Becomes(e, InvokeLeft([x EXCEPT !.ready = @ \ {s}]))
  BY <1>0
<1> DEFINE z == [x EXCEPT !.ready = @ \ {s}]
           i == [key |-> s, by |-> x.node, data |-> data, attempt |-> 0]
<1>3. /\ z \in Container /\ z.pc = "invoke" /\ z.cur = x.cur /\ z.become = x.become
      /\ z.nodes = x.nodes /\ z.node = x.node /\ z.noValue = x.noValue
      /\ z.edges = x.edges /\ z.edge = x.edge /\ z.ready = x.ready \ {s}
      /\ z.notReady = x.notReady /\ z.queue = x.queue /\ z.tries = x.tries /\ z.prev = x.prev
  BY <1>1 DEF Container
<1>4. i \in Invocation /\ i.key = s /\ i.data \subseteq Deps[s] /\ s \in Tasks
  BY <1>1, ExecutorAssumption DEF Container, Invocation
<1>5. pending' = pending \cup {i} /\ Becomes(e, InvokeLeft(z))
  BY <1>2
<1> HIDE DEF z, i
<1>6. Local(z)
  BY <1>1, <1>3 DEF Local, ClaimsApart, EdgesApart, QueueApart, EdgePcs, BigPcs, WaitPcs
<1>7. HeldBy(z) = HeldBy(x) /\ LiveBy(z) = LiveBy(x)
  BY <1>1, <1>3 DEF HeldBy, LiveBy
<1>8. TokensOf(z) \subseteq TokensOf(x) \ {s} /\ s \in TokensOf(x)
  BY <1>1, <1>3, <1>4 DEF TokensOf, Local, ClaimsApart
<1> DEFINE y == InvokeLeft(z)
<1>9. Follows(z, y)
  BY <1>3, <1>6, InvokeLeftFollows
<1> HIDE DEF y
<1>10. Becomes(e, y)
  BY <1>5 DEF y
<1>11. ex'[e] = y /\ \A f \in Executors \ {e} : ex'[f] = ex[f]
  BY <1>10, OneMoves
<1>12. TokensOf(y) \subseteq TokensOf(x) \ {s}
  BY <1>8, <1>9 DEF Follows, CacheFollows
<1>13. OneToken'
  BY <1>4, <1>5, <1>8, <1>11, <1>12 DEF ExecutorInv, ProtocolInv, OneToken
<1>14. \A t : HasToken(t)' => HasToken(t)
  BY <1>4, <1>5, <1>8, <1>11, <1>12 DEF HasToken
<1>15. ProtocolInv'
  BY <1>1, <1>7, <1>9, <1>11, <1>13, <1>14, MoveStep DEF Follows, CacheFollows, ExecutorInv
<1>16. History(y, runs', final')
  BY <1>1, <1>3, <1>9, NoneIsNoTask DEF Follows, CacheFollows, History
<1>17. Reported'
  BY <1>1 DEF ExecutorInv, Reported
<1> QED
  BY <1>1, <1>4, <1>5, <1>9, <1>10, <1>15, <1>16, <1>17, StepInv DEF Follows, CacheFollows, ExecutorInv, TypeOK
-----------------------------------------------------------------------------
(* A container that has looked at the dependent s of a big output: the edge  *)
(* is out of out_edges and in hand.                                          *)
LEMMA BigEdgeInv ==
    ASSUME ExecutorInv, NEW e \in Executors, BigEdge(e)
    PROVE  ExecutorInv'
<1> DEFINE x == ex[e]
           W(s) == [x EXCEPT !.edges = @ \ {s}, !.edge = s]
           Y(s) == CASE IsReady(s) -> [W(s) EXCEPT !.pc = "bigBook", !.ready = @ \cup {s}]
                     [] ~IsReady(s) /\ UseTaskQueue /\ ~MultipleBigTasksPossible(W(s).node, s) ->
                          BigEdgesLeft([W(s) EXCEPT !.queue =
                                           @ \cup {[task |-> s, large |-> W(s).node]}])
                     [] OTHER -> BigCount(W(s))
<1>1. /\ x \in Container /\ Local(x) /\ x.pc = "bigGet"
      /\ UNCHANGED <<result, counter, counted, store, final, pending, rerun, msgs, runs>>
  BY DEF ExecutorInv, TypeOK, BigEdge, redis, At
<1>2. PICK s \in x.edges : Becomes(e, Y(s))
  BY ZenonT(60) DEF BigEdge
<1> DEFINE w == W(s)
<1>3. s \in Tasks /\ x.node \in Deps[s] /\ <<x.node, s>> \in LiveBy(x)
  BY <1>1, EdgeLive DEF EdgePcs
<1>4. /\ w \in Container /\ w.pc = "bigGet" /\ w.cur = x.cur /\ w.become = x.become
      /\ w.nodes = x.nodes /\ w.node = x.node /\ w.noValue = x.noValue
      /\ w.edges = x.edges \ {s} /\ w.edge = s /\ w.ready = x.ready
      /\ w.notReady = x.notReady /\ w.queue = x.queue /\ w.tries = x.tries /\ w.prev = x.prev
      /\ w.written = x.written
  BY <1>1, <1>3 DEF Container
<1>5. /\ x.node \in Tasks \ x.nodes /\ s \in Downstream(x.node)
      /\ \A i \in x.queue : ~(i.large = x.node /\ i.task = s)
  BY <1>1, <1>2 DEF Local, EdgesApart, QueueApart, EdgePcs
<1>6. Reported'
  BY <1>1 DEF ExecutorInv, Reported
<1>7. Becomes(e, CASE IsReady(s) -> [w EXCEPT !.pc = "bigBook", !.ready = @ \cup {s}]
                   [] ~IsReady(s) /\ UseTaskQueue /\ ~MultipleBigTasksPossible(w.node, s) ->
                        BigEdgesLeft([w EXCEPT !.queue =
                                         @ \cup {[task |-> s, large |-> w.node]}])
                   [] OTHER -> BigCount(w))
  BY <1>2
<1> HIDE DEF w
<1>8. CASE IsReady(s)
  <2> DEFINE y == [w EXCEPT !.pc = "bigBook", !.ready = @ \cup {s}]
  <2>1. Becomes(e, y)
    BY <1>7, <1>8
  <2>2. /\ y \in Container /\ y.pc = "bigBook" /\ y.cur = x.cur /\ y.become = x.become
        /\ y.nodes = x.nodes /\ y.node = x.node /\ y.noValue = x.noValue
        /\ y.edges = x.edges \ {s} /\ y.edge = s /\ y.ready = x.ready \cup {s}
        /\ y.notReady = x.notReady /\ y.queue = x.queue /\ y.tries = x.tries /\ y.prev = x.prev
    BY <1>3, <1>4 DEF Container, Pcs
  <2> HIDE DEF y
  <2>3. s \notin TokensOf(x)
    BY <1>3, <1>8, NewlyReady
  <2>4. Local(y)
    BY <1>1, <1>3, <1>5, <2>2, <2>3
       DEF Local, ClaimsApart, EdgesApart, QueueApart, EdgePcs, BigPcs, WaitPcs, TokensOf
  <2>5. HeldBy(y) \subseteq HeldBy(x) \ {<<x.node, s>>} /\ LiveBy(y) \subseteq LiveBy(x)
    BY <1>1, <1>5, <2>2 DEF HeldBy, LiveBy
  <2>6. TokensOf(y) \subseteq TokensOf(x) \cup {s} /\ BookOf(y) = {<<x.node, s>>}
    BY <2>2 DEF TokensOf, BookOf
  <2>7. ProtocolInv'
    BY <1>1, <1>3, <1>8, <2>1, <2>5, <2>6, OneMoves, CheckStep DEF ExecutorInv
  <2> QED
    BY <1>1, <2>1, <2>2, <2>4, <2>7, TakeInv DEF CacheFollows
<1>9. CASE ~IsReady(s) /\ UseTaskQueue /\ ~MultipleBigTasksPossible(w.node, s)
  <2> DEFINE i == [task |-> s, large |-> x.node]
             z == [w EXCEPT !.queue = @ \cup {i}]
  <2>1. Becomes(e, BigEdgesLeft(z))
    BY <1>4, <1>7, <1>9
  <2>2. i \in Delayed /\ i.task = s /\ i.large = x.node
    BY <1>3, <1>5 DEF Delayed
  <2> HIDE DEF i
  <2>3. /\ z \in Container /\ z.pc = "bigGet" /\ z.cur = x.cur /\ z.become = x.become
        /\ z.nodes = x.nodes /\ z.node = x.node /\ z.noValue = x.noValue
        /\ z.edges = x.edges \ {s} /\ z.edge = s /\ z.ready = x.ready
        /\ z.notReady = x.notReady /\ z.queue = x.queue \cup {i} /\ z.tries = x.tries /\ z.prev = x.prev
    BY <1>4, <2>2 DEF Container
  <2> HIDE DEF z
  <2>4. Local(z)
    BY <1>1, <1>3, <1>5, <2>2, <2>3
       DEF Local, ClaimsApart, EdgesApart, QueueApart, EdgePcs, BigPcs, WaitPcs
  <2>5. HeldBy(z) \subseteq HeldBy(x) /\ LiveBy(z) \subseteq LiveBy(x)
    BY <1>1, <1>3, <2>2, <2>3 DEF HeldBy, LiveBy
  <2>6. TokensOf(z) = TokensOf(x)
    BY <1>1, <2>3 DEF TokensOf
  <2>7. Follows(z, BigEdgesLeft(z))
    BY <2>3, <2>4, BigEdgesLeftFollows
  <2>8. Follows(x, BigEdgesLeft(z))
    BY <2>3, <2>5, <2>6, <2>7 DEF Follows, CacheFollows
  <2> QED
    BY <1>1, <1>6, <2>1, <2>8, QuietInv DEF ExecutorInv, TypeOK
<1>10. CASE ~IsReady(s) /\ ~(UseTaskQueue /\ ~MultipleBigTasksPossible(w.node, s))
  <2> DEFINE p == IF w.written THEN "bigIncr" ELSE "bigStore"
             y == [w EXCEPT !.pc = p]
  <2>1. Becomes(e, y) /\ p \in {"bigIncr", "bigStore"}
    BY <1>7, <1>10 DEF BigCount
  <2> HIDE DEF p
  <2>2. /\ y \in Container /\ y.pc = p /\ y.cur = x.cur /\ y.become = x.become
        /\ y.nodes = x.nodes /\ y.node = x.node /\ y.noValue = x.noValue
        /\ y.edges = x.edges \ {s} /\ y.edge = s /\ y.ready = x.ready
        /\ y.notReady = x.notReady /\ y.queue = x.queue /\ y.tries = x.tries /\ y.prev = x.prev
    BY <1>4, <2>1 DEF Container, Pcs
  <2> HIDE DEF y
  <2>3. Local(y)
    BY <1>1, <1>3, <1>5, <2>1, <2>2
       DEF Local, ClaimsApart, EdgesApart, QueueApart, EdgePcs, BigPcs, WaitPcs
  <2>4. HeldBy(y) \subseteq HeldBy(x) /\ LiveBy(y) \subseteq LiveBy(x)
    BY <1>1, <1>2, <2>1, <2>2 DEF HeldBy, LiveBy
  <2>5. TokensOf(y) \subseteq TokensOf(x) /\ BookOf(y) = {}
    BY <2>1, <2>2 DEF TokensOf, BookOf
  <2>6. Follows(x, y)
    BY <2>1, <2>2, <2>3, <2>4, <2>5 DEF Follows, CacheFollows
  <2> QED
    BY <1>1, <1>6, <2>1, <2>6, QuietInv DEF ExecutorInv, TypeOK
<1> QED
  BY <1>8, <1>9, <1>10

(* Whoever is about to do a book-keeping increment has taken the task.       *)
LEMMA BookTokens ==
    ASSUME ExecutorInv
    PROVE  \A f \in Executors : \A g \in BookOf(ex[f]) : g[2] \in TokensOf(ex[f])
<1> SUFFICES ASSUME NEW f \in Executors, NEW g \in BookOf(ex[f])
             PROVE  g[2] \in TokensOf(ex[f])
  OBVIOUS
<1>1. ex[f] \in Container /\ EdgesApart(ex[f])
  BY DEF ExecutorInv, TypeOK, Local
<1> QED
  BY <1>1 DEF BookOf, TokensOf, EdgesApart, Container

(* The book-keeping increment itself, whatever the container goes on to do.  *)
LEMMA BookInv ==
    ASSUME ExecutorInv, NEW e \in Executors, ex[e].pc \in {"bigBook", "queueBook"},
           NEW y, Becomes(e, y), Follows(ex[e], y), Incr(ex[e].node, ex[e].edge),
           UNCHANGED <<result, pending, rerun, msgs, runs>>
    PROVE  ExecutorInv'
<1> DEFINE x == ex[e]
<1>1. x \in Container /\ Local(x)
  BY DEF ExecutorInv, TypeOK
<1>2. x.edge \in Tasks /\ x.node \in Deps[x.edge] /\ <<x.node, x.edge>> \in BookOf(x)
  BY <1>1 DEF Local, EdgesApart, BigPcs, EdgePcs, BookOf, Downstream
<1>3. ProtocolInv'
  BY <1>2, BookTokens, OneMoves, BookStep DEF Follows, CacheFollows, ExecutorInv
<1> QED
  BY <1>2, <1>3, TakeInv DEF Follows, CacheFollows, Incr

(* The book-keeping increment of process_big, ...                            *)
LEMMA BigBookInv ==
    ASSUME ExecutorInv, NEW e \in Executors, BigBook(e)
    PROVE  ExecutorInv'
<1>1. Follows(ex[e], BigEdgesLeft(ex[e]))
  BY BigEdgesLeftFollows DEF ExecutorInv, TypeOK, BigBook, At
<1> QED
  BY <1>1, BookInv DEF BigBook, At

(* ... and that of process_enqueued_tasks.                                   *)
LEMMA QueueBookInv ==
    ASSUME ExecutorInv, NEW e \in Executors, QueueBook(e)
    PROVE  ExecutorInv'
<1>1. Follows(ex[e], QueueLeft(ex[e]))
  BY QueueLeftFollows DEF ExecutorInv, TypeOK, QueueBook, At, WaitPcs
<1> QED
  BY <1>1, BookInv DEF QueueBook, At

(* The INCR for one dependent of a big output.                               *)
LEMMA BigIncrInv ==
    ASSUME ExecutorInv, NEW e \in Executors, BigIncr(e)
    PROVE  ExecutorInv'
<1> DEFINE x == ex[e]
           s == x.edge
           z == IF IncrIsReady(s) THEN [x EXCEPT !.ready = @ \cup {s}] ELSE x
<1>1. /\ x \in Container /\ Local(x) /\ x.pc = "bigIncr" /\ Incr(x.node, s)
      /\ UNCHANGED <<result, store, final, pending, rerun, msgs, runs>>
      /\ Becomes(e, BigEdgesLeft(z))
  BY DEF ExecutorInv, TypeOK, BigIncr, At, Incr
<1>2. s \in Tasks /\ x.node \in Deps[s] /\ <<x.node, s>> \in LiveBy(x)
  BY <1>1, EdgeLive DEF EdgePcs
<1>3. /\ z \in Container /\ z.pc = "bigIncr" /\ z.cur = x.cur /\ z.become = x.become
      /\ z.nodes = x.nodes /\ z.node = x.node /\ z.noValue = x.noValue
      /\ z.edges = x.edges /\ z.edge = s
      /\ z.notReady = x.notReady /\ z.queue = x.queue /\ z.tries = x.tries /\ z.prev = x.prev
      /\ z.ready = x.ready \/ (IncrIsReady(s) /\ z.ready = x.ready \cup {s})
  <2>1. CASE IncrIsReady(s)
    BY <1>1, <1>2, <2>1 DEF Container
  <2>2. CASE ~IncrIsReady(s)
    BY <1>1, <2>2
  <2> QED
    BY <2>1, <2>2
<1> HIDE DEF z
<1>4. IncrIsReady(s) => s \notin TokensOf(x)
  BY <1>2, NewlyReady
<1>5. Local(z)
  BY <1>1, <1>2, <1>3, <1>4
     DEF Local, ClaimsApart, EdgesApart, QueueApart, EdgePcs, BigPcs, WaitPcs, TokensOf
<1>6. HeldBy(z) = HeldBy(x) /\ LiveBy(z) = LiveBy(x)
  BY <1>1, <1>3 DEF HeldBy, LiveBy
<1>7. \/ TokensOf(z) \subseteq TokensOf(x)
      \/ TokensOf(z) \subseteq TokensOf(x) \cup {s} /\ IncrIsReady(s)
  BY <1>1, <1>3 DEF TokensOf
<1>8. Follows(z, BigEdgesLeft(z)) /\ <<x.node, s>> \notin HeldBy(BigEdgesLeft(z))
  BY <1>3, <1>5, BigEdgesLeftFollows
<1>9. ProtocolInv'
  BY <1>1, <1>2, <1>6, <1>7, <1>8, OneMoves, IncrStep DEF Follows, CacheFollows, ExecutorInv
<1> QED
  BY <1>1, <1>2, <1>3, <1>8, <1>9, TakeInv DEF Follows, CacheFollows

(* The plain GET for an enqueued task: it is taken, or put aside.            *)
LEMMA QueueGetInv ==
    ASSUME ExecutorInv, NEW e \in Executors, QueueGet(e)
    PROVE  ExecutorInv'
<1> DEFINE x == ex[e]
<1>1. /\ x \in Container /\ Local(x) /\ x.pc = "queueGet"
      /\ UNCHANGED <<result, counter, counted, store, final, pending, rerun, msgs, runs>>
  BY DEF ExecutorInv, TypeOK, QueueGet, redis, At
<1>2. PICK i \in x.queue :
          Becomes(e, IF IsReady(i.task)
                     THEN [Dequeue(x, i) EXCEPT !.pc = "queueBook", !.ready = @ \cup {i.task},
                                                !.edge = i.task, !.node = i.large]
                     ELSE QueueLeft([Dequeue(x, i) EXCEPT !.notReady = @ \cup {i}]))
  BY ZenonT(60) DEF QueueGet
<1>3. /\ i \in Delayed /\ i.task \in Tasks /\ i.large \in Deps[i.task] /\ i.large \in Tasks
      /\ i.task \in Downstream(i.large) /\ <<i.large, i.task>> \in LiveBy(x)
  BY <1>1, WaitLive DEF Delayed
<1>4. i \notin x.notReady /\ i.large \notin x.nodes /\ x.edges = {}
  BY <1>1 DEF Local, EdgesApart, QueueApart, EdgePcs, WaitPcs
<1>5. CASE IsReady(i.task)
  <2> DEFINE y == [Dequeue(x, i) EXCEPT !.pc = "queueBook", !.ready = @ \cup {i.task},
                                        !.edge = i.task, !.node = i.large]
  <2>1. Becomes(e, y)
    BY <1>2, <1>5
  <2>2. /\ y \in Container /\ y.pc = "queueBook" /\ y.cur = x.cur /\ y.become = x.become
        /\ y.nodes = x.nodes /\ y.node = i.large /\ y.noValue = x.noValue
        /\ y.edges = {} /\ y.edge = i.task /\ y.ready = x.ready \cup {i.task}
        /\ y.notReady = x.notReady /\ y.queue = x.queue \ {i} /\ y.tries = x.tries /\ y.prev = x.prev
    BY <1>1, <1>3, <1>4 DEF Dequeue, Container, Pcs
  <2> HIDE DEF y
  <2>3. i.task \notin TokensOf(x)
    BY <1>3, <1>5, NewlyReady
  <2>4. Local(y)
    BY <1>1, <1>3, <1>4, <2>2, <2>3
       DEF Local, ClaimsApart, EdgesApart, QueueApart, EdgePcs, BigPcs, WaitPcs, TokensOf
  <2>5. HeldBy(y) \subseteq HeldBy(x) /\ LiveBy(y) \subseteq LiveBy(x)
    BY <1>1, <2>2 DEF HeldBy, LiveBy
  <2>6. <<i.large, i.task>> \notin HeldBy(y)
    <3>1. \A j \in (x.queue \ {i}) \cup x.notReady : ~(j.large = i.large /\ j.task = i.task)
      BY <1>1, <1>3, <1>4 DEF Container, Delayed
    <3> QED
      BY <1>4, <2>2, <3>1 DEF HeldBy
  <2>7. TokensOf(y) \subseteq TokensOf(x) \cup {i.task} /\ BookOf(y) = {<<i.large, i.task>>}
    BY <2>2 DEF TokensOf, BookOf
  <2>8. ProtocolInv'
    BY <1>1, <1>3, <1>5, <2>1, <2>5, <2>6, <2>7, OneMoves, CheckStep DEF ExecutorInv
  <2> QED
    BY <1>1, <2>1, <2>2, <2>4, <2>8, TakeInv DEF CacheFollows
<1>6. CASE ~IsReady(i.task)
  <2> DEFINE z == [Dequeue(x, i) EXCEPT !.notReady = @ \cup {i}]
  <2>1. Becomes(e, QueueLeft(z))
    BY <1>2, <1>6
  <2>2. /\ z \in Container /\ z.pc = "queueGet" /\ z.cur = x.cur /\ z.become = x.become
        /\ z.nodes = x.nodes /\ z.node = x.node /\ z.noValue = x.noValue
        /\ z.edges = {} /\ z.edge = x.edge /\ z.ready = x.ready
        /\ z.notReady = x.notReady \cup {i} /\ z.queue = x.queue \ {i} /\ z.tries = x.tries /\ z.prev = x.prev
    BY <1>1, <1>3, <1>4 DEF Dequeue, Container
  <2> HIDE DEF z
  <2>3. Local(z)
    BY <1>1, <1>3, <1>4, <2>2
       DEF Local, ClaimsApart, EdgesApart, QueueApart, EdgePcs, BigPcs, WaitPcs
  <2>4. HeldBy(z) \subseteq HeldBy(x) /\ LiveBy(z) \subseteq LiveBy(x)
    BY <1>1, <2>2 DEF HeldBy, LiveBy
  <2>5. TokensOf(z) = TokensOf(x)
    BY <1>1, <2>2 DEF TokensOf
  <2>6. Follows(z, QueueLeft(z))
    BY <2>2, <2>3, QueueLeftFollows DEF WaitPcs
  <2>7. Follows(x, QueueLeft(z))
    BY <2>2, <2>4, <2>5, <2>6 DEF Follows, CacheFollows
  <2>8. Reported'
    BY <1>1 DEF ExecutorInv, Reported
  <2> QED
    BY <1>1, <2>1, <2>7, <2>8, QuietInv DEF ExecutorInv, TypeOK
<1> QED
  BY <1>5, <1>6

(* The INCR for an enqueued task given up on.                                *)
LEMMA GiveUpInv ==
    ASSUME ExecutorInv, NEW e \in Executors, GiveUp(e)
    PROVE  ExecutorInv'
<1> DEFINE x == ex[e]
           Z(i) == IF IncrIsReady(i.task) THEN [Dequeue(x, i) EXCEPT !.ready = @ \cup {i.task}]
                   ELSE [Dequeue(x, i) EXCEPT !.notReady = @ \cup {i}]
<1>1. /\ x \in Container /\ Local(x) /\ x.pc = "giveUp"
      /\ UNCHANGED <<result, pending, rerun, msgs, runs>>
  BY DEF ExecutorInv, TypeOK, GiveUp, At
<1>2. PICK i \in x.queue : Incr(i.large, i.task) /\ Becomes(e, GiveUpLeft(Z(i)))
  BY DEF GiveUp
<1>3. /\ i \in Delayed /\ i.task \in Tasks /\ i.large \in Deps[i.task] /\ i.large \in Tasks
      /\ <<i.large, i.task>> \in LiveBy(x)
  BY <1>1, WaitLive DEF Delayed
<1>4. i.large \notin x.nodes /\ x.edges = {}
  BY <1>1 DEF Local, EdgesApart, QueueApart, EdgePcs
<1> DEFINE z == Z(i)
<1>5. /\ z \in Container /\ z.pc = "giveUp" /\ z.cur = x.cur /\ z.become = x.become
      /\ z.nodes = x.nodes /\ z.node = x.node /\ z.noValue = x.noValue
      /\ z.edges = {} /\ z.edge = x.edge /\ z.queue = x.queue \ {i} /\ z.tries = x.tries /\ z.prev = x.prev
      /\ \/ IncrIsReady(i.task) /\ z.ready = x.ready \cup {i.task} /\ z.notReady = x.notReady
         \/ z.ready = x.ready /\ z.notReady = x.notReady \cup {i}
  <2>1. CASE IncrIsReady(i.task)
    BY <1>1, <1>3, <1>4, <2>1 DEF Dequeue, Container
  <2>2. CASE ~IncrIsReady(i.task)
    BY <1>1, <1>3, <1>4, <2>2 DEF Dequeue, Container
  <2> QED
    BY <2>1, <2>2
<1>6. Becomes(e, GiveUpLeft(z)) /\ UNCHANGED <<store, final>>
  BY <1>2 DEF Incr
<1> HIDE DEF z
<1>7. IncrIsReady(i.task) => i.task \notin TokensOf(x)
  BY <1>3, NewlyReady
<1>8. Local(z)
  BY <1>1, <1>3, <1>4, <1>5, <1>7
     DEF Local, ClaimsApart, EdgesApart, QueueApart, EdgePcs, BigPcs, WaitPcs, TokensOf
<1>9. HeldBy(z) \subseteq HeldBy(x) \ {<<i.large, i.task>>} /\ LiveBy(z) \subseteq LiveBy(x)
  <2>1. \A j \in x.queue \ {i} : ~(j.large = i.large /\ j.task = i.task)
    BY <1>1, <1>3 DEF Container, Delayed
  <2> QED
    BY <1>1, <1>4, <1>5, <2>1 DEF HeldBy, LiveBy
<1>10. \/ TokensOf(z) \subseteq TokensOf(x)
       \/ TokensOf(z) \subseteq TokensOf(x) \cup {i.task} /\ IncrIsReady(i.task)
  BY <1>1, <1>5 DEF TokensOf
<1>11. Follows(z, GiveUpLeft(z))
  BY <1>5, <1>8, GiveUpLeftFollows
<1>12. ProtocolInv'
  BY <1>1, <1>2, <1>3, <1>6, <1>9, <1>10, <1>11, OneMoves, IncrStep DEF Follows, CacheFollows, ExecutorInv
<1> QED
  BY <1>1, <1>2, <1>3, <1>5, <1>6, <1>11, <1>12, TakeInv DEF Follows, CacheFollows
-----------------------------------------------------------------------------
(* The Scheduler invokes one Executor per leaf: the only tokens are theirs.  *)
LEMMA InitInv == Init => ExecutorInv
<1> SUFFICES ASSUME Init
             PROVE  ExecutorInv
  OBVIOUS
<1> DEFINE x == Idle({}, {})
<1>1. /\ x \in Container
      /\ x.pc = "idle" /\ x.cur = None /\ x.become = None /\ x.nodes = {} /\ x.noValue = {}
      /\ x.node = None /\ x.edges = {} /\ x.edge = None /\ x.ready = {} /\ x.notReady = {}
      /\ x.queue = {} /\ x.tries = 0 /\ x.prev = {}
  BY Tries DEF Idle, Container, Pcs
<1> HIDE DEF x
<1>2. \A e \in Executors : ex[e] = x
  BY DEF Init, x
<1>3. TypeOK
  <2>1. result \in [Tasks -> {"small", "big", "none", "error"}]
    BY ExecutorAssumption DEF Init
  <2>2. ex \in [Executors -> Container]
    BY <1>1 DEF Init, x
  <2>3. pending \subseteq Invocation
    BY ExecutorAssumption DEF Init, Invocation
  <2> QED
    BY <2>1, <2>2, <2>3 DEF Init, TypeOK
<1>4. HeldBy(x) = {} /\ LiveBy(x) = {} /\ TokensOf(x) = {} /\ BookOf(x) = {}
  BY <1>1, NoneIsNoTask DEF HeldBy, LiveBy, TokensOf, BookOf
<1>5. Local(x) /\ History(x, runs, final)
  BY <1>1, Tries, NoneIsNoTask
     DEF Local, ClaimsApart, EdgesApart, QueueApart, EdgePcs, BigPcs, WaitPcs, History
<1>6. /\ \A g : ~HeldEdge(g)
      /\ \A t : HasToken(t) => t \in Tasks /\ Deps[t] = {}
  BY <1>2, <1>4 DEF HeldEdge, HasToken, Init
<1>7. CounterExact
  <2>1. \A t \in Tasks : CountedDeps(t) = {}
    BY DEF Init, CountedDeps
  <2> QED
    BY <2>1, FS_EmptySet DEF Init, CounterExact
<1>8. HeldOnce /\ EdgesGood /\ BookingOpen
  BY <1>2, <1>4 DEF Init, HeldOnce, EdgesGood, BookingOpen
<1>9. OneToken
  <2>1. ASSUME NEW i \in pending, NEW j \in pending, i.key = j.key
        PROVE  i = j
    <3>1. /\ i \in [key : Tasks, by : {None}, data : {{}}, attempt : {0}]
          /\ j \in [key : Tasks, by : {None}, data : {{}}, attempt : {0}]
      BY DEF Init
    <3>2. i.by = j.by /\ i.data = j.data /\ i.attempt = j.attempt
      BY <3>1
    <3> QED
      BY <2>1, <3>1, <3>2
  <2> QED
    BY <1>2, <1>4, <2>1 DEF OneToken
<1>10. TokenFirst /\ StartedSettled /\ RunOnce
  <2>1. counted = {} /\ \A t \in Tasks : runs[t] = 0
    BY DEF Init
  <2>2. \A t \in Tasks : HasToken(t) => Settled(t)
    BY <1>6 DEF Settled
  <2>3. TokenFirst /\ RunOnce
    BY <1>6, <2>1 DEF TokenFirst, RunOnce
  <2>4. \A t \in Tasks : ~(runs[t] > 0)
    BY <2>1
  <2>5. StartedSettled
    BY <1>6, <2>1, <2>2, <2>4 DEF StartedSettled
  <2> QED
    BY <2>3, <2>5
<1>11. Reported /\ PayloadsAreInputs
  BY DEF Init, Reported, PayloadsAreInputs
<1> QED
  BY <1>2, <1>3, <1>5, <1>7, <1>8, <1>9, <1>10, <1>11 DEF ExecutorInv, ProtocolInv

(* A step that changes nothing preserves the invariant, ...                  *)
LEMMA StutterInv == ExecutorInv /\ UNCHANGED vars => ExecutorInv'
BY DEF vars, redis, ExecutorInv, TypeOK, ProtocolInv, Reported, PayloadsAreInputs, CounterExact, CountedDeps,
       HeldOnce, EdgesGood, OneToken, TokenFirst, StartedSettled, BookingOpen, RunOnce,
       HeldEdge, HasToken, Good, Settled, Failing, NoneTasks

(* ... and so does every step of the Executors, unless it is a failure after *)
(* which AWS runs the event again.                                           *)
LEMMA NextInv == ExecutorInv /\ NoRerun' /\ [Next]_vars => ExecutorInv'
<1> SUFFICES ASSUME ExecutorInv, NoRerun', Next
             PROVE  ExecutorInv'
  BY StutterInv
<1>1. PICK e \in Executors : Start(e) \/ Step(e)
  BY DEF Next
<1> QED
  BY <1>1, StartInv, ExecuteCurrentInv, SelectNodeInv, EndOfNodesInv, RootSetInv, RootMsgInv,
     SaveInv, PeekBecomeInv, SmallStoreInv, SmallEdgeInv, EvictInv, InvokeInv, BigEdgeInv,
     BigBookInv, BigStoreInv, BigIncrInv, BigDoneInv, ExecutePulledInv, PulledSetInv,
     PulledMsgInv, QueueGetInv, QueueBookInv, ExecuteEnqueuedInv, GiveUpInv,
     GiveUpExecuteInv, GiveUpStoreInv DEF Step

(* What AWS has run again stays so.                                          *)
LEMMA RerunGrows == [Next]_vars => rerun \subseteq rerun'
<1>1. CASE UNCHANGED vars
  BY <1>1 DEF vars
<1>2. ASSUME NEW e, NEW x, Fail(e, x)
      PROVE  rerun \subseteq rerun'
  BY <1>2 DEF Fail
<1>3. ASSUME NEW f, NEW e, NEW x, NEW y, BecomesUnless(f, e, x, y)
      PROVE  rerun \subseteq rerun'
  BY <1>2, <1>3 DEF BecomesUnless
<1>4. ASSUME NEW e \in Executors, Start(e) \/ Step(e)
      PROVE  rerun \subseteq rerun'
  <2>1. CASE ExecuteCurrent(e)
    BY <1>3, <2>1 DEF ExecuteCurrent
  <2>2. CASE SelectNode(e)
    BY <1>3, <2>2 DEF SelectNode
  <2>3. CASE ExecutePulled(e)
    BY <1>3, <2>3 DEF ExecutePulled
  <2>4. CASE ExecuteEnqueued(e)
    BY <1>3, <2>4 DEF ExecuteEnqueued
  <2>5. CASE GiveUpExecute(e)
    BY <1>3, <2>5 DEF GiveUpExecute
  <2>6. CASE ~(\/ ExecuteCurrent(e) \/ SelectNode(e) \/ ExecutePulled(e)
               \/ ExecuteEnqueued(e) \/ GiveUpExecute(e))
    <3>1. CASE Start(e) \/ EndOfNodes(e)
      BY ZenonT(30), <3>1 DEF Start, EndOfNodes
    <3>2. CASE RootSet(e) \/ RootMsg(e)
      BY ZenonT(30), <3>2 DEF RootSet, RootMsg
    <3>3. CASE Save(e) \/ PeekBecome(e)
      BY ZenonT(30), <3>3 DEF Save, PeekBecome
    <3>4. CASE SmallStore(e) \/ SmallEdge(e)
      BY ZenonT(30), <3>4 DEF SmallStore, SmallEdge
    <3>5. CASE Evict(e) \/ Invoke(e)
      BY ZenonT(30), <3>5 DEF Evict, Invoke
    <3>6. CASE BigEdge(e) \/ BigBook(e)
      BY ZenonT(30), <3>6 DEF BigEdge, BigBook
    <3>7. CASE BigStore(e) \/ BigIncr(e)
      BY ZenonT(30), <3>7 DEF BigStore, BigIncr
    <3>8. CASE BigDone(e) \/ PulledSet(e)
      BY ZenonT(30), <3>8 DEF BigDone, PulledSet
    <3>9. CASE PulledMsg(e) \/ QueueGet(e)
      BY ZenonT(30), <3>9 DEF PulledMsg, QueueGet
    <3>10. CASE QueueBook(e) \/ GiveUp(e)
      BY ZenonT(30), <3>10 DEF QueueBook, GiveUp
    <3>11. CASE GiveUpStore(e)
      BY ZenonT(30), <3>11 DEF GiveUpStore
    <3> QED
      BY <1>4, <2>6, <3>1, <3>2, <3>3, <3>4, <3>5, <3>6,
         <3>7, <3>8, <3>9, <3>10, <3>11 DEF Step
  <2> QED
    BY <2>1, <2>2, <2>3, <2>4, <2>5, <2>6
<1> QED
  BY <1>1, <1>4 DEF Next

(* As long as AWS has run no failed event again, the invariant holds in      *)
(* every state of every DAG, whatever the number of Executors, the results   *)
(* of the tasks, the length of the task queues and the order in which the    *)
(* Redis commands of the containers interleave, and after failures too.      *)
THEOREM ExecutorInvHolds == Spec => [](NoRerun => ExecutorInv)
<1>1. (NoRerun => ExecutorInv) /\ [Next]_vars => (NoRerun => ExecutorInv)'
  <2>1. [Next]_vars /\ NoRerun' => NoRerun
    BY RerunGrows DEF NoRerun
  <2> QED
    BY <2>1, NextInv
<1> QED
  BY InitInv, <1>1, PTL DEF Spec

(* A set without two different elements has cardinality 0 or 1.              *)
LEMMA AtMostOne ==
    ASSUME NEW S, \A a, b \in S : a = b
    PROVE  /\ Cardinality(S) \in {0, 1}
           /\ Cardinality(S) = 1 => \E a \in S : TRUE
<1>1. CASE S = {}
  BY <1>1, FS_EmptySet
<1>2. CASE S # {}
  <2>1. PICK a \in S : TRUE
    BY <1>2
  <2>2. S = {a}
    BY <2>1
  <2> QED
    BY <2>2, FS_Singleton
<1> QED
  BY <1>1, <1>2

(* The invariant puts at most one claim on a task.                           *)
LEMMA ClaimsOne == ExecutorInv => \A t \in Tasks : Claims(t) <= 1
<1> SUFFICES ASSUME ExecutorInv, NEW t \in Tasks
             PROVE  Claims(t) <= 1
  OBVIOUS
<1> DEFINE P == {i \in pending : i.key = t}
           A == {e \in Executors : At(e, "task") /\ ex[e].cur = t}
           B == {e \in Executors : ex[e].become = t}
           C == {e \in Executors : t \in ex[e].ready}
<1>1. \A e \in A \cup B \cup C : e \in Executors /\ t \in TokensOf(ex[e])
  BY DEF TokensOf, At
<1>2. \A e, f \in A \cup B \cup C : e = f
  BY <1>1 DEF ExecutorInv, ProtocolInv, OneToken
<1>3. \A i, j \in P : i = j
  BY DEF ExecutorInv, ProtocolInv, OneToken
<1>4. P # {} => A \cup B \cup C = {}
  BY <1>1 DEF ExecutorInv, ProtocolInv, OneToken
<1>5. \A e \in Executors : ClaimsApart(ex[e])
  BY DEF ExecutorInv, Local
<1>6. A \cap B = {} /\ A \cap C = {} /\ B \cap C = {}
  BY <1>5 DEF ClaimsApart, At
<1>7. P \cup A \cup B \cup C # {} => runs[t] = 0
  <2>1. P \cup A \cup B \cup C # {} => HasToken(t)
    BY <1>1 DEF HasToken
  <2> QED
    BY <2>1 DEF ExecutorInv, ProtocolInv, TokenFirst
<1>8. runs[t] \in {0, 1}
  BY DEF ExecutorInv, ProtocolInv, RunOnce
<1>9. Claims(t) = runs[t] + Cardinality(P) + Cardinality(A) + Cardinality(B) + Cardinality(C)
  BY DEF Claims
<1>10. /\ Cardinality(P) \in {0, 1} /\ (Cardinality(P) = 1 => P # {})
       /\ Cardinality(A) \in {0, 1} /\ (Cardinality(A) = 1 => A # {})
       /\ Cardinality(B) \in {0, 1} /\ (Cardinality(B) = 1 => B # {})
       /\ Cardinality(C) \in {0, 1} /\ (Cardinality(C) = 1 => C # {})
  <2> HIDE DEF P, A, B, C
  <2>1. /\ \A a, b \in A : a = b
        /\ \A a, b \in B : a = b
        /\ \A a, b \in C : a = b
    BY <1>2
  <2> QED
    BY <1>3, <2>1, AtMostOne
<1>11. /\ P = {} \/ (A = {} /\ B = {} /\ C = {})
       /\ A = {} \/ (B = {} /\ C = {})
       /\ B = {} \/ C = {}
  <2> HIDE DEF P, A, B, C
  <2> QED
    BY <1>2, <1>4, <1>6
<1> HIDE DEF P, A, B, C
<1> QED
  BY <1>7, <1>8, <1>9, <1>10, <1>11

(* A task that nothing run again leads to is a task.                         *)
LEMMA UnaffectedTasks == Unaffected \subseteq Tasks
BY DEF Unaffected

(* As long as AWS has run no failed event again, no task of any DAG is run   *)
(* twice or claimed by two Executors, whether it is taken on a plain GET of  *)
(* its counter (a become node, a task pulled down behind a big output, an    *)
(* enqueued task), by the INCR that completes the counter, or by an          *)
(* invocation.                                                               *)
THEOREM NoDoubleExecutionHolds == Spec => [](NoRerun => NoDoubleExecution)
<1>1. ExecutorInv => NoDoubleExecution
  BY ClaimsOne, UnaffectedTasks DEF NoDoubleExecution
<1> QED
  BY <1>1, ExecutorInvHolds, PTL

(* As long as AWS has run no failed event again, no dependency is counted    *)
(* twice, book-keeping increments and the increments done when giving up     *)
(* included, and no counter passes the number of dependencies.               *)
THEOREM NoOverCountHolds == Spec => [](NoRerun => NoOverCount)
<1>1. ExecutorInv => NoOverCount
  <2> SUFFICES ASSUME ExecutorInv, NEW t \in Tasks
               PROVE  /\ counter[t] <= NumDeps(t)
                      /\ counter[t] = Cardinality({d \in Deps[t] : <<d, t>> \in counted})
    BY UnaffectedTasks DEF NoOverCount
  <2>1. counter[t] = Cardinality(CountedDeps(t))
    BY DEF ExecutorInv, ProtocolInv, CounterExact
  <2>2. Cardinality(CountedDeps(t)) <= Cardinality(Deps[t])
    BY DepsFinite, FS_Subset
  <2> QED
    BY <2>1, <2>2 DEF CountedDeps, NumDeps
<1> QED
  BY <1>1, ExecutorInvHolds, PTL

(* As long as AWS has run no failed event again, nothing downstream of a     *)
(* task that raised an exception is ever run, although process_big and       *)
(* process_enqueued_tasks_looped put failed tasks into nodes_to_process.     *)
THEOREM NoRunAfterErrorHolds == Spec => [](NoRerun => NoRunAfterError)
<1>1. ExecutorInv => NoRunAfterError
  BY UnaffectedTasks DEF ExecutorInv, ProtocolInv, StartedSettled, Settled, Good, NoRunAfterError
<1> QED
  BY <1>1, ExecutorInvHolds, PTL

(* When the Scheduler receives a lambda-result message, the result is in     *)
(* dcp_redis, and the task and all its dependencies have run once, as long   *)
(* as AWS has run no failed event again.                                     *)
THEOREM ResultBeforeMessageHolds == Spec => [](NoRerun => ResultBeforeMessage)
<1>1. ExecutorInv => ResultBeforeMessage
  <2> SUFFICES ASSUME ExecutorInv, NEW t \in Tasks, <<"lambda-result", t>> \in msgs
               PROVE  t \in final /\ \A d \in Deps[t] \cup {t} : runs[d] = 1
    BY DEF ResultBeforeMessage
  <2>1. t \in final /\ runs[t] = 1
    BY DEF ExecutorInv, Reported
  <2>2. Settled(t)
    BY <2>1 DEF ExecutorInv, ProtocolInv, StartedSettled
  <2> QED
    BY <2>1, <2>2 DEF Settled, Good
<1> QED
  BY <1>1, ExecutorInvHolds, PTL
-----------------------------------------------------------------------------
(* The task queue.  A container may return while tasks wait in its queue: a  *)
(* path that became a root does (process_path), as does one that ends with   *)
(* an error, and a warm container then has the queue but not the outputs.    *)
(* As long as this does not happen, an output that is waited for is kept.    *)
QueueWorkedOff == \A e \in Executors : At(e, "idle") => ex[e].queue = {}

RanTasks == {t \in Tasks : runs[t] = 1}
NodePcs == {"bigGet"} \cup BigPcs

(* What holds of a container, given the tasks that ran and the outputs in    *)
(* Redis: executed_tasks ran; so did node_processing, and a big one is       *)
(* cached; the outputs waited for ran and are cached or stored.              *)
KeptAt(x, ran, stored) ==
    /\ x.executed \subseteq ran
    /\ x.pc \in {"peek", "store"} \cup NodePcs => x.node \in ran
    /\ x.pc \in NodePcs => x.node \in x.prev
    /\ \A i \in x.queue \cup x.notReady : i.large \in ran \cap (x.prev \cup stored)

KeptInv ==
    /\ store \cup final \subseteq RanTasks
    /\ \A e \in Executors : KeptAt(ex[e], RanTasks, store)

(* Steps of other containers do not disturb this.                            *)
LEMMA KeptLater ==
    ASSUME NEW x, NEW r, NEW r2, r \subseteq r2, NEW s, NEW s2, s \subseteq s2, KeptAt(x, r, s)
    PROVE  KeptAt(x, r2, s2)
BY DEF KeptAt

(* Nor does going on with what was cached, or ending with an empty queue.    *)
Quieter(x, y) ==
    /\ y.executed \subseteq x.executed /\ y.pc \notin {"peek", "store"} \cup NodePcs
    /\ \/ y.queue = {} /\ y.notReady = {}
       \/ x.prev \subseteq y.prev /\ y.queue \cup y.notReady \subseteq x.queue \cup x.notReady
LEMMA QuieterKept ==
    ASSUME NEW x, NEW y, NEW r, NEW s, KeptAt(x, r, s), Quieter(x, y)
    PROVE  KeptAt(y, r, s)
BY DEF KeptAt, Quieter

Ended(y) == y.pc = "idle" => y.queue = {}

LEMMA ReturnQuieter ==
    ASSUME NEW x \in Container, Ended(Return(x))
    PROVE  Quieter(x, Return(x))
BY DEF Return, Idle, Ended, Quieter, NodePcs, BigPcs

LEMMA NextIterationQuieter ==
    ASSUME NEW x \in Container, Ended(NextIteration(x))
    PROVE  Quieter(x, NextIteration(x))
<1>1. CASE x.nodes = {}
  BY <1>1, ReturnQuieter DEF NextIteration
<1>2. CASE x.nodes # {}
  BY <1>2 DEF NextIteration, Quieter, NodePcs, BigPcs, Container
<1> QED BY <1>1, <1>2

LEMMA AfterNodeQuieter ==
    ASSUME NEW x \in Container
    PROVE  Quieter(x, AfterNode(x))
BY DEF AfterNode, Quieter, NodePcs, BigPcs, Container

LEMMA EnterLoopQuieter ==
    ASSUME NEW x \in Container, Ended(EnterLoop(x))
    PROVE  Quieter(x, EnterLoop(x))
<1>1. CASE UseTaskQueue /\ x.queue # {}
  BY <1>1 DEF EnterLoop, Quieter, NodePcs, BigPcs, Container
<1>2. CASE ~(UseTaskQueue /\ x.queue # {})
  BY <1>2, NextIterationQuieter DEF EnterLoop
<1> QED BY <1>1, <1>2

LEMMA InvokeLeftQuieter ==
    ASSUME NEW x \in Container
    PROVE  Quieter(x, InvokeLeft(x))
<1>1. CASE x.ready = {}
  BY <1>1, AfterNodeQuieter DEF InvokeLeft
<1>2. CASE x.ready # {}
  BY <1>2 DEF InvokeLeft, Quieter, NodePcs, BigPcs, Container
<1> QED BY <1>1, <1>2

LEMMA PulledLeftQuieter ==
    ASSUME NEW x \in Container
    PROVE  Quieter(x, PulledLeft(x))
BY DEF PulledLeft, Quieter, NodePcs, BigPcs, Container

LEMMA EdgesLeftQuieter ==
    ASSUME NEW x \in Container
    PROVE  Quieter(x, EdgesLeft(x))
BY DEF EdgesLeft, Quieter, NodePcs, BigPcs, Container

LEMMA EndOfPassQuieter ==
    ASSUME NEW x \in Container, Ended(EndOfPass(x))
    PROVE  Quieter(x, EndOfPass(x))
<1>1. CASE ~x.looped
  BY <1>1 DEF EndOfPass, Quieter, NodePcs, BigPcs, Container
<1>2. CASE x.looped /\ (x.queue = {} \/ x.nodes # {})
  BY <1>2, NextIterationQuieter DEF EndOfPass
<1>3. CASE x.looped /\ ~(x.queue = {} \/ x.nodes # {})
  <2>1. EndOfPass(x) = [x EXCEPT !.tries = @ + 1,
                            !.pc = IF x.tries = MaxTries THEN "giveUp" ELSE "queueGet"]
    BY <1>3 DEF EndOfPass
  <2> QED
    BY <2>1 DEF Quieter, NodePcs, BigPcs, Container
<1> QED BY <1>1, <1>2, <1>3

LEMMA QueueLeftQuieter ==
    ASSUME NEW x \in Container, Ended(QueueLeft(x))
    PROVE  Quieter(x, QueueLeft(x))
<1>1. CASE x.queue # {}
  BY <1>1 DEF QueueLeft, Quieter, NodePcs, BigPcs, Container
<1>2. CASE x.queue = {}
  <2> DEFINE y == [x EXCEPT !.queue = x.notReady, !.notReady = {}, !.edge = None, !.node = None]
  <2>1. /\ y \in Container /\ y.executed = x.executed /\ y.prev = x.prev
        /\ y.queue = x.notReady /\ y.notReady = {}
    BY DEF Container
  <2>2. CASE x.ready = {}
    <3>1. QueueLeft(x) = EndOfPass(y)
      BY <1>2, <2>2 DEF QueueLeft
    <3> HIDE DEF y
    <3>2. Quieter(y, EndOfPass(y))
      BY <2>1, <3>1, EndOfPassQuieter
    <3> QED
      BY <2>1, <3>1, <3>2 DEF Quieter
  <2>3. CASE x.ready # {}
    <3>1. QueueLeft(x) = [y EXCEPT !.pc = "queueExec"]
      BY <1>2, <2>3 DEF QueueLeft
    <3> HIDE DEF y
    <3>2. LET z == [y EXCEPT !.pc = "queueExec"] IN
          /\ z.executed = y.executed /\ z.prev = y.prev /\ z.pc = "queueExec"
          /\ z.queue = y.queue /\ z.notReady = y.notReady
      BY <2>1 DEF Container
    <3> QED
      BY <2>1, <3>1, <3>2 DEF Quieter, NodePcs, BigPcs
  <2> QED BY <2>2, <2>3
<1> QED BY <1>1, <1>2

LEMMA GiveUpLeftQuieter ==
    ASSUME NEW x \in Container, Ended(GiveUpLeft(x)), x.pc \in {"giveUp", "giveExec", "giveStore"}
    PROVE  Quieter(x, GiveUpLeft(x))
<1>1. CASE x.queue # {}
  BY <1>1 DEF GiveUpLeft, Quieter, NodePcs, BigPcs, Container
<1>2. CASE x.queue = {} /\ x.ready # {}
  BY <1>2 DEF GiveUpLeft, Quieter, NodePcs, BigPcs, Container
<1>3. CASE x.queue = {} /\ x.ready = {} /\ x.notReady # {}
  BY <1>3 DEF GiveUpLeft, Quieter, NodePcs, BigPcs, Container
<1>4. CASE x.queue = {} /\ x.ready = {} /\ x.notReady = {}
  BY <1>4, NextIterationQuieter DEF GiveUpLeft
<1> QED BY <1>1, <1>2, <1>3, <1>4

(* Going on with the edges of a big output keeps it in hand.                 *)
LEMMA BigEdgesLeftKept ==
    ASSUME NEW x \in Container, NEW r, NEW s, KeptAt(x, r, s), x.pc \in NodePcs
    PROVE  KeptAt(BigEdgesLeft(x), r, s)
<1> DEFINE y == BigEdgesLeft(x)
<1>1. /\ y.pc \in {"bigDone", "bigGet"} /\ y.node = x.node /\ y.prev = x.prev
      /\ y.executed = x.executed /\ y.queue = x.queue /\ y.notReady = x.notReady
  BY DEF BigEdgesLeft, Container
<1> HIDE DEF y
<1> QED
  BY <1>1 DEF KeptAt, y

(* A step of e, after which its container is in order.                       *)
LEMMA KeptStep ==
    ASSUME ExecutorInv, KeptInv, NEW e \in Executors, NEW y, Becomes(e, y),
           KeptAt(y, RanTasks', store'), RanTasks \subseteq RanTasks', store \subseteq store',
           store' \cup final' \subseteq RanTasks'
    PROVE  KeptInv'
<1> SUFFICES ASSUME NEW f \in Executors
             PROVE  KeptAt(ex'[f], RanTasks', store')
  BY DEF KeptInv
<1>1. CASE f = e
  BY <1>1, OneMoves
<1>2. CASE f # e
  BY <1>2, OneMoves, KeptLater DEF KeptInv
<1> QED
  BY <1>1, <1>2

(* A step of e that writes nothing and runs nothing.                         *)
LEMMA KeptQuiet ==
    ASSUME ExecutorInv, KeptInv, NEW e \in Executors, NEW y, Becomes(e, y),
           KeptAt(y, RanTasks, store), store' = store, final' = final, runs' = runs
    PROVE  KeptInv'
<1>1. RanTasks' = RanTasks
  BY DEF RanTasks
<1> QED
  BY <1>1, KeptStep DEF KeptInv

(* The container that makes a step does not end with tasks in its queue.     *)
LEMMA BecomesEnded ==
    ASSUME ExecutorInv, QueueWorkedOff', NEW e \in Executors, NEW y, Becomes(e, y)
    PROVE  Ended(y)
BY OneMoves DEF QueueWorkedOff, Ended, At

LEMMA KeptOf ==
    ASSUME ExecutorInv, KeptInv, NEW e \in Executors
    PROVE  /\ ex[e] \in Container /\ Local(ex[e]) /\ History(ex[e], runs, final)
           /\ KeptAt(ex[e], RanTasks, store)
BY DEF ExecutorInv, TypeOK, KeptInv

LEMMA StartKept ==
    ASSUME ExecutorInv, KeptInv, QueueWorkedOff, NEW e \in Executors, Start(e)
    PROVE  KeptInv'
<1> DEFINE x == ex[e]
<1>1. x \in Container /\ Local(x) /\ KeptAt(x, RanTasks, store) /\ x.pc = "idle" /\ x.queue = {}
  BY KeptOf DEF Start, At, QueueWorkedOff
<1>2. x.notReady = {}
  BY <1>1 DEF Local, QueueApart, WaitPcs
<1>3. PICK i \in pending : Becomes(e, [x EXCEPT !.pc = "task", !.event = i, !.cur = i.key,
                                               !.prev = i.data])
  BY Zenon DEF Start
<1> DEFINE y == [x EXCEPT !.pc = "task", !.event = i, !.cur = i.key, !.prev = i.data]
<1>4. y.pc = "task" /\ y.executed = x.executed /\ y.queue = {} /\ y.notReady = {}
  BY <1>1, <1>2 DEF Container
<1>5. Becomes(e, y)
  BY <1>3
<1> HIDE DEF y
<1>6. KeptAt(y, RanTasks, store)
  BY <1>1, <1>4, QuieterKept DEF Quieter, NodePcs, BigPcs
<1> QED
  BY <1>5, <1>6, KeptQuiet DEF Start, redis

(* What running t leaves in a container: t is executed if it ran.            *)
LEMMA RunKept ==
    ASSUME ExecutorInv, KeptInv, NEW e \in Executors, NEW t \in TokensOf(ex[e]),
           ProcessTask(ex[e], t), UNCHANGED <<result, redis>>,
           ex[e].pc \notin {"peek", "store"} \cup NodePcs,
           NEW w \in Container,
           \/ w.prev = Ran(ex[e], t).prev \/ w.prev = Ran(ex[e], t).prev \cup {t},
           w.executed = Ran(ex[e], t).executed, w.pc = ex[e].pc,
           w.queue = ex[e].queue, w.notReady = ex[e].notReady
    PROVE  /\ RanTasks \subseteq RanTasks' /\ KeptAt(ex[e], RanTasks', store')
           /\ KeptAt(w, RanTasks', store') /\ ex[e].prev \subseteq w.prev
           /\ store' \cup final' \subseteq RanTasks' /\ store \subseteq store'
<1> DEFINE x == ex[e]
<1>1. x \in Container /\ KeptAt(x, RanTasks, store) /\ runs \in [Tasks -> Nat]
  BY KeptOf DEF ExecutorInv, TypeOK
<1>2. t \in Tasks /\ runs[t] = 0 /\ t \notin x.prev /\ Outcome(x, t) # "cached"
  BY TokenFacts DEF Outcome
<1>3. RanTasks \subseteq RanTasks' /\ (Outcome(x, t) # "missing" => t \in RanTasks')
  <2>1. CASE Outcome(x, t) = "missing"
    BY <1>1, <1>2, <2>1 DEF ProcessTask, RanTasks
  <2>2. CASE Outcome(x, t) # "missing"
    <3>1. runs' = [runs EXCEPT ![t] = @ + 1]
      BY <1>2, <2>2 DEF ProcessTask
    <3> QED
      BY <1>1, <1>2, <3>1 DEF RanTasks
  <2> QED
    BY <2>1, <2>2
<1>4. Ran(x, t).executed \subseteq x.executed \cup {s \in {t} : Outcome(x, t) # "missing"}
  <2>1. CASE Outcome(x, t) = "missing"
    BY <2>1 DEF Ran
  <2>2. CASE Outcome(x, t) # "missing"
    BY <1>1, <1>2, <2>2 DEF Ran, Container
  <2> QED
    BY <2>1, <2>2
<1>5. x.prev \subseteq w.prev
  <2>1. Ran(x, t).prev = IF Outcome(x, t) = "missing" THEN x.prev ELSE x.prev \cup Deps[t]
    BY <1>1, <1>2, RanFields
  <2> QED
    BY <2>1
<1>6. store' = store /\ final' = final /\ store \cup final \subseteq RanTasks
  BY DEF redis, KeptInv
<1>7. KeptAt(x, RanTasks', store')
  BY <1>1, <1>3, <1>6, KeptLater
<1>8. KeptAt(w, RanTasks', store')
  BY <1>1, <1>3, <1>4, <1>5, <1>7 DEF KeptAt
<1> QED
  BY <1>3, <1>5, <1>6, <1>7, <1>8

(* Putting it there leaves what the run changed.                             *)
LEMMA PutKeepsRan ==
    ASSUME NEW w \in Container, NEW t \in Tasks
    PROVE  LET z == PutNode(w, t) IN
           /\ z \in Container /\ z.pc = w.pc /\ z.queue = w.queue
           /\ z.notReady = w.notReady /\ z.prev = w.prev /\ z.executed = w.executed
<1> DEFINE z == PutNode(w, t)
<1>1. z \in Container
  BY ZenonT(60) DEF PutNode, Container
<1> QED
  BY <1>1 DEF PutNode, Container

LEMMA ExecuteCurrentKept ==
    ASSUME ExecutorInv, NoRerun', KeptInv, QueueWorkedOff', NEW e \in Executors, ExecuteCurrent(e)
    PROVE  KeptInv'
<1> DEFINE x == ex[e]
           t == ex[e].cur
           z == PutNode(Ran(x, t), t)
           y == [z EXCEPT !.pc = "next"]
<1>1. x \in Container /\ Local(x) /\ x.pc = "task" /\ t \in Tasks /\ t \in TokensOf(x)
  BY DEF ExecutorInv, TypeOK, ExecuteCurrent, At, Local, ClaimsApart, TokensOf
<1>2. ProcessTask(x, t) /\ UNCHANGED <<result, redis>>
  BY DEF ExecuteCurrent
<1>3. Becomes(e, Return(x)) \/ Becomes(e, y)
  <2> HIDE DEF y
  <2>1. BecomesUnless(Raises(x, t), e, x, IF HasResult(x, t) THEN y ELSE Return(x))
    BY DEF ExecuteCurrent, y
  <2> QED
    BY <2>1, FailReturns DEF BecomesUnless
<1>4. t \notin Deps[t] /\ t \notin x.prev
  BY <1>1, TokenFacts
<1>5. /\ z \in Container /\ z.pc = x.pc /\ z.queue = x.queue /\ z.notReady = x.notReady
      /\ z.prev = Ran(x, t).prev /\ z.executed = Ran(x, t).executed
  <2> DEFINE w == Ran(x, t)
  <2>1. w \in Container /\ w.pc = x.pc /\ w.queue = x.queue /\ w.notReady = x.notReady
    BY <1>1, <1>4, RanFields
  <2> HIDE DEF w
  <2> QED
    BY <1>1, <2>1, PutKeepsRan DEF w
<1>6. /\ RanTasks \subseteq RanTasks' /\ KeptAt(x, RanTasks', store') /\ KeptAt(z, RanTasks', store')
      /\ store' \cup final' \subseteq RanTasks' /\ store \subseteq store'
  BY <1>1, <1>2, <1>5, RunKept DEF NodePcs, BigPcs
<1>7. CASE Becomes(e, Return(x))
  BY <1>1, <1>6, <1>7, BecomesEnded, ReturnQuieter, QuieterKept, KeptStep
<1>8. CASE Becomes(e, y)
  <2> HIDE DEF z
  <2>1. /\ y.pc = "next" /\ y.executed = z.executed /\ y.prev = z.prev
        /\ y.queue = z.queue /\ y.notReady = z.notReady
    BY <1>5 DEF Container
  <2> HIDE DEF y
  <2>2. KeptAt(y, RanTasks', store')
    BY <1>6, <2>1, QuieterKept DEF Quieter, NodePcs, BigPcs
  <2> QED
    BY <1>6, <1>8, <2>2, KeptStep
<1> QED
  BY <1>3, <1>7, <1>8

LEMMA SelectNodeKept ==
    ASSUME ExecutorInv, NoRerun', KeptInv, QueueWorkedOff', NEW e \in Executors, SelectNode(e)
    PROVE  KeptInv'
<1> DEFINE x == ex[e]
           Y(n) == [TakeNode(x, n) EXCEPT
                      !.edges = Downstream(n), !.prev = @ \cup {n},
                      !.pc = IF n \in Big THEN "bigGet"
                             ELSE IF TakeNode(x, n).become = None THEN "peek" ELSE "store"]
           G(n) == IF n \in Roots THEN AfterNode(TakeNode(x, n)) ELSE Y(n)
<1>1. /\ x \in Container /\ Local(x) /\ KeptAt(x, RanTasks, store) /\ x.pc = "next"
      /\ UNCHANGED <<result, redis, runs>>
  BY KeptOf DEF SelectNode, At
<1>2. PICK n \in x.nodes : BecomesUnless(n \in x.noValue \ Roots, e, TakeNode(x, n), G(n))
  BY ZenonT(60) DEF SelectNode
<1> DEFINE z == TakeNode(x, n)
           y == Y(n)
<1>3. \/ Becomes(e, Return(z))
      \/ n \in Roots /\ Becomes(e, AfterNode(z))
      \/ n \notin Roots /\ n \notin x.noValue /\ Becomes(e, y)
  <2> HIDE DEF Y, z
  <2> QED
    BY <1>2, FailReturns DEF BecomesUnless, z
<1>4. n \in Tasks /\ (n \in x.cached) \in BOOLEAN
  BY <1>1, <1>2 DEF Container
<1>5. /\ z \in Container /\ z.pc = "next" /\ z.executed = x.executed /\ z.prev = x.prev
      /\ z.queue = x.queue /\ z.notReady = x.notReady /\ z.node = n
  BY ZenonT(60), <1>1, <1>4 DEF TakeNode, Container
<1>6. y = [z EXCEPT !.edges = Downstream(n), !.prev = @ \cup {n},
                    !.pc = IF n \in Big THEN "bigGet"
                           ELSE IF z.become = None THEN "peek" ELSE "store"]
  OBVIOUS
<1> HIDE DEF z, y
<1>7. KeptAt(z, RanTasks, store)
  BY <1>1, <1>5 DEF KeptAt, NodePcs, BigPcs
<1>8. CASE Becomes(e, Return(z))
  BY <1>1, <1>5, <1>7, <1>8, BecomesEnded, ReturnQuieter, QuieterKept, KeptQuiet DEF redis
<1>9. CASE Becomes(e, AfterNode(z))
  BY <1>1, <1>5, <1>7, <1>9, AfterNodeQuieter, QuieterKept, KeptQuiet DEF redis
<1>10. CASE n \notin Roots /\ n \notin x.noValue /\ Becomes(e, y)
  <2>1. n \in RanTasks
    <3>1. PICK s \in Downstream(n) : TRUE
      BY <1>4, <1>10 DEF Roots
    <3>2. <<n, s>> \in LiveBy(x)
      BY <1>2, <1>4, <1>10, <3>1 DEF LiveBy, HeldBy, Downstream
    <3> QED
      BY <3>2 DEF ExecutorInv, ProtocolInv, EdgesGood, Good, RanTasks
  <2>2. /\ y.pc \in {"bigGet", "peek", "store"} /\ y.executed = z.executed /\ y.prev = z.prev \cup {n}
        /\ y.queue = z.queue /\ y.notReady = z.notReady /\ y.node = n
    BY <1>5, <1>6 DEF Container
  <2>3. KeptAt(y, RanTasks, store)
    BY <1>7, <2>1, <2>2 DEF KeptAt, NodePcs, BigPcs
  <2> QED
    BY <1>1, <1>10, <2>3, KeptQuiet DEF redis
<1> QED
  BY <1>3, <1>8, <1>9, <1>10

LEMMA EndOfNodesKept ==
    ASSUME ExecutorInv, KeptInv, QueueWorkedOff', NEW e \in Executors, EndOfNodes(e)
    PROVE  KeptInv'
<1> DEFINE x == ex[e]
<1>1. /\ x \in Container /\ KeptAt(x, RanTasks, store)
      /\ UNCHANGED <<result, redis, runs>>
  BY KeptOf DEF EndOfNodes, At
<1>2. CASE x.become # None
  <2> DEFINE y == [x EXCEPT !.pc = "task", !.cur = x.become, !.become = None]
  <2>1. Becomes(e, y)
    BY <1>2 DEF EndOfNodes
  <2>2. Quieter(x, y)
    BY <1>1 DEF Quieter, NodePcs, BigPcs, Container
  <2> QED
    BY <1>1, <2>1, <2>2, QuieterKept, KeptQuiet DEF redis
<1>3. CASE x.become = None /\ x.cur = None
  <2>1. Becomes(e, EnterLoop(x))
    BY <1>3, NoneIsNoTask DEF EndOfNodes, Roots
  <2> QED
    BY <1>1, <2>1, BecomesEnded, EnterLoopQuieter, QuieterKept, KeptQuiet DEF redis
<1>4. CASE x.become = None /\ x.cur # None
  <2>1. PICK p \in {"rootSet", "save"} : Becomes(e, [x EXCEPT !.pc = p])
    BY <1>4 DEF EndOfNodes
  <2> DEFINE y == [x EXCEPT !.pc = p]
  <2>2. Quieter(x, y) /\ Becomes(e, y)
    BY <1>1, <2>1 DEF Quieter, NodePcs, BigPcs, Container
  <2> QED
    BY <1>1, <2>2, QuieterKept, KeptQuiet DEF redis
<1> QED
  BY <1>2, <1>3, <1>4

(* Outputs are written of tasks that ran.                                    *)
LEMMA RootSetKept ==
    ASSUME ExecutorInv, KeptInv, NEW e \in Executors, RootSet(e)
    PROVE  KeptInv'
<1> DEFINE x == ex[e]
           y == [x EXCEPT !.pc = "rootMsg"]
<1>1. /\ x \in Container /\ KeptAt(x, RanTasks, store) /\ Becomes(e, y)
      /\ final' = final \cup {x.cur} /\ store' = store /\ runs' = runs
      /\ x.cur \in RanTasks /\ RanTasks' = RanTasks
  BY KeptOf DEF RootSet, At, SetFinal, Local, ClaimsApart, History, RanTasks
<1>2. Quieter(x, y)
  BY <1>1 DEF Quieter, NodePcs, BigPcs, Container
<1>3. KeptAt(y, RanTasks', store')
  BY <1>1, <1>2, QuieterKept
<1> QED
  BY <1>1, <1>3, KeptStep DEF KeptInv

LEMMA PulledSetKept ==
    ASSUME ExecutorInv, KeptInv, NEW e \in Executors, PulledSet(e)
    PROVE  KeptInv'
<1> DEFINE x == ex[e]
           y == [x EXCEPT !.pc = "pullMsg"]
<1>1. /\ x \in Container /\ KeptAt(x, RanTasks, store) /\ Becomes(e, y)
      /\ final' = final \cup {x.edge} /\ store' = store /\ runs' = runs
      /\ x.edge \in RanTasks /\ RanTasks' = RanTasks
  BY KeptOf DEF PulledSet, At, SetFinal, Local, ClaimsApart, History, RanTasks
<1>2. Quieter(x, y)
  BY <1>1 DEF Quieter, NodePcs, BigPcs, Container
<1>3. KeptAt(y, RanTasks', store')
  BY <1>1, <1>2, QuieterKept
<1> QED
  BY <1>1, <1>3, KeptStep DEF KeptInv

LEMMA SaveKept ==
    ASSUME ExecutorInv, KeptInv, QueueWorkedOff', NEW e \in Executors, Save(e)
    PROVE  KeptInv'
<1> DEFINE x == ex[e]
<1>1. /\ x \in Container /\ KeptAt(x, RanTasks, store) /\ Becomes(e, EnterLoop(x))
      /\ store \subseteq store' /\ store' \subseteq store \cup {x.cur} /\ final' = final /\ runs' = runs
      /\ x.cur \in RanTasks /\ RanTasks' = RanTasks
  BY KeptOf DEF Save, At, StoreValue, redis, Local, ClaimsApart, History, RanTasks
<1>2. Quieter(x, EnterLoop(x))
  BY <1>1, BecomesEnded, EnterLoopQuieter
<1>3. KeptAt(EnterLoop(x), RanTasks', store')
  BY <1>1, <1>2, QuieterKept, KeptLater
<1> QED
  BY <1>1, <1>3, KeptStep DEF KeptInv

LEMMA RootMsgKept ==
    ASSUME ExecutorInv, KeptInv, QueueWorkedOff', NEW e \in Executors, RootMsg(e)
    PROVE  KeptInv'
<1> DEFINE x == ex[e]
<1>1. /\ x \in Container /\ KeptAt(x, RanTasks, store) /\ Becomes(e, NextIteration(x))
      /\ UNCHANGED <<redis, runs>>
  BY KeptOf DEF RootMsg
<1> QED
  BY <1>1, BecomesEnded, NextIterationQuieter, QuieterKept, KeptQuiet DEF redis

LEMMA PulledMsgKept ==
    ASSUME ExecutorInv, KeptInv, NEW e \in Executors, PulledMsg(e) \/ BigDone(e)
    PROVE  KeptInv'
<1> DEFINE x == ex[e]
<1>1. /\ x \in Container /\ KeptAt(x, RanTasks, store) /\ Becomes(e, PulledLeft(x))
      /\ UNCHANGED <<redis, runs>>
  BY KeptOf DEF PulledMsg, BigDone
<1> QED
  BY <1>1, PulledLeftQuieter, QuieterKept, KeptQuiet DEF redis

LEMMA PeekBecomeKept ==
    ASSUME ExecutorInv, KeptInv, NEW e \in Executors, PeekBecome(e)
    PROVE  KeptInv'
<1> DEFINE x == ex[e]
           b == Become[x.node]
<1>1. /\ x \in Container /\ KeptAt(x, RanTasks, store) /\ x.pc = "peek"
      /\ UNCHANGED <<redis, runs>>
  BY KeptOf DEF PeekBecome, At
<1>2. PICK y : /\ Becomes(e, y) /\ y.pc = "store" /\ y.node = x.node /\ y.executed = x.executed
               /\ y.prev = x.prev /\ y.queue = x.queue /\ y.notReady = x.notReady
  <2>1. CASE IsReady(b)
    <3> DEFINE z == [x EXCEPT !.become = b, !.edges = @ \ {b}]
               y == [z EXCEPT !.pc = "store"]
    <3>1. Becomes(e, y)
      BY <2>1 DEF PeekBecome, TakeBecome
    <3>2. /\ z.node = x.node /\ z.executed = x.executed /\ z.prev = x.prev
          /\ z.queue = x.queue /\ z.notReady = x.notReady /\ DOMAIN z = DOMAIN x
      BY <1>1 DEF Container
    <3>3. DOMAIN x = {"pc", "event", "cur", "become", "nodes", "noValue", "cached", "node", "edges",
                      "edge", "written", "ready", "notReady", "looped", "tries", "prev", "executed",
                      "queue"}
      BY <1>1 DEF Container
    <3> HIDE DEF z
    <3>4. /\ y.pc = "store" /\ y.node = x.node /\ y.executed = x.executed
          /\ y.prev = x.prev /\ y.queue = x.queue /\ y.notReady = x.notReady
      BY <3>2, <3>3
    <3> QED
      BY <3>1, <3>4
  <2>2. CASE ~IsReady(b)
    <3>1. Becomes(e, [x EXCEPT !.pc = "store"])
      BY <2>2 DEF PeekBecome
    <3> QED
      BY <1>1, <3>1 DEF Container
  <2> QED
    BY <2>1, <2>2
<1>3. KeptAt(y, RanTasks, store)
  BY <1>1, <1>2 DEF KeptAt, NodePcs, BigPcs
<1> QED
  BY <1>1, <1>2, <1>3, KeptQuiet DEF redis

LEMMA SmallStoreKept ==
    ASSUME ExecutorInv, KeptInv, NEW e \in Executors, SmallStore(e)
    PROVE  KeptInv'
<1> DEFINE x == ex[e]
<1>1. /\ x \in Container /\ KeptAt(x, RanTasks, store) /\ Becomes(e, EdgesLeft(x))
      /\ store' \in {store, store \cup {x.node}} /\ final' = final /\ runs' = runs
      /\ x.node \in RanTasks /\ RanTasks' = RanTasks
  BY KeptOf DEF SmallStore, At, StoreValue, RanTasks, KeptAt, redis
<1>2. KeptAt(EdgesLeft(x), RanTasks', store')
  BY <1>1, EdgesLeftQuieter, QuieterKept, KeptLater
<1> QED
  BY <1>1, <1>2, KeptStep DEF KeptInv

LEMMA SmallEdgeKept ==
    ASSUME ExecutorInv, KeptInv, NEW e \in Executors, SmallEdge(e)
    PROVE  KeptInv'
<1> DEFINE x == ex[e]
<1>1. /\ x \in Container /\ KeptAt(x, RanTasks, store) /\ x.pc = "edges"
      /\ store' = store /\ final' = final /\ runs' = runs
  BY KeptOf DEF SmallEdge, At, Incr
<1>2. PICK s \in x.edges :
         LET z == [x EXCEPT !.edges = @ \ {s}] IN
         Becomes(e, EdgesLeft(IF IncrIsReady(s) THEN TakeReady(z, s) ELSE z))
  BY DEF SmallEdge
<1> DEFINE z == [x EXCEPT !.edges = @ \ {s}]
<1>3. z \in Container /\ s \in Tasks
  BY <1>1 DEF Container
<1>4. /\ z.pc = x.pc /\ z.executed = x.executed /\ z.prev = x.prev
      /\ z.queue = x.queue /\ z.notReady = x.notReady
  BY <1>1 DEF Container
<1> HIDE DEF z
<1>5. PICK y : /\ Becomes(e, EdgesLeft(y)) /\ y \in Container /\ y.pc = z.pc /\ y.executed = z.executed
               /\ y.prev = z.prev /\ y.queue = z.queue /\ y.notReady = z.notReady
  <2>1. CASE ~IncrIsReady(s)
    <3>1. Becomes(e, EdgesLeft(z))
      BY <1>2, <2>1 DEF z
    <3> QED
      BY <1>3, <3>1
  <2>2. CASE IncrIsReady(s)
    <3>1. Becomes(e, EdgesLeft(TakeReady(z, s)))
      BY <1>2, <2>2 DEF z
    <3>2. CASE z.become = None
      <4>1. TakeReady(z, s) = [z EXCEPT !.become = s]
        BY <3>2 DEF TakeReady
      <4> QED
        BY <1>3, <3>1, <4>1 DEF Container
    <3>3. CASE z.become # None
      <4>1. TakeReady(z, s) = [z EXCEPT !.ready = z.ready \cup {s}]
        BY <1>3, <3>3 DEF TakeReady, Container
      <4> QED
        BY <1>3, <3>1, <4>1 DEF Container
    <3> QED
      BY <3>2, <3>3
  <2> QED
    BY <2>1, <2>2
<1>6. KeptAt(y, RanTasks, store)
  BY <1>1, <1>4, <1>5 DEF KeptAt, NodePcs, BigPcs
<1> QED
  BY <1>1, <1>5, <1>6, EdgesLeftQuieter, QuieterKept, KeptQuiet

(* What is in executed_tasks or in Redis has run, and the target of an edge  *)
(* that waits in the queue has not: its output is not evictable.             *)
LEMMA EvictKept ==
    ASSUME ExecutorInv, KeptInv, NEW e \in Executors, Evict(e)
    PROVE  KeptInv'
<1> DEFINE x == ex[e]
<1>1. /\ x \in Container /\ Local(x) /\ KeptAt(x, RanTasks, store) /\ x.pc = "evict"
      /\ UNCHANGED <<redis, runs>>
  BY KeptOf DEF Evict, At
<1>2. PICK gone \in SUBSET Evictable(x) : Becomes(e, InvokeLeft([x EXCEPT !.prev = @ \ gone]))
  BY DEF Evict
<1> DEFINE z == [x EXCEPT !.prev = @ \ gone]
<1>3. /\ z \in Container /\ z.pc = "evict" /\ z.executed = x.executed /\ z.prev = x.prev \ gone
      /\ z.queue = x.queue /\ z.notReady = x.notReady
  BY <1>1 DEF Container
<1>4. x.notReady = {}
  BY <1>1 DEF Local, QueueApart, WaitPcs
<1>5. ASSUME NEW i \in x.queue
      PROVE  i.large \notin gone
  <2>1. i \in Delayed /\ i.large \in Deps[i.task] /\ <<i.large, i.task>> \in HeldBy(x)
    BY <1>1 DEF Container, Local, QueueApart, HeldBy, Delayed
  <2>2. i.task \in Tasks /\ i.task \in Downstream(i.large) /\ HeldEdge(<<i.large, i.task>>)
    BY <2>1 DEF Delayed, Downstream, HeldEdge
  <2>3. runs[i.task] # 1
    BY <2>1, <2>2 DEF ExecutorInv, ProtocolInv, StartedSettled, Settled
  <2>4. i.task \notin x.executed \cup InDcpRedis
    BY <1>1, <2>3 DEF KeptAt, KeptInv, RanTasks, InDcpRedis
  <2> QED
    BY <2>2, <2>4 DEF Evictable
<1> HIDE DEF z
<1>6. KeptAt(z, RanTasks, store)
  BY <1>1, <1>3, <1>4, <1>5 DEF KeptAt, NodePcs, BigPcs
<1>7. Becomes(e, InvokeLeft(z))
  BY <1>2 DEF z
<1> QED
  BY <1>1, <1>3, <1>6, <1>7, InvokeLeftQuieter, QuieterKept, KeptQuiet DEF redis

LEMMA InvokeKept ==
    ASSUME ExecutorInv, KeptInv, NEW e \in Executors, Invoke(e)
    PROVE  KeptInv'
<1> DEFINE x == ex[e]
<1>1. /\ x \in Container /\ KeptAt(x, RanTasks, store) /\ x.pc = "invoke"
      /\ UNCHANGED <<redis, runs>>
  BY KeptOf DEF Invoke, At
<1>2. PICK s \in x.ready : Becomes(e, InvokeLeft([x EXCEPT !.ready = @ \ {s}]))
  BY DEF Invoke
<1> DEFINE z == [x EXCEPT !.ready = @ \ {s}]
<1>3. z \in Container /\ Quieter(x, z)
  BY <1>1 DEF Container, Quieter, NodePcs, BigPcs
<1> HIDE DEF z
<1>4. Becomes(e, InvokeLeft(z)) /\ KeptAt(z, RanTasks, store)
  BY <1>1, <1>2, <1>3, QuieterKept DEF z
<1> QED
  BY <1>1, <1>3, <1>4, InvokeLeftQuieter, QuieterKept, KeptQuiet DEF redis

LEMMA BigEdgeKept ==
    ASSUME ExecutorInv, KeptInv, NEW e \in Executors, BigEdge(e)
    PROVE  KeptInv'
<1> DEFINE x == ex[e]
<1>1. /\ x \in Container /\ KeptAt(x, RanTasks, store) /\ x.pc = "bigGet"
      /\ UNCHANGED <<redis, runs>>
  BY KeptOf DEF BigEdge, At
<1>2. PICK s \in x.edges :
         LET z == [x EXCEPT !.edges = @ \ {s}, !.edge = s] IN
         Becomes(e,
              CASE IsReady(s) -> [z EXCEPT !.pc = "bigBook", !.ready = @ \cup {s}]
                [] ~IsReady(s) /\ UseTaskQueue /\ ~MultipleBigTasksPossible(z.node, s) ->
                     BigEdgesLeft([z EXCEPT !.queue = @ \cup {[task |-> s, large |-> z.node]}])
                [] OTHER -> BigCount(z))
  BY Zenon DEF BigEdge
<1> DEFINE z == [x EXCEPT !.edges = @ \ {s}, !.edge = s]
           d == [task |-> s, large |-> z.node]
           q == [z EXCEPT !.queue = @ \cup {d}]
<1>3. /\ z \in Container /\ z.pc = "bigGet" /\ z.node = x.node /\ z.executed = x.executed
      /\ z.prev = x.prev /\ z.queue = x.queue /\ z.notReady = x.notReady
  BY <1>1 DEF Container
<1>4. Becomes(e, CASE IsReady(s) -> [z EXCEPT !.pc = "bigBook", !.ready = @ \cup {s}]
                   [] ~IsReady(s) /\ UseTaskQueue /\ ~MultipleBigTasksPossible(z.node, s) -> BigEdgesLeft(q)
                   [] OTHER -> BigCount(z))
  BY <1>2
<1> HIDE DEF z
<1>5. KeptAt(z, RanTasks, store) /\ z.node \in RanTasks \cap z.prev
  BY <1>1, <1>3 DEF KeptAt, NodePcs, BigPcs
<1>6. CASE IsReady(s)
  <2> DEFINE y == [z EXCEPT !.pc = "bigBook", !.ready = @ \cup {s}]
  <2>1. Becomes(e, y)
    BY <1>4, <1>6
  <2>2. /\ y.pc = "bigBook" /\ y.node = z.node /\ y.executed = z.executed
        /\ y.prev = z.prev /\ y.queue = z.queue /\ y.notReady = z.notReady
    BY <1>3 DEF Container
  <2> HIDE DEF y
  <2>3. KeptAt(y, RanTasks, store)
    BY <1>5, <2>2 DEF KeptAt
  <2> QED
    BY <1>1, <2>1, <2>3, KeptQuiet DEF redis
<1>7. CASE ~IsReady(s) /\ UseTaskQueue /\ ~MultipleBigTasksPossible(z.node, s)
  <2>1. Becomes(e, BigEdgesLeft(q))
    BY <1>4, <1>7
  <2>2. d.large = z.node /\ s \in Tasks
    BY <1>1 DEF Container
  <2> HIDE DEF d
  <2>3. /\ q.pc = "bigGet" /\ q.node = z.node /\ q.executed = z.executed
        /\ q.prev = z.prev /\ q.queue = z.queue \cup {d} /\ q.notReady = z.notReady
    BY <1>3 DEF Container
  <2>4. q \in Container
    <3>1. z.node \in Tasks
      BY <1>5 DEF RanTasks
    <3>2. d \in Delayed
      BY <2>2, <3>1 DEF Delayed, d
    <3> QED
      BY <1>3, <3>2 DEF Container
  <2> HIDE DEF q
  <2>5. KeptAt(q, RanTasks, store)
    BY <1>5, <2>2, <2>3 DEF KeptAt
  <2> QED
    BY <1>1, <2>1, <2>3, <2>4, <2>5, BigEdgesLeftKept, KeptQuiet DEF redis, NodePcs
<1>8. CASE ~IsReady(s) /\ ~(UseTaskQueue /\ ~MultipleBigTasksPossible(z.node, s))
  <2>1. Becomes(e, BigCount(z))
    BY <1>4, <1>8
  <2>2. PICK p \in {"bigIncr", "bigStore"} : BigCount(z) = [z EXCEPT !.pc = p]
    BY DEF BigCount
  <2> DEFINE y == [z EXCEPT !.pc = p]
  <2>3. /\ y.pc \in BigPcs /\ y.node = z.node /\ y.executed = z.executed
        /\ y.prev = z.prev /\ y.queue = z.queue /\ y.notReady = z.notReady
    BY <1>3 DEF Container, BigPcs
  <2> HIDE DEF y
  <2>4. KeptAt(y, RanTasks, store)
    BY <1>5, <2>3 DEF KeptAt
  <2> QED
    BY <1>1, <2>1, <2>2, <2>4, KeptQuiet DEF redis, y
<1> QED
  BY <1>6, <1>7, <1>8

LEMMA BigBookKept ==
    ASSUME ExecutorInv, KeptInv, NEW e \in Executors, BigBook(e)
    PROVE  KeptInv'
<1> DEFINE x == ex[e]
<1>1. /\ x \in Container /\ KeptAt(x, RanTasks, store) /\ x.pc = "bigBook"
      /\ Becomes(e, BigEdgesLeft(x)) /\ store' = store /\ final' = final /\ runs' = runs
  BY KeptOf DEF BigBook, At, Incr
<1> QED
  BY <1>1, BigEdgesLeftKept, KeptQuiet DEF NodePcs, BigPcs

LEMMA BigStoreKept ==
    ASSUME ExecutorInv, KeptInv, NEW e \in Executors, BigStore(e)
    PROVE  KeptInv'
<1> DEFINE x == ex[e]
           y == [x EXCEPT !.pc = "bigIncr", !.written = TRUE]
<1>1. /\ x \in Container /\ KeptAt(x, RanTasks, store) /\ Becomes(e, y) /\ x.pc = "bigStore"
      /\ store' = store \cup {x.node} /\ final' = final /\ runs' = runs /\ RanTasks' = RanTasks
  BY KeptOf DEF BigStore, At, StoreValue, RanTasks
<1>2. x.node \in RanTasks
  BY <1>1 DEF KeptAt, NodePcs, BigPcs
<1>3. /\ y.pc = "bigIncr" /\ y.node = x.node /\ y.executed = x.executed
      /\ y.prev = x.prev /\ y.queue = x.queue /\ y.notReady = x.notReady
  BY <1>1 DEF Container
<1> HIDE DEF y
<1>4. KeptAt(y, RanTasks, store)
  BY <1>1, <1>3 DEF KeptAt, NodePcs, BigPcs
<1>5. KeptAt(y, RanTasks', store')
  BY <1>1, <1>4, KeptLater
<1> QED
  BY <1>1, <1>2, <1>5, KeptStep DEF KeptInv

LEMMA BigIncrKept ==
    ASSUME ExecutorInv, KeptInv, NEW e \in Executors, BigIncr(e)
    PROVE  KeptInv'
<1> DEFINE x == ex[e]
<1>1. /\ x \in Container /\ Local(x) /\ KeptAt(x, RanTasks, store) /\ x.pc = "bigIncr"
      /\ store' = store /\ final' = final /\ runs' = runs
  BY KeptOf DEF BigIncr, At, Incr
<1>2. PICK z : /\ Becomes(e, BigEdgesLeft(z)) /\ z \in Container /\ z.pc = x.pc /\ z.node = x.node
               /\ z.executed = x.executed /\ z.prev = x.prev /\ z.queue = x.queue /\ z.notReady = x.notReady
  <2>1. CASE ~IncrIsReady(x.edge)
    BY <1>1, <2>1 DEF BigIncr
  <2>2. CASE IncrIsReady(x.edge)
    <3>1. Becomes(e, BigEdgesLeft([x EXCEPT !.ready = @ \cup {x.edge}]))
      BY <2>2 DEF BigIncr
    <3>2. x.edge \in Tasks
      BY <1>1 DEF Local, EdgesApart, BigPcs, Downstream
    <3> QED
      BY <1>1, <3>1, <3>2 DEF Container
  <2> QED
    BY <2>1, <2>2
<1>3. KeptAt(z, RanTasks, store)
  BY <1>1, <1>2 DEF KeptAt
<1> QED
  BY <1>1, <1>2, <1>3, BigEdgesLeftKept, KeptQuiet DEF NodePcs, BigPcs

(* What the run of a ready task leaves alone.                                *)
LEMMA ReadyRunKeeps ==
    ASSUME NEW x \in Container, NEW t \in Tasks, t \notin Deps[t], t \notin x.prev
    PROVE  LET y == RanReady(x, t)
               z == Keep(y, t) IN
           /\ y \in Container /\ y.pc = x.pc /\ y.prev = Ran(x, t).prev
           /\ y.executed = Ran(x, t).executed /\ y.queue = x.queue /\ y.notReady = x.notReady
           /\ z \in Container /\ z.pc = x.pc /\ z.prev = Ran(x, t).prev \cup {t}
           /\ z.executed = Ran(x, t).executed /\ z.queue = x.queue /\ z.notReady = x.notReady
<1> DEFINE p == PutNode(Ran(x, t), t)
           y == RanReady(x, t)
           z == Keep(y, t)
<1>1. /\ p \in Container /\ p.pc = x.pc /\ p.queue = x.queue /\ p.notReady = x.notReady
      /\ p.prev = Ran(x, t).prev /\ p.executed = Ran(x, t).executed
  <2> DEFINE w == Ran(x, t)
  <2>1. w \in Container /\ w.pc = x.pc /\ w.queue = x.queue /\ w.notReady = x.notReady
    BY RanFields
  <2> HIDE DEF w
  <2> QED
    BY <2>1, PutKeepsRan DEF w
<1>2. y = [p EXCEPT !.ready = @ \ {t}]
  BY DEF RanReady
<1> HIDE DEF p, y
<1>3. /\ y \in Container /\ y.pc = p.pc /\ y.prev = p.prev
      /\ y.executed = p.executed /\ y.queue = p.queue /\ y.notReady = p.notReady
  BY <1>1, <1>2 DEF Container
<1>4. z = [y EXCEPT !.prev = @ \cup {t}]
  BY DEF Keep
<1> HIDE DEF z
<1>5. /\ z \in Container /\ z.pc = y.pc /\ z.prev = y.prev \cup {t}
      /\ z.executed = y.executed /\ z.queue = y.queue /\ z.notReady = y.notReady
  BY <1>3, <1>4 DEF Container
<1> QED
  BY <1>1, <1>3, <1>5 DEF y, z

LEMMA ExecutePulledKept ==
    ASSUME ExecutorInv, NoRerun', KeptInv, QueueWorkedOff', NEW e \in Executors, ExecutePulled(e)
    PROVE  KeptInv'
<1> DEFINE x == ex[e]
           Y(t) == Keep(RanReady(x, t), t)
           root(t) == [Y(t) EXCEPT !.nodes = x.nodes, !.noValue = x.noValue, !.cached = x.cached,
                                   !.pc = "pullSet", !.edge = t]
           other(t) == [Y(t) EXCEPT !.cached = x.cached \ {t}]
<1>1. x \in Container /\ x.pc = "pull" /\ UNCHANGED <<result, redis>>
  BY KeptOf DEF ExecutePulled, At
<1>2. PICK t \in x.ready :
          /\ ProcessTask(x, t)
          /\ BecomesUnless(Raises(x, t) \/ (Outcome(x, t) = "missing" /\ t \in Roots), e, x,
                           IF t \in Roots THEN root(t) ELSE PulledLeft(other(t)))
  BY ZenonT(60) DEF ExecutePulled
<1>3. Becomes(e, Return(x)) \/ Becomes(e, root(t)) \/ Becomes(e, PulledLeft(other(t)))
  <2> HIDE DEF root, other
  <2> QED
    BY <1>2, FailReturns DEF BecomesUnless
<1>4. t \in Tasks /\ t \in TokensOf(x)
  BY <1>1 DEF TokensOf, Container
<1>5. t \notin Deps[t] /\ t \notin x.prev
  BY <1>4, TokenFacts
<1> DEFINE y == Y(t)
<1>6. /\ y \in Container /\ y.pc = x.pc /\ y.prev = Ran(x, t).prev \cup {t}
      /\ y.executed = Ran(x, t).executed /\ y.queue = x.queue /\ y.notReady = x.notReady
  BY <1>1, <1>4, <1>5, ReadyRunKeeps
<1>7. /\ root(t) = [y EXCEPT !.nodes = x.nodes, !.noValue = x.noValue, !.cached = x.cached,
                             !.pc = "pullSet", !.edge = t]
      /\ other(t) = [y EXCEPT !.cached = x.cached \ {t}]
  OBVIOUS
<1> DEFINE a == root(t)
           z == other(t)
<1> HIDE DEF y, Y
<1>8. /\ RanTasks \subseteq RanTasks' /\ KeptAt(x, RanTasks', store') /\ KeptAt(y, RanTasks', store')
      /\ store' \cup final' \subseteq RanTasks' /\ store \subseteq store'
  BY <1>1, <1>2, <1>4, <1>6, RunKept DEF NodePcs, BigPcs
<1>9. CASE Becomes(e, Return(x))
  BY <1>1, <1>8, <1>9, BecomesEnded, ReturnQuieter, QuieterKept, KeptStep
<1>10. CASE Becomes(e, a)
  <2>1. /\ a.pc = "pullSet" /\ a.executed = y.executed /\ a.prev = y.prev
        /\ a.queue = y.queue /\ a.notReady = y.notReady
    BY ZenonT(60), <1>6, <1>7 DEF Container
  <2> HIDE DEF a, root
  <2>2. KeptAt(a, RanTasks', store')
    BY <1>8, <2>1, QuieterKept DEF Quieter, NodePcs, BigPcs
  <2> QED
    BY <1>8, <1>10, <2>2, KeptStep
<1>11. CASE Becomes(e, PulledLeft(z))
  <2>1. x.cached \subseteq Tasks
    BY <1>1 DEF Container
  <2>2. /\ z \in Container /\ z.pc = "pull" /\ z.executed = y.executed /\ z.prev = y.prev
        /\ z.queue = y.queue /\ z.notReady = y.notReady
    BY <1>1, <1>6, <1>7, <2>1 DEF Container
  <2> HIDE DEF z, other
  <2>3. KeptAt(z, RanTasks', store')
    BY <1>8, <2>2, QuieterKept DEF Quieter, NodePcs, BigPcs
  <2> QED
    BY <1>8, <1>11, <2>2, <2>3, PulledLeftQuieter, QuieterKept, KeptStep
<1> QED
  <2> HIDE DEF root, other
  <2> QED
    BY <1>3, <1>9, <1>10, <1>11

LEMMA QueueGetKept ==
    ASSUME ExecutorInv, KeptInv, QueueWorkedOff', NEW e \in Executors, QueueGet(e)
    PROVE  KeptInv'
<1> DEFINE x == ex[e]
<1>1. /\ x \in Container /\ KeptAt(x, RanTasks, store) /\ x.pc = "queueGet"
      /\ UNCHANGED <<redis, runs>>
  BY KeptOf DEF QueueGet, At
<1>2. PICK i \in x.queue :
         LET z == Dequeue(x, i) IN
         Becomes(e, IF IsReady(i.task)
                    THEN [z EXCEPT !.pc = "queueBook", !.ready = @ \cup {i.task},
                                   !.edge = i.task, !.node = i.large]
                    ELSE QueueLeft([z EXCEPT !.notReady = @ \cup {i}]))
  BY Zenon DEF QueueGet
<1> DEFINE z == Dequeue(x, i)
           y == [z EXCEPT !.pc = "queueBook", !.ready = @ \cup {i.task},
                          !.edge = i.task, !.node = i.large]
           w == [z EXCEPT !.notReady = @ \cup {i}]
<1>3. /\ z \in Container /\ z.pc = "queueGet" /\ z.executed = x.executed /\ z.prev = x.prev
      /\ z.queue = x.queue \ {i} /\ z.notReady = x.notReady /\ i \in Delayed
  BY <1>1 DEF Container, Dequeue
<1>4. Becomes(e, IF IsReady(i.task) THEN y ELSE QueueLeft(w))
  BY <1>2
<1> HIDE DEF z
<1>5. CASE IsReady(i.task)
  <2>1. /\ y.pc = "queueBook" /\ y.executed = z.executed /\ y.prev = z.prev
        /\ y.queue = z.queue /\ y.notReady = z.notReady
    BY <1>3 DEF Container
  <2> HIDE DEF y
  <2>2. Quieter(x, y)
    BY <1>3, <2>1 DEF Quieter, NodePcs, BigPcs
  <2> QED
    BY <1>1, <1>4, <1>5, <2>2, QuieterKept, KeptQuiet DEF redis
<1>6. CASE ~IsReady(i.task)
  <2>1. /\ w \in Container /\ w.pc = "queueGet" /\ w.executed = z.executed /\ w.prev = z.prev
        /\ w.queue = z.queue /\ w.notReady = z.notReady \cup {i}
    BY <1>3 DEF Container
  <2> HIDE DEF w
  <2>2. Quieter(x, w)
    BY <1>3, <2>1 DEF Quieter, NodePcs, BigPcs
  <2>3. Quieter(w, QueueLeft(w))
    BY <1>4, <1>6, <2>1, BecomesEnded, QueueLeftQuieter
  <2> QED
    BY <1>1, <1>4, <1>6, <2>2, <2>3, QuieterKept, KeptQuiet DEF redis
<1> QED
  BY <1>5, <1>6

LEMMA QueueBookKept ==
    ASSUME ExecutorInv, KeptInv, QueueWorkedOff', NEW e \in Executors, QueueBook(e)
    PROVE  KeptInv'
<1> DEFINE x == ex[e]
<1>1. /\ x \in Container /\ KeptAt(x, RanTasks, store) /\ Becomes(e, QueueLeft(x))
      /\ store' = store /\ final' = final /\ runs' = runs
  BY KeptOf DEF QueueBook, Incr
<1> QED
  BY <1>1, BecomesEnded, QueueLeftQuieter, QuieterKept, KeptQuiet

LEMMA ExecuteEnqueuedKept ==
    ASSUME ExecutorInv, NoRerun', KeptInv, QueueWorkedOff', NEW e \in Executors, ExecuteEnqueued(e)
    PROVE  KeptInv'
<1> DEFINE x == ex[e]
           Y(t) == Keep(RanReady(x, t), t)
           n == [x EXCEPT !.ready = {}]
           G(t) == CASE HasResult(x, t) -> IF Y(t).ready = {} THEN EndOfPass(Y(t)) ELSE Y(t)
                     [] ~HasResult(x, t) /\ x.looped -> NextIteration(n)
                     [] OTHER -> Return(x)
<1>1. x \in Container /\ x.pc = "queueExec" /\ UNCHANGED <<result, redis>>
  BY KeptOf DEF ExecuteEnqueued, At
<1>2. PICK t \in x.ready : ProcessTask(x, t) /\ BecomesUnless(EnqueuedFails(x, t), e, x, G(t))
  BY ZenonT(60) DEF ExecuteEnqueued
<1> DEFINE y == Y(t)
<1>3. \/ Becomes(e, Return(x)) \/ Becomes(e, NextIteration(n))
      \/ Becomes(e, EndOfPass(y)) \/ Becomes(e, y)
  <2>1. Becomes(e, Return(x)) \/ Becomes(e, G(t))
    <3> HIDE DEF G
    <3> QED
      BY <1>2, FailReturns DEF BecomesUnless
  <2> HIDE DEF Y, n
  <2> QED
    BY <2>1
<1>4. t \in Tasks /\ t \in TokensOf(x)
  BY <1>1 DEF TokensOf, Container
<1>5. t \notin Deps[t] /\ t \notin x.prev
  BY <1>4, TokenFacts
<1>6. /\ y \in Container /\ y.pc = x.pc /\ y.prev = Ran(x, t).prev \cup {t}
      /\ y.executed = Ran(x, t).executed /\ y.queue = x.queue /\ y.notReady = x.notReady
  BY <1>1, <1>4, <1>5, ReadyRunKeeps
<1>7. n \in Container /\ Quieter(x, n)
  BY <1>1 DEF Container, Quieter, NodePcs, BigPcs
<1> HIDE DEF y, Y, n, G
<1>8. /\ RanTasks \subseteq RanTasks' /\ KeptAt(x, RanTasks', store') /\ KeptAt(y, RanTasks', store')
      /\ store' \cup final' \subseteq RanTasks' /\ store \subseteq store'
  BY <1>1, <1>2, <1>4, <1>6, RunKept DEF NodePcs, BigPcs
<1>9. CASE Becomes(e, EndOfPass(y))
  BY <1>6, <1>8, <1>9, BecomesEnded, EndOfPassQuieter, QuieterKept, KeptStep
<1>10. CASE Becomes(e, y)
  BY <1>8, <1>10, KeptStep
<1>11. CASE Becomes(e, NextIteration(n))
  <2>1. KeptAt(n, RanTasks', store')
    BY <1>7, <1>8, QuieterKept
  <2> QED
    BY <1>7, <1>8, <1>11, <2>1, BecomesEnded, NextIterationQuieter, QuieterKept, KeptStep
<1>12. CASE Becomes(e, Return(x))
  BY <1>1, <1>8, <1>12, BecomesEnded, ReturnQuieter, QuieterKept, KeptStep
<1> QED
  BY <1>3, <1>9, <1>10, <1>11, <1>12

LEMMA GiveUpKept ==
    ASSUME ExecutorInv, KeptInv, QueueWorkedOff', NEW e \in Executors, GiveUp(e)
    PROVE  KeptInv'
<1> DEFINE x == ex[e]
<1>1. /\ x \in Container /\ KeptAt(x, RanTasks, store) /\ x.pc = "giveUp"
      /\ store' = store /\ final' = final /\ runs' = runs
  BY KeptOf DEF GiveUp, At, Incr
<1>2. PICK i \in x.queue :
         LET z == Dequeue(x, i) IN
         Becomes(e, GiveUpLeft(IF IncrIsReady(i.task)
                               THEN [z EXCEPT !.ready = @ \cup {i.task}]
                               ELSE [z EXCEPT !.notReady = @ \cup {i}]))
  BY Zenon DEF GiveUp
<1> DEFINE z == Dequeue(x, i)
           a == [z EXCEPT !.ready = @ \cup {i.task}]
           b == [z EXCEPT !.notReady = @ \cup {i}]
<1>3. /\ z \in Container /\ z.pc = "giveUp" /\ z.executed = x.executed /\ z.prev = x.prev
      /\ z.queue = x.queue \ {i} /\ z.notReady = x.notReady /\ i \in Delayed
  BY <1>1 DEF Container, Dequeue
<1>4. Becomes(e, GiveUpLeft(IF IncrIsReady(i.task) THEN a ELSE b))
  BY <1>2
<1> HIDE DEF z
<1>5. /\ a \in Container /\ a.pc = "giveUp" /\ a.executed = x.executed /\ a.prev = x.prev
      /\ a.queue = x.queue \ {i} /\ a.notReady = x.notReady
  BY <1>3 DEF Container, Delayed
<1>6. /\ b \in Container /\ b.pc = "giveUp" /\ b.executed = x.executed /\ b.prev = x.prev
      /\ b.queue = x.queue \ {i} /\ b.notReady = x.notReady \cup {i}
  BY <1>3 DEF Container
<1> DEFINE y == IF IncrIsReady(i.task) THEN a ELSE b
<1> HIDE DEF a, b
<1>7. /\ y \in Container /\ y.pc = "giveUp" /\ Quieter(x, y)
  BY <1>5, <1>6 DEF Quieter, NodePcs, BigPcs
<1>8. Becomes(e, GiveUpLeft(y))
  BY <1>4
<1> HIDE DEF y
<1> QED
  BY <1>1, <1>7, <1>8, BecomesEnded, GiveUpLeftQuieter, QuieterKept, KeptQuiet

LEMMA GiveUpExecuteKept ==
    ASSUME ExecutorInv, NoRerun', KeptInv, QueueWorkedOff', NEW e \in Executors, GiveUpExecute(e)
    PROVE  KeptInv'
<1> DEFINE x == ex[e]
           W(t) == IF HasResult(x, t) THEN Keep(RanReady(x, t), t) ELSE RanReady(x, t)
<1>1. x \in Container /\ x.pc = "giveExec" /\ UNCHANGED <<result, redis>>
  BY KeptOf DEF GiveUpExecute, At
<1>2. PICK t \in x.ready :
          /\ ProcessTask(x, t)
          /\ BecomesUnless(Raises(x, t) \/ (~HasResult(x, t) /\ x.nodes = {}), e, x,
                           GiveUpLeft(W(t)))
  BY ZenonT(60) DEF GiveUpExecute
<1> DEFINE w == W(t)
<1>3. Becomes(e, Return(x)) \/ Becomes(e, GiveUpLeft(w))
  <2> HIDE DEF W
  <2> QED
    BY <1>2, FailReturns DEF BecomesUnless
<1>4. t \in Tasks /\ t \in TokensOf(x)
  BY <1>1 DEF TokensOf, Container
<1>5. t \notin Deps[t] /\ t \notin x.prev
  BY <1>4, TokenFacts
<1>6. /\ w \in Container /\ w.pc = x.pc
      /\ w.prev = Ran(x, t).prev \cup {t} \/ w.prev = Ran(x, t).prev
      /\ w.executed = Ran(x, t).executed /\ w.queue = x.queue /\ w.notReady = x.notReady
  BY <1>1, <1>4, <1>5, ReadyRunKeeps
<1> HIDE DEF w, W
<1>7. /\ RanTasks \subseteq RanTasks' /\ KeptAt(x, RanTasks', store') /\ KeptAt(w, RanTasks', store')
      /\ store' \cup final' \subseteq RanTasks' /\ store \subseteq store'
  BY <1>1, <1>2, <1>4, <1>6, RunKept DEF NodePcs, BigPcs
<1>8. CASE Becomes(e, Return(x))
  BY <1>1, <1>7, <1>8, BecomesEnded, ReturnQuieter, QuieterKept, KeptStep
<1>9. CASE Becomes(e, GiveUpLeft(w))
  BY <1>1, <1>6, <1>7, <1>9, BecomesEnded, GiveUpLeftQuieter, QuieterKept, KeptStep
<1> QED
  BY <1>3, <1>8, <1>9

LEMMA GiveUpStoreKept ==
    ASSUME ExecutorInv, KeptInv, QueueWorkedOff', NEW e \in Executors, GiveUpStore(e)
    PROVE  KeptInv'
<1> DEFINE x == ex[e]
<1>1. /\ x \in Container /\ KeptAt(x, RanTasks, store) /\ x.pc = "giveStore"
      /\ final' = final /\ runs' = runs /\ RanTasks' = RanTasks
  BY KeptOf DEF GiveUpStore, At, StoreValue, RanTasks
<1>2. PICK i \in x.notReady : /\ store' = store \cup {i.large}
                              /\ Becomes(e, GiveUpLeft([x EXCEPT !.notReady = @ \ {i}]))
  BY DEF GiveUpStore, StoreValue
<1> DEFINE y == [x EXCEPT !.notReady = @ \ {i}]
<1>3. y \in Container /\ y.pc = "giveStore" /\ Quieter(x, y)
  BY <1>1 DEF Container, Quieter, NodePcs, BigPcs
<1>4. Becomes(e, GiveUpLeft(y)) /\ i.large \in RanTasks
  BY <1>1, <1>2 DEF KeptAt
<1> HIDE DEF y
<1>5. KeptAt(GiveUpLeft(y), RanTasks, store)
  BY <1>1, <1>3, <1>4, BecomesEnded, GiveUpLeftQuieter, QuieterKept
<1>6. KeptAt(GiveUpLeft(y), RanTasks', store')
  BY <1>1, <1>2, <1>5, KeptLater
<1> QED
  BY <1>1, <1>2, <1>4, <1>6, KeptStep DEF KeptInv

LEMMA KeptNext ==
    ExecutorInv /\ KeptInv /\ QueueWorkedOff /\ QueueWorkedOff' /\ NoRerun' /\ [Next]_vars => KeptInv'
<1> SUFFICES ASSUME ExecutorInv, KeptInv, QueueWorkedOff, QueueWorkedOff', NoRerun', [Next]_vars
             PROVE  KeptInv'
  OBVIOUS
<1>1. ASSUME NEW e \in Executors, Start(e) \/ Step(e)
      PROVE  KeptInv'
  BY <1>1, StartKept, ExecuteCurrentKept, SelectNodeKept, EndOfNodesKept, RootSetKept, RootMsgKept,
     SaveKept, PeekBecomeKept, SmallStoreKept, SmallEdgeKept, EvictKept, InvokeKept, BigEdgeKept,
     BigBookKept, BigStoreKept, BigIncrKept, PulledMsgKept, ExecutePulledKept, PulledSetKept,
     QueueGetKept, QueueBookKept, ExecuteEnqueuedKept, GiveUpKept, GiveUpExecuteKept,
     GiveUpStoreKept DEF Step
<1>2. CASE UNCHANGED vars
  BY <1>2 DEF vars, redis, KeptInv, KeptAt, RanTasks
<1> QED
  BY <1>1, <1>2 DEF Next

LEMMA KeptInit == Init => KeptInv
BY DEF Init, Idle, KeptInv, KeptAt, NodePcs, BigPcs

(* As long as no container ends with tasks in its task queue and AWS has run *)
(* no failed event again, whatever is waited for is still cached by the      *)
(* container that waits, or in Redis: the eviction of process_out_edges      *)
(* never drops it, for every DAG and whatever the other Executors do, with   *)
(* errors or without.                                                        *)
THEOREM WaitedForOutputKeptHolds ==
    Spec /\ []QueueWorkedOff => [](NoRerun => WaitedForOutputKept)
<1>1. KeptInv => WaitedForOutputKept
  BY DEF KeptInv, KeptAt, WaitedForOutputKept
<1>2. /\ QueueWorkedOff /\ QueueWorkedOff' /\ [Next]_vars
      /\ NoRerun => ExecutorInv
      /\ NoRerun => KeptInv
      => (NoRerun => KeptInv)'
  BY RerunGrows, KeptNext DEF NoRerun
<1> QED
  BY <1>1, <1>2, KeptInit, ExecutorInvHolds, PTL DEF Spec
=============================================================================
