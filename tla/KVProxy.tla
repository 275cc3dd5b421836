------------------------------ MODULE KVProxy ------------------------------
(* The KV Store Proxy.  An Executor whose task has many dependents gives its *)
(* output to the proxy, which stores it and counts and invokes the tasks of  *)
(* the invoke list; the Executor counts its become task itself.  The proxy   *)
(* is one event loop: a coroutine goes on until it waits for Redis.          *)
EXTENDS Naturals, Sequences, FiniteSets, SequencesExt

CONSTANTS ProxyGraphs,  \* the graphs announced by graph-init, a sequence of sets of tasks
          InvokeList,   \* InvokeList[t]: the invoke list of task t, in order
          ProxyBecome,  \* ProxyBecome[t]: the become task of t, or "none"
          ProxyNumDeps, \* num-dependencies-of-dependents
          ProxyInvokers \* num_invokers of the ProxyLambdaInvoker

VARIABLES sent,      \* the tasks whose Executors have published their set message
          due,       \* those of them that have still to count their become task
          channel,   \* redis_polling_queue
          inbox,     \* set messages that arrived on connections
          nodes,     \* path_nodes
          need,      \* need_to_process
          fromScheduler, \* the Scheduler's connection: "none", "open" or "ended"
          unread,      \* set messages whose connection broke before they were read
          inits,     \* the graph-init messages handled
          learning,  \* handle_graph_init: the nodes it has still to deserialize
          consumer,  \* consume_redis_queue: "unstarted", "running" or "dead"
          messages,  \* its messages
          procs,     \* the process_task coroutines
          draining,  \* handle_graph_init: the index in need, or 0
          buffered,  \* ProxyLambdaInvoker.buffer
          piped,     \* the tasks sent to its processes
          failed,    \* a coroutine has ended with an exception
          kept,      \* the outputs in Redis
          edges,     \* edges[<<t, s>>]: how often s was counted for t
          proxyRuns  \* proxyRuns[s]: how often a task has been invoked or become

proxyVars == <<sent, due, channel, inbox, fromScheduler, unread, nodes, need, inits, learning, consumer,
               messages, procs, draining, buffered, piped, failed, kept, edges, proxyRuns>>
invoker == <<buffered, piped>>
proxyData == <<kept, edges, proxyRuns, invoker>>
arrivals == <<sent, due, channel, inbox, unread>>

ProxyTasks == UNION ToSet(ProxyGraphs)
Senders == DOMAIN InvokeList
ProxyDownstream(t) == ToSet(InvokeList[t]) \cup ({ProxyBecome[t]} \ {"none"})

(* The schedule has every out-edge of a task once (EdgesScheduledOnce), and  *)
(* the graphs that are announced have the tasks.                             *)
ASSUME ProxyAssumption ==
    /\ IsFiniteSet(ProxyTasks) /\ "none" \notin ProxyTasks /\ Senders \subseteq ProxyTasks
    /\ \A t \in Senders :
          /\ InvokeList[t] \in [1..Len(InvokeList[t]) -> ProxyTasks] /\ Len(InvokeList[t]) \in Nat
          /\ \A i, j \in 1..Len(InvokeList[t]) : InvokeList[t][i] = InvokeList[t][j] => i = j
          /\ ProxyBecome[t] \in (ProxyTasks \cup {"none"}) \ ToSet(InvokeList[t])
    /\ \A s \in ProxyTasks : ProxyNumDeps[s] \in Nat
    /\ ProxyInvokers \in Nat /\ ProxyGraphs \in Seq(SUBSET ProxyTasks)

ProxyEdges == {e \in Senders \X ProxyTasks : e[2] \in ProxyDownstream(e[1])}
CounterOf(es, s) ==
    FoldFunctionOnSet(LAMBDA a, b : a + b, 0, es, {e \in ProxyEdges : e[2] = s})

ProxyInit ==
    /\ sent = {} /\ due = {} /\ channel = <<>> /\ inbox = {}
    /\ nodes = {} /\ need = <<>> /\ inits = 0 /\ learning = {}
    /\ consumer = "unstarted" /\ fromScheduler = "none" /\ unread = {}
    /\ messages = <<>> /\ procs = {} /\ draining = 0 /\ failed = FALSE
    /\ buffered = <<>> /\ piped = {}
    /\ kept = {} /\ edges = [e \in ProxyEdges |-> 0]
    /\ proxyRuns = [s \in ProxyTasks |-> 0]
-----------------------------------------------------------------------------
(* incr and get: the count, and whether it is complete.                      *)
CountEdge(t, s) == edges' = [edges EXCEPT ![<<t, s>>] = @ + 1]
Complete(t, s) == CounterOf([edges EXCEPT ![<<t, s>>] = @ + 1], s) = ProxyNumDeps[s]

(* process_small with use_proxy: the message, on the channel of the task's   *)
(* payload or on a connection, then the become task.                         *)
SendToProxy(t, direct) ==
    /\ t \in Senders \ sent
    /\ direct \/ consumer # "unstarted"  \* the names of the channels come with the start
    /\ sent' = sent \cup {t}
    /\ due' = IF ProxyBecome[t] = "none" THEN due ELSE due \cup {t}
    /\ IF direct THEN inbox' = inbox \cup {t} /\ UNCHANGED channel
       ELSE channel' = Append(channel, t) /\ UNCHANGED inbox
    /\ UNCHANGED <<unread, fromScheduler, nodes, need, inits, learning, consumer, messages, procs, draining, failed, proxyData>>

CountBecome(t) ==
    /\ t \in due
    /\ due' = due \ {t}
    /\ CountEdge(t, ProxyBecome[t])
    /\ proxyRuns' = IF Complete(t, ProxyBecome[t])
                    THEN [proxyRuns EXCEPT ![ProxyBecome[t]] = @ + 1] ELSE proxyRuns
    /\ UNCHANGED <<unread, fromScheduler, sent, channel, inbox, nodes, need, inits, learning, consumer, messages, procs,
                   draining, failed, kept, invoker>>
-----------------------------------------------------------------------------
(* process_task, called by who: it looks up the node, then stores the        *)
(* output, counts the tasks of the invoke list one by one, and invokes those *)
(* that are complete.                                                        *)
ProcUnstored(who, t) ==  \* mistake: the counting comes first
    [who |-> who, task |-> t, step |-> "count", left |-> InvokeList[t], ready |-> {}]
Proc(who, t) == [who |-> who, task |-> t, step |-> "store", left |-> InvokeList[t], ready |-> {}]
StartTask(who, t) == procs' = procs \cup {Proc(who, t)}
Active(who) == \E p \in procs : p.who = who

StoreOutput(p) ==
    /\ p \in procs /\ p.step = "store"
    /\ kept' = kept \cup {p.task}
    /\ procs' = (procs \ {p}) \cup {[p EXCEPT !.step = "count"]}
    /\ UNCHANGED <<fromScheduler, arrivals, nodes, need, inits, learning, consumer, messages, draining, failed, edges, proxyRuns, invoker>>

CountNext(p) ==
    /\ p \in procs /\ p.step = "count" /\ p.left # <<>> /\ Head(p.left) \in nodes
    /\ CountEdge(p.task, Head(p.left))
    /\ procs' = (procs \ {p}) \cup
           {[p EXCEPT !.left = Tail(@),
                      !.ready = IF Complete(p.task, Head(p.left)) THEN @ \cup {Head(p.left)} ELSE @]}
    /\ UNCHANGED <<fromScheduler, arrivals, nodes, need, inits, learning, consumer, messages, draining, failed, kept, proxyRuns, invoker>>

(* An exception: the message has no private IP (those of Executors hold the  *)
(* public one), a node of the invoke list is not known yet, or the path of a *)
(* ready task is not loaded yet.  It ends the coroutine that called          *)
(* process_task too.                                                         *)
ProcFails(p) ==
    /\ p \in procs
    /\ \/ p.step = "store" /\ p.who # "stream"
       \/ p.step = "count" /\ p.left # <<>> /\ Head(p.left) \notin nodes
       \/ p.step = "count" /\ p.left = <<>> /\ p.ready # {} /\ learning # {}
    /\ procs' = procs \ {p} /\ failed' = TRUE
    /\ IF p.who = "consumer" THEN consumer' = "dead" /\ messages' = <<>> ELSE UNCHANGED <<consumer, messages>>
    /\ IF p.who = "graph" THEN draining' = 0 /\ fromScheduler' = "ended"
       ELSE UNCHANGED <<draining, fromScheduler>>
    /\ UNCHANGED <<arrivals, nodes, need, inits, learning, proxyData>>

InvokeReady(p) ==
    /\ p \in procs /\ p.step = "count" /\ p.left = <<>>
    /\ p.ready = {} \/ learning = {}
    /\ buffered' = buffered \o SetToSeq(p.ready)
    /\ procs' = procs \ {p}
    /\ UNCHANGED <<fromScheduler, arrivals, nodes, need, inits, learning, consumer, messages, draining, failed,
                   kept, edges, proxyRuns, piped>>

(* ProxyLambdaInvoker._background_send: the buffer is cut into a chunk for   *)
(* the proxy itself and one for each of its processes.                       *)
OwnShare(n) == (n + ProxyInvokers) \div (ProxyInvokers + 1)
Invoked(runs, ts) == [s \in ProxyTasks |-> IF s \in ts THEN runs[s] + 1 ELSE runs[s]]
BackgroundSend ==
    LET own == OwnShare(Len(buffered))
    IN  /\ buffered # <<>>
        /\ buffered' = <<>>
        /\ proxyRuns' = Invoked(proxyRuns, ToSet(SubSeq(buffered, 1, own)))
        /\ piped' = piped \cup ToSet(SubSeq(buffered, own + 1, Len(buffered)))
        /\ UNCHANGED <<fromScheduler, arrivals, nodes, need, inits, learning, consumer, messages, procs, draining,
                       failed, kept, edges>>

(* invoker_polling_process.                                                  *)
PollingProcess(s) ==
    /\ s \in piped
    /\ piped' = piped \ {s}
    /\ proxyRuns' = Invoked(proxyRuns, {s})
    /\ UNCHANGED <<fromScheduler, arrivals, nodes, need, inits, learning, consumer, messages, procs, draining,
                   failed, kept, edges, buffered>>
-----------------------------------------------------------------------------
(* handle_start: the processes that poll Redis, the invoker and the consumer *)
(* are made, and handle_comm reads what the Scheduler sends on this          *)
(* connection from now on.                                                   *)
HandleStart ==
    /\ fromScheduler = "none"
    /\ fromScheduler' = "open"
    /\ consumer' = "running"
    /\ UNCHANGED <<arrivals, nodes, need, inits, learning, messages, procs, draining, failed, proxyData>>

(* deserialize_and_process_message: the frames of a message, or a part.      *)
ReadsMessage(t) == t \in inbox /\ inbox' = inbox \ {t}

(* A stream that closes within a message ends handle_stream, and the message *)
(* is dropped.                                                               *)
StreamCloses(t) ==
    /\ ReadsMessage(t)
    /\ unread' = unread \cup {t}
    /\ UNCHANGED <<sent, due, channel, fromScheduler, nodes, need, inits, learning, consumer, messages,
                   procs, draining, failed, proxyData>>

(* handle_set, on a connection of its own: an unknown task waits.            *)
PostponeNot(t) == need  \* mistake: its message is dropped
Postpone(t) == Append(need, t)
HandleSet(t) ==
    /\ ReadsMessage(t)
    /\ IF t \in nodes THEN StartTask("stream", t) /\ UNCHANGED need
       ELSE need' = Postpone(t) /\ UNCHANGED procs
    /\ UNCHANGED <<unread, fromScheduler, sent, due, channel, nodes, inits, learning, consumer, messages, draining, failed, proxyData>>

(* consume_redis_queue takes messages (up to 50) and handles them in turn.   *)
TakeMessages ==
    /\ consumer = "running" /\ messages = <<>> /\ ~Active("consumer") /\ channel # <<>>
    /\ \E n \in 1..Len(channel) :
          messages' = SubSeq(channel, 1, n) /\ channel' = SubSeq(channel, n + 1, Len(channel))
    /\ UNCHANGED <<unread, fromScheduler, sent, due, inbox, nodes, need, inits, learning, consumer, procs, draining, failed, proxyData>>

ConsumeMessage ==
    /\ messages # <<>> /\ ~Active("consumer")
    /\ messages' = Tail(messages)
    /\ IF Head(messages) \in nodes THEN StartTask("consumer", Head(messages)) /\ UNCHANGED need
       ELSE need' = Postpone(Head(messages)) /\ UNCHANGED procs
    /\ UNCHANGED <<fromScheduler, arrivals, nodes, inits, learning, consumer, draining, failed, proxyData>>

(* handle_comm calls handle_graph_init: the nodes of the paths one by one (a *)
(* large one is deserialized in a thread), then the messages that wait.  One *)
(* of a graph that is not announced yet ends it with an exception, and they  *)
(* all stay.                                                                 *)
GraphInit ==
    /\ fromScheduler = "open" /\ draining = 0 /\ learning = {} /\ inits < Len(ProxyGraphs)
    /\ inits' = inits + 1
    /\ learning' = ProxyGraphs[inits + 1]
    /\ UNCHANGED <<fromScheduler, arrivals, nodes, need, consumer, messages, procs, draining, failed, proxyData>>

LearnNode(t) ==
    /\ t \in learning
    /\ nodes' = nodes \cup {t}
    /\ learning' = learning \ {t}
    /\ draining' = IF learning' = {} THEN 1 ELSE 0
    /\ UNCHANGED <<fromScheduler, arrivals, need, inits, consumer, messages, procs, failed, proxyData>>

NeedAfterDrainKept == need  \* mistake: the list is not cleared
NeedAfterDrain == <<>>
DrainStep ==
    /\ draining > 0 /\ ~Active("graph")
    /\ IF draining > Len(need)
       THEN draining' = 0 /\ need' = NeedAfterDrain /\ UNCHANGED <<fromScheduler, procs, failed>>
       ELSE IF need[draining] \in nodes
       THEN StartTask("graph", need[draining]) /\ draining' = draining + 1
            /\ UNCHANGED <<fromScheduler, need, failed>>
       ELSE draining' = 0 /\ failed' = TRUE /\ fromScheduler' = "ended" /\ UNCHANGED <<need, procs>>
    /\ UNCHANGED <<arrivals, nodes, inits, learning, consumer, messages, proxyData>>

ProxyNext ==
    \/ \E t \in Senders :
          (\E direct \in BOOLEAN : SendToProxy(t, direct)) 
              \/ CountBecome(t) \/ HandleSet(t) \/ StreamCloses(t)
    \/ \E p \in procs : StoreOutput(p) \/ CountNext(p) \/ InvokeReady(p) \/ ProcFails(p)
    \/ HandleStart \/ TakeMessages \/ ConsumeMessage \/ GraphInit \/ DrainStep
    \/ \E t \in learning : LearnNode(t)
    \/ BackgroundSend \/ \E s \in piped : PollingProcess(s)

ProxySpec == ProxyInit /\ [][ProxyNext]_proxyVars
-----------------------------------------------------------------------------
(* Whenever a message comes, before or while its graph is announced, each    *)
(* out-edge is counted once at most and no task is started twice, unless an  *)
(* exception left messages behind that were handled already.                 *)
ProxyCountsOnce ==
    ~failed => (\A e \in ProxyEdges : edges[e] <= 1) /\ (\A s \in ProxyTasks : proxyRuns[s] <= 1)

(* The proxy counts and invokes a task only when the output it got is in     *)
(* Redis.                                                                    *)
ProxyStoresFirst ==
    \A e \in ProxyEdges : edges[e] > 0 /\ e[2] # ProxyBecome[e[1]] => e[1] \in kept

(* No message that was read is left behind: when everything has come to      *)
(* rest, all out-edges are counted (those of a message unread with its       *)
(* connection are not), and the tasks whose counters are complete have been  *)
(* started.                                                                  *)
ProxyLeavesNothing ==
    (/\ ~failed /\ due = {} /\ channel = <<>> /\ inbox = {} /\ messages = <<>> /\ procs = {}
     /\ draining = 0 /\ learning = {} /\ inits = Len(ProxyGraphs) /\ buffered = <<>> /\ piped = {})
        => /\ \A e \in ProxyEdges : IF e[1] \in unread /\ e[2] # ProxyBecome[e[1]] THEN edges[e] = 0
                                     ELSE e[1] \in sent => edges[e] = 1
           /\ \A s \in ProxyTasks : CounterOf(edges, s) = ProxyNumDeps[s] /\ ProxyNumDeps[s] > 0
                                         => proxyRuns[s] = 1
=============================================================================
