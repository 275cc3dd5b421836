---------------------------- MODULE MCServices ----------------------------
(* Small instances of the services around the Task Executors and of what the *)
(* processes send and measure.  The components do not share state, so each   *)
(* behaviour takes the steps of one of them: focus.  What each property      *)
(* says, and under which conditions, is stated with its conjuncts in the     *)
(* components' modules.                                                      *)
EXTENDS StaticSchedule, BitCounter, KVProxy, FargateCluster, Serialization, Progress,
        Metrics, GraphPlot

VARIABLE focus

(* The DAGs in which a task depends on tasks before it only.                 *)
AllDags == {d \in [Nodes -> SUBSET Nodes] : \A t \in Nodes : \A s \in d[t] : s < t}

(* Two tasks with large fan-outs that share a become task, in one graph, and *)
(* a task in another.                                                        *)
TwoGraphs == <<{"a", "e", "b", "c", "d"}, {"f"}>>
FanOuts == [a |-> <<"c", "d">>, e |-> <<"c">>, f |-> <<>>]
FanOutBecome == [a |-> "b", e |-> "b", f |-> "none"]
FanOutNumDeps == [a |-> 0, e |-> 0, b |-> 2, c |-> 2, d |-> 1, f |-> 0]

TwoJobs == {{"a", "b"}, {"b", "c"}}
ChainOfTwo == [x1 |-> {}, x2 |-> {"x1"}]
OneGroup == [x1 |-> "x", x2 |-> "x"]
(* Two tasks, and two that depend on both and belong at the same place.      *)
TwoJoins == [k \in GrKeys |-> IF k \in {"a", "b"} THEN {} ELSE {"a", "b"}]
ThreeStacks == {<<"m", "f">>, <<"m", "g">>, <<"m", "f", "g">>}

serviceVars == <<scheduleVars, bitVars, proxyVars, fargateVars, frVars, vaVars, pgVars, pfVars, msVars,
                 grVars, focus>>

(* A component out of focus rests in one of its initial states.              *)
Components == {"schedule", "bits", "proxy", "fargate", "frames", "values", "progress", "profile",
               "diagnosis", "throttle", "monitor", "graph"}
ServicesInit ==
    /\ focus \in Components
    /\ ScheduleInit /\ (focus # "schedule" => deps = [t \in Nodes |-> {}] /\ NewTasks = Nodes)
    /\ BitInit /\ (focus # "bits" => size = 1)
    /\ ProxyInit
    /\ FargateInit /\ (focus # "fargate" => wished = 1)
    /\ FramesInit /\ VaInit
    /\ PgInit /\ (focus # "progress" => ~pgMulti /\ ~pgComplete)
    /\ PfInit /\ MsInit /\ GrInit

ServicesNext ==
    \/ /\ focus = "schedule" /\ ScheduleNext
       /\ UNCHANGED <<bitVars, proxyVars, fargateVars, frVars, vaVars, pgVars, pfVars, msVars, grVars,
                      focus>>
    \/ /\ focus = "bits" /\ BitNext
       /\ UNCHANGED <<scheduleVars, proxyVars, fargateVars, frVars, vaVars, pgVars, pfVars, msVars, grVars,
                      focus>>
    \/ /\ focus = "proxy" /\ ProxyNext
       /\ UNCHANGED <<scheduleVars, bitVars, fargateVars, frVars, vaVars, pgVars, pfVars, msVars, grVars,
                      focus>>
    \/ /\ focus = "fargate" /\ FargateNext
       /\ UNCHANGED <<scheduleVars, bitVars, proxyVars, frVars, vaVars, pgVars, pfVars, msVars, grVars,
                      focus>>
    \/ /\ focus = "frames" /\ FramesNext
       /\ UNCHANGED <<scheduleVars, bitVars, proxyVars, fargateVars, vaVars, pgVars, pfVars, msVars, grVars,
                      focus>>
    \/ /\ focus = "values" /\ VaNext
       /\ UNCHANGED <<scheduleVars, bitVars, proxyVars, fargateVars, frVars, pgVars, pfVars, msVars, grVars,
                      focus>>
    \/ /\ focus = "progress" /\ PgNext
       /\ UNCHANGED <<scheduleVars, bitVars, proxyVars, fargateVars, frVars, vaVars, pfVars, msVars, grVars,
                      focus>>
    \/ /\ focus = "profile" /\ PfNext
       /\ UNCHANGED <<scheduleVars, bitVars, proxyVars, fargateVars, frVars, vaVars, pgVars, msVars, grVars,
                      focus>>
    \/ /\ \/ focus = "diagnosis" /\ DiagnosisNext /\ UNCHANGED <<throttle, monitor>>
          \/ focus = "throttle" /\ ThrottleNext /\ UNCHANGED <<gcVars, monitor>>
          \/ focus = "monitor" /\ MonitorNext /\ UNCHANGED <<gcVars, throttle>>
       /\ UNCHANGED <<scheduleVars, bitVars, proxyVars, fargateVars, frVars, vaVars, pgVars, pfVars, grVars,
                      focus>>
    \/ /\ focus = "graph" /\ GraphNext
       /\ UNCHANGED <<scheduleVars, bitVars, proxyVars, fargateVars, frVars, vaVars, pgVars, pfVars, msVars,
                      focus>>

ServicesSpec == ServicesInit /\ [][ServicesNext]_serviceVars
-----------------------------------------------------------------------------
(* Whatever DAG update_graph is given and in whatever order it walks sets,   *)
(* every Executor finds the nodes of its path, every edge between new tasks  *)
(* is scheduled exactly once, paths end at the tasks nothing depends on, and *)
(* the counters are complete when the leaves are invoked.                    *)
ScheduleCovered ==
    focus = "schedule" => ExecutorsFindNodes /\ EdgesScheduledOnce /\ PathsEndAtRoots /\ CountersComplete

(* However the Executors of a task's dependencies interleave on its bit      *)
(* counter, nobody finds the task ready before all bits are set, one of them *)
(* does, and only one unless an answer of Redis was lost.                    *)
BitsDecide == focus = "bits" => BitsNotEarly /\ BitsClaimedOnce /\ BitsClaimed

(* Whenever the messages of Executors come, before, while or after the proxy *)
(* learns their graph, each fan-out is stored first, counted once and        *)
(* invoked once, and none is left behind.                                    *)
ProxyFansOut == focus = "proxy" => ProxyCountsOnce /\ ProxyStoresFirst /\ ProxyLeavesNothing

(* While Fargate nodes start, stop and change in number, the outputs of a    *)
(* task are written to the node it is mapped to, tasks are mapped to nodes   *)
(* that run, and no node is listed twice.                                    *)
FargateMapped == focus = "fargate" => OutputsWhereMapped /\ MappedToRunning /\ NodesListedOnce

(* What a process reads is what was sent: a value of any layout or nesting,  *)
(* however its frames were split, compressed and passed on, and no frame is  *)
(* longer than a shard.                                                      *)
MessagesSurvive ==
    /\ focus = "frames" => ValuesRoundTrip /\ FramesFitShard
    /\ focus = "values" => ReadsWhatWasSent

(* The progress bars end when what they wait for has ended and not before,   *)
(* the plugins agree with the Scheduler; a profile of any range of time      *)
(* counts the samples of its periods exactly once; the shares and samples    *)
(* reported are those measured; the drawn graph shows the tasks there are.   *)
DiagnosticsTrue ==
    /\ focus = "progress" => BarsTellTheTruth /\ PluginsAgree
    /\ focus = "profile" => RangeHasItsSamples /\ KeysAddUp /\ WholeProfile /\ PictureNested
    /\ focus = "diagnosis" => ShareIsExact
    /\ focus = "throttle" => GcIsThrottled
    /\ focus = "monitor" => EachSampleShown
    /\ focus = "graph" => PlotShowsTasks /\ LayoutFits
==============================================================================
