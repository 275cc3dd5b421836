---------------------------- MODULE MCProcesses -----------------------------
(* Small instances of the Worker, of what it runs in and of what starts it.  *)
(* The components do not share state, so each behaviour takes the steps of   *)
(* one of them: focus.  What each property says, and under which conditions, *)
(* is stated with its conjuncts in the components' modules.                  *)
EXTENDS Worker, WorkerLife, Nanny, ThreadPool, WorkDirs, Deploy

VARIABLE focus

(* Two tasks that depend on the same one.                                    *)
SharedDependency == [x |-> {}, u |-> {"x"}, t |-> {"x"}]

processVars == <<workerVars, wlVars, nnVars, tpVars, wdVars, dpVars, focus>>

(* A component out of focus rests in one of its initial states.              *)
ProcessesInit ==
    /\ focus \in {"worker", "life", "nanny", "pool", "dirs", "deploy"}
    /\ WorkerInit
    /\ WlInit
    /\ NannyInit
    /\ TpInit
    /\ WdInit
    /\ DpInit /\ (focus # "deploy" => dpRegisters)

ProcessesNext ==
    \/ /\ focus = "worker" /\ WorkerNext
       /\ UNCHANGED <<wlVars, nnVars, tpVars, wdVars, dpVars, focus>>
    \/ /\ focus = "life" /\ WlNext
       /\ UNCHANGED <<workerVars, nnVars, tpVars, wdVars, dpVars, focus>>
    \/ /\ focus = "nanny" /\ NannyNext
       /\ UNCHANGED <<workerVars, wlVars, tpVars, wdVars, dpVars, focus>>
    \/ /\ focus = "pool" /\ TpNext
       /\ UNCHANGED <<workerVars, wlVars, nnVars, wdVars, dpVars, focus>>
    \/ /\ focus = "dirs" /\ WdNext
       /\ UNCHANGED <<workerVars, wlVars, nnVars, tpVars, dpVars, focus>>
    \/ /\ focus = "deploy" /\ DpNext
       /\ UNCHANGED <<workerVars, wlVars, nnVars, tpVars, wdVars, focus>>

ProcessesSpec == ProcessesInit /\ [][ProcessesNext]_processVars
-----------------------------------------------------------------------------
(* Whatever the Scheduler asks, in whatever order, and whichever peers do    *)
(* not have the data, the states of tasks and dependencies fit what the      *)
(* Worker holds, a task that waits is served, no request is forgotten, and   *)
(* resources are returned.                                                   *)
WorkerConsistent ==
    focus = "worker" =>
        TaskStatesValid /\ DepStatesValid /\ WaitingIsServed /\ NoRequestForgotten /\ ResourceBalanced

(* A Worker that runs is heard by the Scheduler or reconnects; connections   *)
(* that upload data are counted; a task that is ready is run when memory     *)
(* allows it again; tasks that secede and rejoin leave its thread pool with  *)
(* threads for its work, and with one thread too many at most.               *)
WorkerServes ==
    /\ focus = "life" => RunningIsHeard /\ UploadsAreCounted /\ ReadyTasksRun
    /\ focus = "pool" => WorkIsTaken /\ RejoinersAreServed /\ AtMostOneMore

(* However starts, kills, exits and close of a Nanny interleave, no process  *)
(* is left that nobody watches, and a process that died is replaced.         *)
NannyWatches == focus = "nanny" => NoStrayWorker /\ WillRestart

(* Of processes that crash at any point and share a directory, nobody        *)
(* removes what another still uses, and what is left is found.               *)
DirsPurged == focus = "dirs" => LiveDirsKept /\ LeftDirsFound

(* Scaling by users and by Adaptive, with workers that fail to start, ends   *)
(* with the workers of the specification; Adaptive retires a worker only     *)
(* after it was asked to several times in a row.                             *)
ClusterAsSpecified == focus = "deploy" => SpecIsMet /\ RetiredOnlyInARow
=============================================================================
