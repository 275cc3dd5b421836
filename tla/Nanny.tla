------------------------------- MODULE Nanny --------------------------------
(* A Nanny keeps a worker process running: it starts, kills, restarts and    *)
(* closes it, while the process may stop, or never start, on its own.        *)
(* Every coroutine that waits for the process is interleaved with the        *)
(* others: the start, restarts, the reaction to an exit, kill and close.     *)
EXTENDS Naturals, FiniteSets

CONSTANTS MaxProcs,     \* bound: processes started
          MaxRestarts,  \* bound: calls of restart
          Reconnect     \* the Nanny's option: stay when the Scheduler is gone

Exits == 1..MaxProcs                      \* reactions to an exit, by process
StartCall == MaxProcs + 1
CloseCall == MaxProcs + 2
KillCall == MaxProcs + 3
Restarts == (MaxProcs + 4)..(MaxProcs + 3 + MaxRestarts)
Coroutines == 1..(MaxProcs + 3 + MaxRestarts)

VARIABLES nnStatus,     \* Nanny.status
          nnAuto,       \* Nanny.auto_restart
          nnProcess,    \* Nanny.process: a WorkerProcess, or 0
          nnWp,         \* WorkerProcess objects: status, process and queue of results
          nnProcs,      \* the processes
          nnCo          \* coroutines: where they are, and the objects they wait for

nnVars == <<nnStatus, nnAuto, nnProcess, nnWp, nnProcs, nnCo>>

NoWp == [status |-> "init", proc |-> 0, last |-> 0, queue |-> 0]
NoProc == [os |-> "none", seen |-> "none", told |-> FALSE, report |-> "none",
           called |-> "no", running |-> FALSE, stopped |-> FALSE]
Idle == [pc |-> "idle", wp |-> 0, proc |-> 0]

NannyInit ==
    /\ nnStatus = "init" /\ nnAuto = TRUE /\ nnProcess = 0
    /\ nnWp = [o \in 1..2 |-> NoWp]
    /\ nnProcs = [g \in 1..MaxProcs |-> NoProc]
    /\ nnCo = [c \in Coroutines |-> Idle]

Closing == nnStatus \in {"closing", "closed"}
Unused == {g \in DOMAIN nnProcs : nnProcs[g].os = "none"}
NextProc == CHOOSE g \in Unused : \A h \in Unused : g <= h
UnusedWp == {o \in DOMAIN nnWp : nnWp[o].last = 0}
At(c, pc) == nnCo[c].pc = pc
Result(o) == IF nnWp[o].status = "running" THEN "up" ELSE "down"   \* what start returns
Goes(c, pc) == [nnCo EXCEPT ![c].pc = pc]
-----------------------------------------------------------------------------
(* WorkerProcess.start: nothing to do for a process that runs, wait for one  *)
(* that is being started, otherwise a new process.                           *)
StartsNew(status) == status \notin {"running", "starting"}
StartWp(c, o, wp, procs) ==
    IF StartsNew(wp[o].status)
    THEN /\ Unused # {}
         /\ nnWp' = [wp EXCEPT ![o] = [status |-> "starting", proc |-> NextProc,
                                       last |-> NextProc, queue |-> NextProc]]
         /\ nnProcs' = [procs EXCEPT ![NextProc].os = "queued"]
         /\ nnCo' = [nnCo EXCEPT ![c] = [pc |-> "spawn", wp |-> o, proc |-> NextProc]]
    ELSE /\ UNCHANGED <<nnWp, nnProcs>>
         /\ nnCo' = [nnCo EXCEPT ![c] =
                [pc |-> IF wp[o].status = "running" THEN "up" ELSE "waitRunning",
                 wp |-> o, proc |-> wp[o].proc]]

(* instantiate: a WorkerProcess if there is none, and start it.              *)
Instantiate(c) ==
    /\ nnAuto' = TRUE
    /\ IF nnProcess = 0
       THEN \E o \in UnusedWp : /\ \A p \in UnusedWp : o <= p
                                /\ nnProcess' = o /\ StartWp(c, o, nnWp, nnProcs)
       ELSE nnProcess' = nnProcess /\ StartWp(c, nnProcess, nnWp, nnProcs)

(* WorkerProcess.kill, as part of a coroutine that goes on at "killed".      *)
KillWp(c, o) ==
    LET wp == nnWp[o]
    IN  CASE wp.status = "stopped"  -> nnCo' = Goes(c, "killed") /\ UNCHANGED <<nnWp, nnProcs>>
          [] wp.status = "stopping" -> /\ nnCo' = [nnCo EXCEPT ![c] = [pc |-> "waitStopped", wp |-> o, proc |-> wp.last]]
                                       /\ UNCHANGED <<nnWp, nnProcs>>
          [] OTHER -> /\ nnWp' = [nnWp EXCEPT ![o].status = "stopping"]
                      /\ nnProcs' = [nnProcs EXCEPT ![wp.proc].told = TRUE]
                      /\ nnCo' = [nnCo EXCEPT ![c] = [pc |-> "killing", wp |-> o, proc |-> wp.proc]]
(* Nanny.kill *)
Kill(c) ==
    /\ nnAuto' = FALSE
    /\ IF nnProcess = 0 THEN nnCo' = Goes(c, "killed") /\ UNCHANGED <<nnWp, nnProcs>>
       ELSE KillWp(c, nnProcess)
-----------------------------------------------------------------------------
(* Nanny._start *)
Start ==
    /\ At(StartCall, "idle") /\ nnStatus = "init"
    /\ Instantiate(StartCall) /\ UNCHANGED nnStatus

(* AsyncProcess: the thread that owns the process starts it,                 *)
Spawn(g) ==
    /\ nnProcs[g].os = "queued"
    /\ nnProcs' = [nnProcs EXCEPT ![g].os = "alive", ![g].seen = "alive"]
    /\ UNCHANGED <<nnStatus, nnAuto, nnProcess, nnWp, nnCo>>
(* and the coroutine goes on.                                                *)
Spawned(c) ==
    /\ At(c, "spawn") /\ nnProcs[nnCo[c].proc].seen # "none"
    /\ nnCo' = Goes(c, "poll")
    /\ UNCHANGED <<nnStatus, nnAuto, nnProcess, nnWp, nnProcs>>

(* _run, in the new process: the worker has started, or could not.           *)
ReportStart(g) ==
    /\ nnProcs[g].os = "alive" /\ nnProcs[g].report = "none"
    /\ \E r \in {"ok", "error"} : nnProcs' = [nnProcs EXCEPT ![g].report = r]
    /\ UNCHANGED <<nnStatus, nnAuto, nnProcess, nnWp, nnCo>>

(* _wait_until_connected: a look at the status, then at the queue the        *)
(* WorkerProcess has now; a message of another process is thrown away.       *)
Poll(c) ==
    LET o == nnCo[c].wp
        q == nnWp[o].queue
        g == nnCo[c].proc
    IN  /\ At(c, "poll")
        /\ IF nnWp[o].status # "starting"
           THEN nnCo' = Goes(c, Result(o)) /\ UNCHANGED <<nnWp, nnProcs>>
           ELSE /\ nnProcs[q].report \in {"ok", "error"}
                /\ CASE q # g -> /\ nnProcs' = [nnProcs EXCEPT ![q].report = "taken"]
                                 /\ UNCHANGED <<nnWp, nnCo>>
                     [] q = g /\ nnProcs[q].report = "error" ->
                            /\ nnProcs' = [nnProcs EXCEPT ![q].report = "taken"]
                            /\ nnCo' = Goes(c, "join") /\ UNCHANGED nnWp
                     [] OTHER -> /\ nnProcs' = [nnProcs EXCEPT ![q].report = "taken", ![q].running = TRUE]
                                 /\ nnWp' = [nnWp EXCEPT ![o].status = "running"]
                                 /\ nnCo' = Goes(c, "up")
        /\ UNCHANGED <<nnStatus, nnAuto, nnProcess>>

(* Another caller of start is woken when the process runs; the error of a    *)
(* process that could not start is raised when it has exited.                *)
Woken(c) ==
    /\ \/ At(c, "waitRunning") /\ nnProcs[nnCo[c].proc].running /\ nnCo' = Goes(c, "up")
       \/ At(c, "join") /\ nnProcs[nnCo[c].proc].called = "done" /\ nnCo' = Goes(c, "raised")
       \/ At(c, "waitStopped") /\ nnProcs[nnCo[c].proc].stopped /\ nnCo' = Goes(c, "killed")
    /\ UNCHANGED <<nnStatus, nnAuto, nnProcess, nnWp, nnProcs>>

(* kill waits until the process is not alive, as far as is known, or the     *)
(* deadline has passed: then it is terminated.                               *)
Killed(c) ==
    /\ At(c, "killing") /\ nnCo' = Goes(c, "killed")
    /\ IF nnProcs[nnCo[c].proc].seen = "alive"
       THEN nnProcs' = [nnProcs EXCEPT ![nnCo[c].proc].os = IF @ = "alive" THEN "dead" ELSE @]
       ELSE UNCHANGED nnProcs
    /\ UNCHANGED <<nnStatus, nnAuto, nnProcess, nnWp>>

(* The process ends, on its own, told to, or terminated by memory_monitor.   *)
Exit(g) ==
    /\ nnProcs[g].os = "alive"
    /\ nnProcs' = [nnProcs EXCEPT ![g].os = "dead"]
    /\ UNCHANGED <<nnStatus, nnAuto, nnProcess, nnWp, nnCo>>
(* _watch_process: the thread that joins it sees it, and calls the loop back.*)
WatchProcess(g) ==
    /\ nnProcs[g].os = "dead" /\ nnProcs[g].seen = "alive"
    /\ nnProcs' = [nnProcs EXCEPT ![g].seen = "exited", ![g].called = "pending"]
    /\ UNCHANGED <<nnStatus, nnAuto, nnProcess, nnWp, nnCo>>

(* _on_exit of AsyncProcess, of WorkerProcess with mark_stopped, and the     *)
(* beginning of that of the Nanny.                                           *)
IsCurrentAny(o, g) == nnWp[o].status # "stopped"  \* mistake: the exit of an older process is not told apart
IsCurrent(o, g) == nnWp[o].proc = g
OwnerOf(g) == CHOOSE o \in DOMAIN nnWp : g <= nnWp[o].last /\ \A p \in 1..(o - 1) : g > nnWp[p].last
ReactsRunning(o) == ~Closing /\ nnWp[o].status = "running"  \* mistake: a process that has not come up is forgotten
Reacts(o) == ~Closing
OnExit(g) ==
    LET o == OwnerOf(g)
    IN  /\ nnProcs[g].called = "pending"
        /\ IF IsCurrent(o, g) /\ nnWp[o].status # "stopped"
           THEN /\ nnWp' = [nnWp EXCEPT ![o].status = "stopped", ![o].proc = 0, ![o].queue = 0]
                /\ nnProcs' = [nnProcs EXCEPT ![g].called = "done", ![nnWp[o].last].stopped = TRUE]
                /\ nnCo' = IF Reacts(o) THEN Goes(g, "unregister") ELSE nnCo
           ELSE /\ nnProcs' = [nnProcs EXCEPT ![g].called = "done"]
                /\ UNCHANGED <<nnWp, nnCo>>
        /\ UNCHANGED <<nnStatus, nnAuto, nnProcess>>

(* The rest of Nanny._on_exit, when the Scheduler has answered or is gone.   *)
Unregistered(g) ==
    /\ At(g, "unregister")
    /\ IF ~Closing /\ nnAuto THEN Instantiate(g)
       ELSE nnCo' = Goes(g, "done") /\ UNCHANGED <<nnAuto, nnProcess, nnWp, nnProcs>>
    /\ UNCHANGED nnStatus
-----------------------------------------------------------------------------
(* restart: kill, then instantiate.  The time-out only answers the caller.   *)
Restart(r) ==
    /\ At(r, "idle") /\ ~Closing /\ nnProcess # 0
    /\ Kill(r) /\ UNCHANGED <<nnStatus, nnProcess>>
RestartOn(r) ==
    /\ At(r, "killed") /\ Instantiate(r) /\ UNCHANGED nnStatus

(* The kill call.                                                            *)
KillRequest ==
    /\ At(KillCall, "idle") /\ ~Closing
    /\ Kill(KillCall) /\ UNCHANGED <<nnStatus, nnProcess>>

(* close: by a call, when the start fails or takes too long, or when the     *)
(* Scheduler is gone after an exit.                                          *)
CloseFor(c) ==
    \/ c = CloseCall /\ At(c, "idle")
    \/ c = StartCall /\ At(c, "down")
    \/ c \in Exits /\ At(c, "unregister") /\ ~Reconnect
Close(c) ==
    /\ CloseFor(c) /\ nnStatus # "closing"
    /\ IF nnStatus = "closed"
       THEN nnCo' = Goes(c, "done") /\ UNCHANGED <<nnStatus, nnAuto, nnWp, nnProcs>>
       ELSE nnStatus' = "closing" /\ Kill(c)
    /\ UNCHANGED nnProcess
Closes(c) ==
    /\ c \notin Restarts \cup {KillCall} /\ At(c, "killed")
    /\ nnProcess' = 0 /\ nnStatus' = "closed" /\ nnCo' = Goes(c, "done")
    /\ UNCHANGED <<nnAuto, nnWp, nnProcs>>

(* _start goes on with a process that runs, if there still is one.           *)
Started ==
    /\ At(StartCall, "up")
    /\ IF nnProcess # 0 THEN nnStatus' = "running" /\ nnCo' = Goes(StartCall, "done")
       ELSE nnCo' = Goes(StartCall, "raised") /\ UNCHANGED nnStatus
    /\ UNCHANGED <<nnAuto, nnProcess, nnWp, nnProcs>>

(* A coroutine goes on at once when it has what it waited for: an event, the *)
(* result of instantiate, or a process that has been killed.                 *)
GoesOn ==
    \/ \E c \in Coroutines : \/ At(c, "waitStopped") /\ nnProcs[nnCo[c].proc].stopped
                             \/ At(c, "waitRunning") /\ nnProcs[nnCo[c].proc].running
    \/ At(StartCall, "up")
    \/ At(StartCall, "down") /\ nnStatus # "closing"
    \/ \E c \in Coroutines \ {KillCall} : At(c, "killed")
NannyNext ==
    IF GoesOn
    THEN \/ Started \/ Close(StartCall)
         \/ \E c \in Coroutines : Woken(c) \/ Closes(c)
         \/ \E r \in Restarts : RestartOn(r)
    ELSE \/ Start \/ KillRequest
         \/ \E g \in DOMAIN nnProcs : \/ Spawn(g) \/ ReportStart(g) \/ Exit(g) \/ WatchProcess(g)
                                      \/ OnExit(g) \/ Unregistered(g)
         \/ \E c \in Coroutines : Spawned(c) \/ Poll(c) \/ Woken(c) \/ Killed(c) \/ Close(c)
         \/ \E r \in Restarts : Restart(r)
-----------------------------------------------------------------------------
(* A worker process the Nanny has lost track of, replaced by another one or  *)
(* left at close, has been told to stop; but not the one of a restart that   *)
(* goes on while the Nanny closes.                                           *)
NoStrayWorker ==
    \A g \in DOMAIN nnProcs :
        nnProcs[g].os \in {"queued", "alive"} =>
            \/ nnProcs[g].told
            \/ nnProcess # 0 /\ nnWp[nnProcess].proc = g
            \/ Closing /\ \E r \in Restarts : nnCo[r].proc = g

(* While it has not been told to kill or close, a Nanny whose worker is gone *)
(* is about to start another, even if the worker never came up.              *)
WillRestart ==
    nnProcess # 0 /\ ~Closing /\ nnAuto /\ nnWp[nnProcess].status = "stopped" =>
        \E c \in Exits : At(c, "unregister")
=============================================================================
