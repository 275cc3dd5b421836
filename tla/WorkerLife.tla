----------------------------- MODULE WorkerLife -----------------------------
(* The life of a Worker beside its tasks (module Worker): it registers with  *)
(* the Scheduler, beats, reconnects and closes; it serves its data to peers; *)
(* and it stops computing while its memory is full.                          *)
EXTENDS Naturals, FiniteSets

CONSTANTS Reconnects,   \* reconnect: a broken stream is made again
          MaxRegs,      \* bound: registrations
          InConnections,\* total_in_connections, for peers of other hosts
          LifeCores,    \* ncores
          MaxArrivals   \* bound: tasks, and requests for data

VARIABLES wlStatus,     \* status
          wlRegs,       \* the _register_with_scheduler coroutines, by number
          wlBeatOn,     \* the periodic heartbeat callback is started
          wlBeating,    \* heartbeat_active, and the registration it made (0: none)
          wlStream,     \* batched_stream: the registration that made it, 0: none
          wlHandlers,   \* the streams handle_scheduler reads
          wlClosing,    \* close(): where it is
          wlRefused,    \* a registration ended with an exception
          wlOutgoing, wlUploads,                 \* outgoing_current_count; uploads under way
          wlPaused, wlMonitoring, wlReady, wlExecuting, wlArrived

registry == <<wlStatus, wlRegs, wlBeatOn, wlBeating, wlStream, wlHandlers, wlClosing, wlRefused>>
serving == <<wlOutgoing, wlUploads>>
computing == <<wlPaused, wlMonitoring, wlReady, wlExecuting, wlArrived>>
wlVars == <<registry, serving, computing>>
RegIds == 1..MaxRegs

WlInit ==
    /\ wlStatus = "none" /\ wlRegs = [r \in RegIds |-> "unused"] /\ wlBeatOn = FALSE
    /\ wlBeating = [active |-> FALSE, reg |-> 0] /\ wlStream = 0 /\ wlHandlers = {}
    /\ wlClosing = "no" /\ wlRefused = FALSE
    /\ wlOutgoing = 0 /\ wlUploads = {} /\ wlPaused = FALSE /\ wlMonitoring = FALSE
    /\ wlReady = 0 /\ wlExecuting = 0 /\ wlArrived = 0
-----------------------------------------------------------------------------
Unstarted == {r \in RegIds : wlRegs[r] = "unused"}
NextReg == CHOOSE r \in Unstarted : \A q \in Unstarted : r <= q
(* _register_with_scheduler begins by stopping the heartbeat.                *)
Register == Unstarted # {} /\ wlRegs' = [wlRegs EXCEPT ![NextReg] = "loop"] /\ wlBeatOn' = FALSE

(* _start *)
StartWorker ==
    /\ wlStatus = "none" /\ wlRegs[1] = "unused" /\ Register
    /\ UNCHANGED <<wlStatus, wlBeating, wlStream, wlHandlers, wlClosing, wlRefused, serving, computing>>

(* A heartbeat's coroutine ends with the registration it made.               *)
BeatEnds(r) == IF wlBeating.reg = r THEN [active |-> FALSE, reg |-> 0] ELSE wlBeating
(* The loop: not any more when the worker closes; to connect or to read the  *)
(* answer may fail, and is done again.                                       *)
RegLoop(r) ==
    /\ wlRegs[r] = "loop"
    /\ IF wlStatus \in {"closing", "closed"}
       THEN wlRegs' = [wlRegs EXCEPT ![r] = "ended"] /\ wlBeating' = BeatEnds(r)
       ELSE wlRegs' = [wlRegs EXCEPT ![r] = "asked"] /\ UNCHANGED wlBeating
    /\ UNCHANGED <<wlStatus, wlBeatOn, wlStream, wlHandlers, wlClosing, wlRefused, serving, computing>>
RegFails(r) ==
    /\ wlRegs[r] = "asked" /\ wlRegs' = [wlRegs EXCEPT ![r] = "loop"]
    /\ UNCHANGED <<wlStatus, wlBeatOn, wlBeating, wlStream, wlHandlers, wlClosing, wlRefused, serving, computing>>
(* After death_timeout the worker closes itself.                             *)
RegDies(r) ==
    /\ wlRegs[r] = "loop" /\ wlStatus \in {"none", "running"} /\ wlClosing \in {"no", "done"}
    /\ wlRegs' = [wlRegs EXCEPT ![r] = "ended"] /\ wlBeating' = BeatEnds(r)
    /\ wlStatus' = "closing" /\ wlClosing' = "begun"
    /\ UNCHANGED <<wlBeatOn, wlStream, wlHandlers, wlRefused, serving, computing>>
(* An answer: the worker runs, whatever has happened meanwhile; one that is  *)
(* not OK ends the coroutine.                                                *)
RegAnswered(r, ok) ==
    /\ wlRegs[r] = "asked" /\ wlRegs' = [wlRegs EXCEPT ![r] = "ended"] /\ wlStatus' = "running"
    /\ wlBeating' = BeatEnds(r)
    /\ IF ok THEN /\ wlStream' = r /\ wlBeatOn' = TRUE /\ wlHandlers' = wlHandlers \cup {r}
                  /\ UNCHANGED wlRefused
       ELSE wlRefused' = TRUE /\ UNCHANGED <<wlStream, wlBeatOn, wlHandlers>>
    /\ UNCHANGED <<wlClosing, serving, computing>>

(* heartbeat: one at a time; a Scheduler that does not know the worker makes *)
(* it register again.                                                        *)
Heartbeat ==
    /\ wlBeatOn /\ ~wlBeating.active /\ wlBeating' = [active |-> TRUE, reg |-> 0]
    /\ UNCHANGED <<wlStatus, wlRegs, wlBeatOn, wlStream, wlHandlers, wlClosing, wlRefused, serving, computing>>
HeartbeatAnswered(missing) ==
    /\ wlBeating = [active |-> TRUE, reg |-> 0]
    /\ IF missing THEN Register /\ wlBeating' = [active |-> TRUE, reg |-> NextReg]
       ELSE wlBeating' = [active |-> FALSE, reg |-> 0] /\ UNCHANGED <<wlRegs, wlBeatOn>>
    /\ UNCHANGED <<wlStatus, wlStream, wlHandlers, wlClosing, wlRefused, serving, computing>>

(* handle_scheduler: the stream has broken or is closed.                     *)
Forgets == UNCHANGED <<wlStatus, wlRegs, wlBeatOn, wlClosing>>  \* mistake: nothing is done about it
AfterStream ==
    IF Reconnects THEN Register /\ UNCHANGED <<wlStatus, wlClosing>>
    ELSE /\ wlStatus' = IF wlStatus \in {"closing", "closed"} THEN wlStatus ELSE "closing"
         /\ wlClosing' = IF wlStatus \in {"closing", "closed"} THEN wlClosing ELSE "begun"
         /\ UNCHANGED <<wlRegs, wlBeatOn>>
StreamEnds(s) ==
    /\ s \in wlHandlers /\ wlHandlers' = wlHandlers \ {s} /\ AfterStream
    /\ UNCHANGED <<wlBeating, wlStream, wlRefused, serving, computing>>

(* close: the callbacks are stopped; the Scheduler is told; the rest is shut.*)
CloseWorker ==
    /\ wlStatus \in {"none", "running"} /\ wlRegs[1] # "unused" /\ wlClosing \in {"no", "done"}
    /\ wlStatus' = "closing" /\ wlClosing' = "begun"
    /\ UNCHANGED <<wlRegs, wlBeatOn, wlBeating, wlStream, wlHandlers, wlRefused, serving, computing>>
CloseStop ==
    /\ wlClosing = "begun" /\ wlClosing' = "stopped" /\ wlBeatOn' = FALSE
    /\ UNCHANGED <<wlStatus, wlRegs, wlBeating, wlStream, wlHandlers, wlRefused, serving, computing>>
CloseFinish ==
    /\ wlClosing = "stopped" /\ wlClosing' = "done" /\ wlStatus' = "closed"
    /\ UNCHANGED <<wlRegs, wlBeatOn, wlBeating, wlStream, wlHandlers, wlRefused, serving, computing>>
-----------------------------------------------------------------------------
(* get_data: a peer of the same host may have twice as many connections.     *)
MaxFor(sameHost) == IF sameHost THEN 2 * InConnections ELSE InConnections
Uploads == 1..MaxArrivals
GetData(u, sameHost) ==
    /\ u \notin wlUploads /\ wlOutgoing <= MaxFor(sameHost)
    /\ wlOutgoing' = wlOutgoing + 1 /\ wlUploads' = wlUploads \cup {u}
    /\ UNCHANGED <<registry, computing>>
(* The answer is written and acknowledged (get_data_from_worker), or not.    *)
CountedIfFailed(ok) == IF ok THEN wlOutgoing - 1 ELSE wlOutgoing  \* mistake: a failed upload still counts
CountAfter(ok) == wlOutgoing - 1
UploadEnds(u, ok) ==
    /\ u \in wlUploads /\ wlUploads' = wlUploads \ {u} /\ wlOutgoing' = CountAfter(ok)
    /\ UNCHANGED <<registry, computing>>
-----------------------------------------------------------------------------
(* ensure_computing, when ready tasks are waiting.                           *)
EnsureComputingLife(ready, executing, paused) ==
    LET room == IF paused THEN 0 ELSE LifeCores - executing
        n == IF ready < room THEN ready ELSE room
    IN  wlReady' = ready - n /\ wlExecuting' = executing + n
TaskArrives ==
    /\ wlArrived < MaxArrivals /\ wlArrived' = wlArrived + 1
    /\ EnsureComputingLife(wlReady + 1, wlExecuting, wlPaused)
    /\ UNCHANGED <<registry, serving, wlPaused, wlMonitoring>>
TaskDone ==
    /\ wlExecuting > 0 /\ EnsureComputingLife(wlReady, wlExecuting - 1, wlPaused)
    /\ UNCHANGED <<registry, serving, wlPaused, wlMonitoring, wlArrived>>

(* memory_monitor: pause, resume and, beyond a lower limit, move data to     *)
(* disk, which takes a while: meanwhile the monitor is not entered again.    *)
ResumeOnly == UNCHANGED <<wlReady, wlExecuting>>  \* mistake: nobody starts the tasks that waited
Resume == EnsureComputingLife(wlReady, wlExecuting, FALSE)
MemoryMonitor(memory) ==
    /\ ~wlMonitoring /\ wlPaused' = (memory = "full") /\ wlMonitoring' = (memory # "low")
    /\ IF wlPaused /\ memory # "full" THEN Resume ELSE UNCHANGED <<wlReady, wlExecuting>>
    /\ UNCHANGED <<registry, serving, wlArrived>>
Evicted ==
    /\ wlMonitoring /\ wlMonitoring' = FALSE
    /\ UNCHANGED <<registry, serving, wlPaused, wlReady, wlExecuting, wlArrived>>

WlNext ==
    \/ StartWorker \/ CloseWorker \/ CloseStop \/ CloseFinish
    \/ \E r \in RegIds : RegLoop(r) \/ RegFails(r) \/ RegDies(r) \/ (\E ok \in BOOLEAN : RegAnswered(r, ok)) \/ StreamEnds(r)
    \/ Heartbeat \/ \E missing \in BOOLEAN : HeartbeatAnswered(missing)
    \/ \E u \in Uploads, b \in BOOLEAN : GetData(u, b) \/ UploadEnds(u, b)
    \/ TaskArrives \/ TaskDone \/ Evicted
    \/ \E memory \in {"low", "high", "full"} : MemoryMonitor(memory)
-----------------------------------------------------------------------------
(* A worker that runs and is not registering reads the stream it sends on,   *)
(* and beats; unless the Scheduler has refused it or it is closing.          *)
RunningIsHeard ==
    wlStatus = "running" /\ ~wlRefused /\ wlClosing = "no" /\ (\A r \in RegIds : wlRegs[r] \in {"unused", "ended"})
        => wlStream \in wlHandlers /\ wlBeatOn

(* However uploads end, a worker without any accepts the next request.       *)
UploadsAreCounted == wlOutgoing = Cardinality(wlUploads)

(* No ready task waits beside an idle core unless the memory is full: the    *)
(* monitor wakes up what it has put to sleep.                                *)
ReadyTasksRun == ~wlPaused /\ wlReady > 0 => wlExecuting = LifeCores
=============================================================================
