----------------------------- MODULE ThreadPool -----------------------------
(* The worker's pool of threads: a task may secede, which makes room for     *)
(* another thread, and rejoin, which replaces a thread that is done with its *)
(* task.  The set of threads is changed under three different locks.         *)
EXTENDS Naturals, Sequences, FiniteSets

CONSTANTS MaxWorkers,   \* _max_workers
          MaxThreads,   \* bound: threads ever started
          MaxSubmits    \* bound: tasks submitted

VARIABLES tpThreads,    \* executor._threads
          tpAt,         \* where each thread is
          tpProceed,    \* thread_state.proceed
          tpWork,       \* _work_queue: "task", "nothing" (rejoin's), "none" (shutdown's)
          tpRejoin,     \* _rejoin_list
          tpShutdown,   \* _shutdown
          tpLocks,      \* who is in the middle of submit, and of secede or shutdown
          tpStarted, tpSubmits

tpVars == <<tpThreads, tpAt, tpProceed, tpWork, tpRejoin, tpShutdown, tpLocks, tpStarted, tpSubmits>>
TpIds == 1..MaxThreads
Loop == 0       \* the thread of the worker's loop
Free == MaxThreads + 1

TpInit ==
    /\ tpThreads = {} /\ tpAt = [t \in TpIds |-> "unused"] /\ tpProceed = [t \in TpIds |-> TRUE]
    /\ tpWork = <<>> /\ tpRejoin = <<>> /\ tpShutdown = FALSE
    /\ tpLocks = [shutdown |-> Free, threads |-> Free] /\ tpStarted = 0 /\ tpSubmits = 0
-----------------------------------------------------------------------------
(* _adjust_thread_count, in two steps: the number is compared first ...      *)
RoomForMore(n) == n <= MaxWorkers  \* mistake: off by one
Room(n) == n < MaxWorkers
(* ... and the thread is added and started then.                             *)
StartThread ==
    /\ tpStarted < MaxThreads /\ tpStarted' = tpStarted + 1
    /\ tpThreads' = tpThreads \cup {tpStarted'}

(* submit, by the loop or by a thread that rejoins: _shutdown_lock is held.  *)
Submit(who, item) ==
    /\ tpLocks.shutdown = Free /\ tpWork' = Append(tpWork, item)
    /\ tpLocks' = [tpLocks EXCEPT !.shutdown = IF Room(Cardinality(tpThreads)) THEN who ELSE Free]
ExecutorSubmit ==
    /\ tpSubmits < MaxSubmits /\ tpSubmits' = tpSubmits + 1 /\ ~tpShutdown /\ Submit(Loop, "task")
    /\ UNCHANGED <<tpThreads, tpAt, tpProceed, tpRejoin, tpShutdown, tpStarted>>
SubmitEnd ==
    /\ tpLocks.shutdown # Free /\ StartThread
    /\ tpAt' = [tpAt EXCEPT ![tpStarted'] = "top"] /\ tpLocks' = [tpLocks EXCEPT !.shutdown = Free]
    /\ UNCHANGED <<tpProceed, tpWork, tpRejoin, tpShutdown, tpSubmits>>
-----------------------------------------------------------------------------
TpGoes(t, from, to) == tpAt[t] = from /\ tpAt' = [tpAt EXCEPT ![t] = to]

(* _worker: before it looks for work a thread lets one that rejoins take its *)
(* place, the last that asked.                                               *)
DropsAll(list) == <<>>  \* mistake: one is woken, the others are forgotten
Popped(list) == SubSeq(list, 1, Len(list) - 1)
Top(t) ==
    /\ tpAt[t] = "top"
    /\ IF tpProceed[t] /\ tpRejoin # <<>>
       THEN LET r == tpRejoin[Len(tpRejoin)]
            IN  /\ tpRejoin' = Popped(tpRejoin)
                /\ tpThreads' = (tpThreads \cup {r}) \ {t}
                /\ tpAt' = [tpAt EXCEPT ![t] = "ended",
                                ![r] = CASE @ = "rejoining" -> "rejoined" [] @ = "asked" -> "event set" [] OTHER -> @]
       ELSE /\ tpAt' = [tpAt EXCEPT ![t] = IF tpProceed[t] THEN "get" ELSE "ended"]
            /\ UNCHANGED <<tpRejoin, tpThreads>>
    /\ UNCHANGED <<tpProceed, tpWork, tpShutdown, tpLocks, tpStarted, tpSubmits>>
(* The next item; after a second without any the thread looks again.         *)
GetWork(t) ==
    /\ tpAt[t] = "get"
    /\ IF tpWork = <<>> THEN tpAt' = [tpAt EXCEPT ![t] = "top"] /\ UNCHANGED tpWork
       ELSE CASE Head(tpWork) = "task" -> tpAt' = [tpAt EXCEPT ![t] = "run"] /\ tpWork' = Tail(tpWork)
              [] Head(tpWork) = "nothing" -> tpAt' = [tpAt EXCEPT ![t] = "top"] /\ tpWork' = Tail(tpWork)
              [] Head(tpWork) = "none" ->
                   tpAt' = [tpAt EXCEPT ![t] = "ended"] /\ tpWork' = Append(Tail(tpWork), "none")
    /\ UNCHANGED <<tpThreads, tpProceed, tpRejoin, tpShutdown, tpLocks, tpStarted, tpSubmits>>
FinishTask(t) ==
    /\ TpGoes(t, "run", "top")
    /\ UNCHANGED <<tpThreads, tpProceed, tpWork, tpRejoin, tpShutdown, tpLocks, tpStarted, tpSubmits>>

(* secede, with threads_lock taken.                                          *)
NotReplaced(t) == tpLocks  \* mistake: nobody takes the place
Replaced(t) == IF Room(Cardinality(tpThreads \ {t})) THEN [tpLocks EXCEPT !.threads = t] ELSE tpLocks
PoolSecede(t) ==
    /\ tpAt[t] = "run" /\ t \in tpThreads /\ tpLocks.threads = Free
    /\ tpProceed' = [tpProceed EXCEPT ![t] = FALSE] /\ tpThreads' = tpThreads \ {t}
    /\ tpLocks' = Replaced(t)
    /\ tpAt' = [tpAt EXCEPT ![t] = IF tpLocks'.threads = t THEN "seceding" ELSE "seceded"]
    /\ UNCHANGED <<tpWork, tpRejoin, tpShutdown, tpStarted, tpSubmits>>
SecedeEnd(t) ==
    /\ tpAt[t] = "seceding" /\ StartThread
    /\ tpAt' = [tpAt EXCEPT ![t] = "seceded", ![tpStarted'] = "top"]
    /\ tpLocks' = [tpLocks EXCEPT !.threads = Free]
    /\ UNCHANGED <<tpProceed, tpWork, tpRejoin, tpShutdown, tpSubmits>>
(* A task that has seceded ends with its thread, or rejoins: it asks, and    *)
(* wakes a thread with an empty task; submit raises after the shutdown.      *)
EndSeceded(t) ==
    /\ TpGoes(t, "seceded", "top")
    /\ UNCHANGED <<tpThreads, tpProceed, tpWork, tpRejoin, tpShutdown, tpLocks, tpStarted, tpSubmits>>
RejoinAsk(t) ==
    /\ TpGoes(t, "seceded", "asked") /\ tpRejoin' = Append(tpRejoin, t)
    /\ UNCHANGED <<tpThreads, tpProceed, tpWork, tpShutdown, tpLocks, tpStarted, tpSubmits>>
RejoinSubmit(t) ==
    /\ tpAt[t] \in {"asked", "event set"} /\ tpLocks.shutdown = Free
    /\ IF tpShutdown THEN tpAt' = [tpAt EXCEPT ![t] = "top"] /\ UNCHANGED <<tpWork, tpLocks>>
       ELSE /\ Submit(t, "nothing")
            /\ tpAt' = [tpAt EXCEPT ![t] = IF @ = "asked" THEN "rejoining" ELSE "rejoined"]
    /\ UNCHANGED <<tpThreads, tpProceed, tpRejoin, tpShutdown, tpStarted, tpSubmits>>
Rejoined(t) ==
    /\ TpGoes(t, "rejoined", "run") /\ tpProceed' = [tpProceed EXCEPT ![t] = TRUE]
    /\ UNCHANGED <<tpThreads, tpWork, tpRejoin, tpShutdown, tpLocks, tpStarted, tpSubmits>>

(* Worker.close: the queue is cleared, then shutdown; joining the threads    *)
(* takes at most the time-out, with threads_lock held.                       *)
Shutdown ==
    /\ ~tpShutdown /\ tpLocks = [shutdown |-> Free, threads |-> Free]
    /\ tpShutdown' = TRUE /\ tpWork' = <<"none">> /\ tpLocks' = [tpLocks EXCEPT !.threads = Loop]
    /\ UNCHANGED <<tpThreads, tpAt, tpProceed, tpRejoin, tpStarted, tpSubmits>>
ShutdownEnd ==
    /\ tpLocks.threads = Loop /\ tpLocks' = [tpLocks EXCEPT !.threads = Free]
    /\ UNCHANGED <<tpThreads, tpAt, tpProceed, tpWork, tpRejoin, tpShutdown, tpStarted, tpSubmits>>

TpNext ==
    \/ ExecutorSubmit \/ SubmitEnd \/ Shutdown \/ ShutdownEnd
    \/ \E t \in TpIds : \/ Top(t) \/ GetWork(t) \/ FinishTask(t) \/ PoolSecede(t) \/ SecedeEnd(t)
                        \/ EndSeceded(t) \/ RejoinAsk(t) \/ RejoinSubmit(t) \/ Rejoined(t)
-----------------------------------------------------------------------------
(* A thread of the pool that is alive, or one about to be started.           *)
PoolAlive ==
    \/ \E t \in tpThreads : tpAt[t] \in {"top", "get", "run", "event set", "rejoined"}
    \/ tpLocks.shutdown # Free \/ tpLocks.threads # Free

(* Until the shutdown somebody takes the tasks that wait, whoever secedes.   *)
WorkIsTaken == ~tpShutdown /\ tpWork # <<>> => PoolAlive

(* Until the shutdown every thread that rejoins is waited for by a thread.   *)
RejoinersAreServed ==
    \A t \in TpIds : ~tpShutdown /\ tpAt[t] = "rejoining" =>
        PoolAlive /\ \E i \in DOMAIN tpRejoin : tpRejoin[i] = t

(* There is at most one thread more than the maximum, if a secede and a      *)
(* submit have both found room for one.                                      *)
AtMostOneMore == Cardinality(tpThreads) <= MaxWorkers + 1
=============================================================================
