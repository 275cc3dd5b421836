----------------------------- MODULE ClientLife -----------------------------
(* The life of one client: it connects, loses its connection, reconnects and *)
(* closes, while its users' messages pass through the callbacks of the event *)
(* loop, and wait in a buffer while there is no connection.                  *)
(*                                                                           *)
(* The LoopRunners of one event loop (a cluster's and its clients'), and the *)
(* threads that wait in sync for a coroutine in that loop.                   *)
EXTENDS Naturals, Sequences, FiniteSets, SequencesExt, Integers

CONSTANTS MaxSends,    \* bound: the users' messages
          MaxBreaks    \* bound: connections that break or are refused

VARIABLES clStatus,    \* self.status
          clLoop,      \* the messages in callbacks of the event loop
          clBuffer,    \* self._pending_msg_buffer
          clBuffered,  \* the messages that have been in it
          clComm,      \* self.scheduler_comm: "none", "open" or "broken"
          clBatch,     \* what it has been handed and the Scheduler has not received
          clConnect,   \* where _ensure_connected is
          clReader,    \* where _handle_report is
          clClose,     \* where _close is
          clArrived,   \* what the Scheduler has received
          clDropped,   \* messages that nobody keeps
          clLost,      \* messages lost with their connection
          clSends,     \* messages sent
          clBreaks     \* connections broken so far

clVars == <<clStatus, clLoop, clBuffer, clBuffered, clComm, clConnect, clReader, clClose,
            clBatch, clArrived, clDropped, clLost, clSends, clBreaks>>
waitingMessages == <<clLoop, clBuffer, clBuffered, clDropped, clSends>>
messages == <<waitingMessages, clBatch, clArrived, clLost>>

(* start *)
ClInit ==
    /\ clStatus = "connecting" /\ clComm = "none" /\ clConnect = "opening"
    /\ clReader = "none" /\ clClose = "no"
    /\ clLoop = <<>> /\ clBuffer = <<>> /\ clBuffered = {}
    /\ clBatch = <<>> /\ clArrived = <<>> /\ clDropped = {} /\ clLost = {}
    /\ clSends = 0 /\ clBreaks = 0
-----------------------------------------------------------------------------
(* _send_to_scheduler, by any thread.                                        *)
ToLoopNow(n) ==  \* mistake: sends at once when it can
    IF clStatus = "running" /\ clComm = "open" THEN clLoop' = clLoop /\ clBatch' = Append(clBatch, n)
    ELSE clLoop' = Append(clLoop, n) /\ clBatch' = clBatch
ToLoop(n) == clLoop' = Append(clLoop, n) /\ clBatch' = clBatch

ClSend ==
    /\ clSends < MaxSends
    /\ clStatus \in {"running", "closing", "connecting"}
    /\ clSends' = clSends + 1
    /\ ToLoop(clSends + 1)
    /\ UNCHANGED <<clStatus, clBuffer, clBuffered, clComm, clConnect, clReader, clClose,
                   clArrived, clDropped, clLost, clBreaks>>

(* _send_to_scheduler_safe, a callback of the event loop: the BatchedSend    *)
(* takes the message as long as the connection is not known to be closed.    *)
SendSafe ==
    /\ clLoop # <<>> /\ clLoop' = Tail(clLoop)
    /\ LET n == Head(clLoop)
       IN  \/ /\ clStatus \in {"running", "closing"} /\ clComm = "open"
              /\ clBatch' = Append(clBatch, n)
              /\ UNCHANGED <<clBuffer, clBuffered, clDropped>>
           \/ /\ clStatus = "connecting"
              /\ clBuffer' = Append(clBuffer, n) /\ clBuffered' = clBuffered \cup {n}
              /\ UNCHANGED <<clBatch, clDropped>>
           \/ /\ clStatus # "connecting" /\ (clStatus = "closed" \/ clComm # "open")
              /\ clDropped' = clDropped \cup {n}
              /\ UNCHANGED <<clBatch, clBuffer, clBuffered>>
    /\ UNCHANGED <<clStatus, clComm, clConnect, clReader, clClose, clArrived, clLost, clSends, clBreaks>>

(* Up to 10 ms later _background_send writes the batch, and the Scheduler    *)
(* receives its first messages.                                              *)
Arrives ==
    /\ clComm = "open" /\ clBatch # <<>>
    /\ clArrived' = Append(clArrived, Head(clBatch)) /\ clBatch' = Tail(clBatch)
    /\ UNCHANGED <<clStatus, clComm, clConnect, clReader, clClose, clLost, clBreaks, waitingMessages>>
-----------------------------------------------------------------------------
(* _ensure_connected: the connection is open and the client registers.       *)
Opened ==
    /\ clConnect = "opening" /\ clConnect' = "registering"
    /\ UNCHANGED <<clStatus, clComm, clReader, clClose, clBreaks, messages>>

(* The rest of it, and of _start or _reconnect, once stream-start has come;  *)
(* the status may have changed meanwhile.                                    *)
ResendNot == clLoop  \* mistake: the buffer is only emptied
Resend == clLoop \o clBuffer
ReadsOnce(reader) == IF reader = "none" THEN "reading" ELSE "ended"  \* mistake: no continue
ReadsAgain(reader) == "reading"
Registered ==
    /\ clConnect = "registering" /\ clConnect' = "none"
    /\ clComm' = "open" /\ clStatus' = "running"
    /\ clLoop' = Resend /\ clBuffer' = <<>>
    /\ clReader' = ReadsAgain(clReader)
    /\ UNCHANGED <<clClose, clBuffered, clBatch, clArrived, clDropped, clLost, clSends, clBreaks>>

(* An EnvironmentError: _reconnect tries again while there is time and the   *)
(* status is still "connecting", else it closes the client; _start raises.   *)
ReconnectFails ==
    /\ clConnect \in {"opening", "registering"}
    /\ clBreaks < MaxBreaks /\ clBreaks' = clBreaks + 1
    /\ \/ /\ clReader = "none" /\ clConnect' = "failed"
          /\ UNCHANGED <<clStatus, clReader, clClose>>
       \/ /\ clReader = "reconnecting" /\ clStatus = "connecting" /\ clConnect' = "opening"
          /\ UNCHANGED <<clStatus, clReader, clClose>>
       \/ /\ clReader = "reconnecting"
          /\ clConnect' = "none" /\ clReader' = "ended"
          /\ clStatus' = "closing" /\ clClose' = IF clClose = "done" THEN "again" ELSE "waiting"
    /\ UNCHANGED <<clComm, messages>>

(* A TimeoutError is not an EnvironmentError: the coroutine that called      *)
(* _ensure_connected ends.                                                   *)
ReconnectTimesOut ==
    /\ clConnect = "registering"
    /\ clBreaks < MaxBreaks /\ clBreaks' = clBreaks + 1
    /\ clConnect' = "failed"
    /\ clReader' = IF clReader = "none" THEN "none" ELSE "ended"
    /\ UNCHANGED <<clStatus, clComm, clClose, messages>>

(* The connection breaks, and what the BatchedSend has not delivered is lost *)
(* with it: nobody is told.                                                  *)
Breaks ==
    /\ clComm = "open" /\ clBreaks < MaxBreaks
    /\ clComm' = "broken" /\ clBreaks' = clBreaks + 1
    /\ clLost' = clLost \cup ToSet(clBatch) /\ clBatch' = <<>>
    /\ UNCHANGED <<clStatus, clConnect, clReader, clClose, clArrived, waitingMessages>>

(* _handle_report meets the end of the stream; _reconnect.                   *)
ReadsEnd ==
    /\ clReader = "reading" /\ clComm = "broken"
    /\ IF clStatus = "running"
       THEN /\ clStatus' = "connecting" /\ clComm' = "none"
            /\ clReader' = "reconnecting" /\ clConnect' = "opening"
       ELSE /\ clReader' = "ended" /\ UNCHANGED <<clStatus, clComm, clConnect>>
    /\ UNCHANGED <<clClose, clBreaks, messages>>
-----------------------------------------------------------------------------
(* close, in the user's thread: the rest runs in the event loop.             *)
CloseAsked ==
    /\ clClose = "no" /\ clConnect # "failed"
    /\ clStatus' = "closing" /\ clClose' = "asked"
    /\ UNCHANGED <<clComm, clConnect, clReader, clBreaks, messages>>

(* _close: say good-bye, and wait a moment for the answer; then close the    *)
(* BatchedSend, which writes what it has.                                    *)
CloseBegins ==
    /\ clClose = "asked" /\ clClose' = "waiting"
    /\ clStatus' = "closing"
    /\ clLoop' = IF clComm = "open" THEN Append(clLoop, 0) ELSE clLoop
    /\ UNCHANGED <<clComm, clConnect, clReader, clBreaks,
                   clBuffer, clBuffered, clBatch, clArrived, clDropped, clLost, clSends>>

CloseFlushesNot == clArrived  \* mistake: the comm is closed without a last write
CloseFlushes == clArrived \o clBatch
CloseEnds ==
    /\ clClose \in {"waiting", "again"} /\ ~Contains(clLoop, 0)
    /\ clClose' = "done" /\ clStatus' = "closed"
    /\ clComm' = IF clComm = "open" THEN "broken" ELSE clComm
    /\ clArrived' = CloseFlushes /\ clBatch' = <<>>
    /\ UNCHANGED <<clConnect, clReader, clBreaks, clLost, waitingMessages>>

ClNext ==
    \/ ClSend \/ SendSafe \/ Arrives
    \/ Opened \/ Registered \/ ReconnectFails \/ ReconnectTimesOut \/ Breaks \/ ReadsEnd
    \/ CloseAsked \/ CloseBegins \/ CloseEnds
-----------------------------------------------------------------------------
Occurs(s, n) == Len(SelectSeq(s, LAMBDA k : k = n))

(* A message is never sent twice: it has arrived, or is kept in one place,   *)
(* or was handed to a connection that broke before the Scheduler had it      *)
(* (nobody notices, and nothing sends it again), or there was no connection  *)
(* left to send it on.  A client whose connections last loses no message it  *)
(* has handed over, not even when it is closed; and one that nobody closes   *)
(* drops none.                                                               *)
MessagesKept ==
    /\ \A n \in 1..clSends :
          Occurs(clArrived \o clLoop \o clBuffer \o clBatch, n)
              + Cardinality({i \in 1..2 : n \in <<clDropped, clLost>>[i]}) = 1
    /\ clBreaks = 0 => clLost = {}
    /\ clBreaks = 0 /\ clClose = "no" => clDropped = {}

(* Messages arrive in the order they were sent, but for those that had to    *)
(* wait in the buffer: _ensure_connected puts them behind the callbacks that *)
(* are already in the event loop.                                            *)
OvertakesBuffered ==
    \A i, j \in DOMAIN clArrived :
        i < j /\ clArrived[j] < clArrived[i] /\ clArrived[j] # 0 => clArrived[j] \in clBuffered

(* A client that says it is running has a coroutine that reads its stream,   *)
(* so the loss of the connection is noticed.                                 *)
RunningIsRead == clStatus = "running" => clReader = "reading"
-----------------------------------------------------------------------------
CONSTANTS LoopUsers,   \* the LoopRunner objects, made before the loop is closed
          Waiters,     \* threads that call sync
          NoRunner

VARIABLES lrCount,     \* the count of _all_loops; -1 once the entry is deleted
          lrReal,      \* the runner whose thread runs the loop
          lrStarted,   \* _started
          lrAsync,     \* the asynchronous runners
          lrLoop,      \* "idle", "running", "user" (the user runs it), "closed"
          lrSync       \* what each thread in sync waits for

lrVars == <<lrCount, lrReal, lrStarted, lrAsync, lrLoop, lrSync>>

(* An asynchronous runner belongs to a loop that the user runs.              *)
LoopInit ==
    /\ lrCount = 0 /\ lrReal = NoRunner /\ lrStarted = {}
    /\ lrLoop \in {"idle", "user"}
    /\ lrAsync \in SUBSET LoopUsers /\ (lrLoop = "idle" => lrAsync = {})
    /\ lrSync = [w \in Waiters |-> "no"]
-----------------------------------------------------------------------------
(* _start_unlocked: the first runner runs the loop in a new thread, unless   *)
(* it runs already.                                                          *)
StartLoop(r) ==
    /\ r \notin lrStarted /\ lrCount >= 0
    /\ lrStarted' = lrStarted \cup {r} /\ lrCount' = lrCount + 1
    /\ IF r \in lrAsync \/ lrReal # NoRunner \/ lrCount > 0 \/ lrLoop = "user"
       THEN UNCHANGED <<lrReal, lrLoop>>
       ELSE lrReal' = r /\ lrLoop' = "running"
    /\ UNCHANGED <<lrAsync, lrSync>>

(* _stop_unlocked and _real_stop: the last runner stops and closes the loop, *)
(* whoever runs it.                                                          *)
IsLastReal(r) == r = lrReal \/ lrCount = 1  \* mistake: the one that started it stops it
IsLast(r) == lrCount = 1
StopLoop(r) ==
    /\ r \in lrStarted
    /\ lrStarted' = lrStarted \ {r}
    /\ IF IsLast(r)
       THEN /\ lrCount' = -1
            /\ lrLoop' = IF lrReal # NoRunner THEN "closed" ELSE lrLoop
       ELSE lrCount' = lrCount - 1 /\ UNCHANGED lrLoop
    /\ UNCHANGED <<lrReal, lrAsync, lrSync>>
-----------------------------------------------------------------------------
(* sync: refused by a closed loop; else the coroutine is handed to the loop, *)
(* and the thread waits for its end or, with a time-out, no longer than that.*)
CallSync(w) ==
    /\ lrSync[w] = "no" /\ lrStarted # {}
    /\ lrSync' = [lrSync EXCEPT ![w] = IF lrLoop = "closed" THEN "refused" ELSE "waiting"]
    /\ UNCHANGED <<lrCount, lrReal, lrStarted, lrAsync, lrLoop>>
SyncEnds(w) ==
    /\ lrSync[w] = "waiting" /\ lrLoop \in {"running", "user"}
    /\ lrSync' = [lrSync EXCEPT ![w] = "no"]
    /\ UNCHANGED <<lrCount, lrReal, lrStarted, lrAsync, lrLoop>>
SyncTimesOut(w) ==
    /\ lrSync[w] = "waiting"
    /\ lrSync' = [lrSync EXCEPT ![w] = "no"]
    /\ UNCHANGED <<lrCount, lrReal, lrStarted, lrAsync, lrLoop>>

LoopNext ==
    \/ \E r \in LoopUsers : StartLoop(r) \/ StopLoop(r)
    \/ \E w \in Waiters : CallSync(w) \/ SyncEnds(w) \/ SyncTimesOut(w)
-----------------------------------------------------------------------------
(* A loop shared by several runners runs until the last of them stops, in    *)
(* whatever order they start and stop, so that no thread that uses one of    *)
(* them is refused by sync.                                                  *)
StartedLoopRuns ==
    /\ lrStarted # {} => lrLoop \in {"running", "user"}
    /\ \A w \in Waiters : lrSync[w] # "refused"
=============================================================================
