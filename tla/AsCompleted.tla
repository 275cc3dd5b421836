---------------------------- MODULE AsCompleted ----------------------------
(* Waiting for futures: the event of a FutureState, and as_completed, whose  *)
(* coroutines in the event loop put futures that are done into a queue for   *)
(* one reader, a thread or a coroutine.                                      *)
EXTENDS Naturals, Sequences, FiniteSets, SequencesExt

CONSTANTS AcFutures,    \* the Future objects
          MaxAdded,     \* bound: the calls of add
          MaxReports    \* bound: the Scheduler's reports and the reads that fail

VARIABLES acState,      \* the FutureState of each: its status and event, and whether it
                        \* has an exception, maybe an old one
          acTrackers,   \* the _track_future coroutines: whose, and where each is
          acCount,      \* self.futures
          acQueue,      \* self.queue
          acReturned,   \* what the reader got
          acReader,     \* what the reader does
          acMode,       \* with_results, and what reads
          acMissed,     \* futures not returned yet when the iterator last ended
          acReports     \* reports so far

acVars == <<acState, acTrackers, acCount, acQueue, acReturned, acReader, acMode, acMissed, acReports>>

AcInit ==
    /\ acState = [f \in AcFutures |-> [status |-> "pending", done |-> FALSE, exc |-> FALSE]]
    /\ acTrackers = <<>> /\ acCount = [f \in AcFutures |-> 0]
    /\ acQueue = <<>> /\ acReturned = <<>> /\ acReader = "idle"
    /\ acMode \in [results : BOOLEAN, by : {"thread", "coroutine"}]
    /\ acMissed = 0 /\ acReports = 0
-----------------------------------------------------------------------------
(* finish, cancel, set_error, lose, retry and reset of FutureState.          *)
Ops == {"finish", "cancel", "error", "lose", "retry"}
AfterOp(s, op) ==
    CASE op = "finish" -> [s EXCEPT !.status = "finished", !.done = TRUE]
      [] op = "cancel" -> [s EXCEPT !.status = "cancelled", !.done = TRUE]
      [] op = "error" -> [s EXCEPT !.status = "error", !.done = TRUE, !.exc = TRUE]
      [] op = "lose" -> [s EXCEPT !.status = "lost", !.done = FALSE]
      [] op \in {"retry", "reset"} -> [s EXCEPT !.status = "pending", !.done = FALSE]

(* An event that is set wakes those who wait, even if it is cleared before   *)
(* they go on.                                                               *)
AcWoken(at) ==
    CASE at = "wait" -> "waited"
      [] at = "result" -> "resulted"
      [] at = "gather" -> "gathered"
      [] OTHER -> at
AwaitAt(f, at) == IF acState[f].done THEN AcWoken(at) ELSE at

AcReport(f, op) ==
    /\ acReports < MaxReports
    /\ acReports' = acReports + 1
    /\ acState' = [acState EXCEPT ![f] = AfterOp(@, op)]
    /\ acTrackers' = [i \in DOMAIN acTrackers |->
           IF acTrackers[i].f = f /\ acState'[f].done
           THEN [acTrackers[i] EXCEPT !.at = AcWoken(@)] ELSE acTrackers[i]]
    /\ UNCHANGED <<acCount, acQueue, acReturned, acReader, acMode, acMissed>>

(* update, by any thread.                                                    *)
AcAdd(f) ==
    /\ Len(acTrackers) < MaxAdded
    /\ acCount' = [acCount EXCEPT ![f] = @ + 1]
    /\ acTrackers' = Append(acTrackers, [f |-> f, at |-> "added"])
    /\ UNCHANGED <<acState, acQueue, acReturned, acReader, acMode, acMissed, acReports>>
-----------------------------------------------------------------------------
(* _notify *)
NotifyThread == IF acReader = "asleep" /\ acMode.by = "thread" THEN "look" ELSE acReader  \* mistake: not the coroutine
Notify == IF acReader = "asleep" THEN "look" ELSE acReader

OneLess(n) == n - 1
Emit(i) ==
    LET f == acTrackers[i].f
    IN  /\ acCount' = [acCount EXCEPT ![f] = OneLess(@)]
        /\ acQueue' = Append(acQueue, f)
        /\ acTrackers' = [acTrackers EXCEPT ![i].at = "emitted"]
        /\ acReader' = Notify
        /\ UNCHANGED acState
MovesTo(i, at) ==
    /\ acTrackers' = [acTrackers EXCEPT ![i].at = at]
    /\ UNCHANGED <<acState, acCount, acQueue, acReader>>

(* _track_future: _wait; with results, Future._result as well.               *)
TrackFuture(i) ==
    LET f == acTrackers[i].f
    IN  /\ \/ acTrackers[i].at = "added" /\ MovesTo(i, AwaitAt(f, "wait"))
           \/ /\ acTrackers[i].at = "waited"
              /\ IF acMode.results THEN MovesTo(i, AwaitAt(f, "result")) ELSE Emit(i)
           \/ /\ acTrackers[i].at = "resulted"
              /\ IF acState[f].status \in {"error", "cancelled"} THEN Emit(i)
                 ELSE MovesTo(i, AwaitAt(f, "gather"))
        /\ UNCHANGED <<acReturned, acMode, acMissed, acReports>>

(* _gather of the one future.  The exception of a task that fails after      *)
(* _result has looked at the status ends the coroutine; a cancelled future   *)
(* raises an exception it has from before.                                   *)
GatherFuture(i) ==
    LET s == acState[acTrackers[i].f]
    IN  /\ acTrackers[i].at = "gathered"
        /\ \/ s.status \in {"error", "cancelled"} /\ s.exc /\ MovesTo(i, "died")
           \/ s.status = "cancelled" /\ ~s.exc /\ Emit(i)
           \/ s.status \notin {"error", "cancelled"} /\ Emit(i)
        /\ UNCHANGED <<acReturned, acMode, acMissed, acReports>>

(* _gather finds no output: the future is reset, and waited for once more.   *)
GatherMissing(i) ==
    LET f == acTrackers[i].f
    IN  /\ acTrackers[i].at = "gathered"
        /\ acState[f].status \notin {"error", "cancelled"}
        /\ acReports < MaxReports /\ acReports' = acReports + 1
        /\ acState' = [acState EXCEPT ![f] = AfterOp(@, "reset")]
        /\ acTrackers' = [acTrackers EXCEPT ![i].at = "gather"]
        /\ UNCHANGED <<acCount, acQueue, acReturned, acReader, acMode, acMissed>>
-----------------------------------------------------------------------------
(* count *)
ToReturnTracked == Cardinality({f \in AcFutures : acCount[f] > 0})  \* mistake: not those in the queue
ToReturn == Cardinality({f \in AcFutures : acCount[f] > 0}) + Len(acQueue)

readerOnly == <<acState, acTrackers, acCount, acMode, acReports>>
Unreturned == Len(acQueue) + Cardinality({i \in DOMAIN acTrackers : acTrackers[i].at # "emitted"})

AcCallNext ==
    /\ acReader \in {"idle", "stopped"} /\ acReader' = "look"
    /\ UNCHANGED <<acQueue, acReturned, acMissed, readerOnly>>

TakeFirst(then) ==
    /\ acQueue # <<>>
    /\ acReturned' = Append(acReturned, Head(acQueue)) /\ acQueue' = Tail(acQueue)
    /\ acReader' = then
    /\ UNCHANGED <<acMissed, readerOnly>>
Stop ==
    /\ acReader' = "stopped" /\ acMissed' = Unreturned
    /\ UNCHANGED <<acQueue, acReturned, readerOnly>>
ReaderMoves(at) == acReader' = at /\ UNCHANGED <<acQueue, acReturned, acMissed, readerOnly>>

(* __next__, and the rest of next_batch: queue.empty() and count() are two   *)
(* steps of the thread.                                                      *)
NextInThread ==
    /\ acMode.by = "thread"
    /\ \/ acReader = "look" /\ ReaderMoves(IF acQueue = <<>> THEN "empty" ELSE "get")
       \/ acReader = "empty" /\ (IF ToReturn = 0 THEN Stop ELSE ReaderMoves("asleep"))
       \/ acReader = "asleep" /\ ReaderMoves("look")  \* after 0.1 seconds
       \/ acReader = "get" /\ \E then \in {"idle", "drain"} : TakeFirst(then)
       \/ acReader = "drain" /\ TakeFirst("drain")
       \/ acReader = "drain" /\ acQueue = <<>> /\ ReaderMoves("idle")

(* __anext__: in the event loop, between two waits, it is alone.             *)
NextInLoop ==
    /\ acMode.by = "coroutine" /\ acReader = "look"
    /\ \/ TakeFirst("idle")
       \/ acQueue = <<>> /\ IF \A f \in AcFutures : acCount[f] = 0 THEN Stop ELSE ReaderMoves("asleep")

AcNext ==
    \/ \E f \in AcFutures : AcAdd(f) \/ \E op \in Ops : AcReport(f, op)
    \/ \E i \in DOMAIN acTrackers : TrackFuture(i) \/ GatherFuture(i) \/ GatherMissing(i)
    \/ AcCallNext \/ NextInThread \/ NextInLoop
-----------------------------------------------------------------------------
(* The iterator ends only when every future added has been returned, however *)
(* the coroutines and the reader's two looks interleave.                     *)
StopsWhenAllReturned == acMissed = 0

(* self.futures counts the coroutines that have not put their future into    *)
(* the queue, for a future that is added again while it is tracked too.      *)
CountsTrackers ==
    \A f \in AcFutures :
        acCount[f] = Cardinality({i \in DOMAIN acTrackers : acTrackers[i].f = f /\ acTrackers[i].at # "emitted"})

(* A coroutine that sleeps in the iterator is not left there: nothing is in  *)
(* the queue, and a coroutine that would wake it has not ended.              *)
ReaderIsWoken ==
    acReader = "asleep" /\ acMode.by = "coroutine" =>
        acQueue = <<>> /\ \E i \in DOMAIN acTrackers : acTrackers[i].at # "emitted"
=============================================================================
