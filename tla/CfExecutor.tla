----------------------------- MODULE CfExecutor -----------------------------
(* ClientExecutor: the interface of concurrent.futures over the futures of a *)
(* client.  Threads of the user submit, cancel, iterate and shut down; in    *)
(* the event loop one _cascade_future per submitted task waits for the       *)
(* client's future and hands its outcome to the cf_future.  The tasks have   *)
(* different keys.  set_result and set_exception are those of Python 2.7 to  *)
(* 3.7, which setup.py names: they overwrite a cancellation.                 *)
EXTENDS Naturals, Sequences, SequencesExt

CONSTANTS CfSubmits,     \* the calls of submit
          CfMapped,      \* the futures of the one call of map, in order
          MaxCfReports   \* bound: the Scheduler's reports and reads that find nothing

VARIABLES cfDask,      \* the client's futures: their status ("none": not made yet)
          cfRefs,      \* those the client knows: client.futures
          cfState,     \* the cf_futures: their state
          cfCascade,   \* submit and _cascade_future: where each is
          cfKnown,     \* executor._futures
          cfCancels,   \* calls of client.cancel under way: whose and for which futures
          cfIter,      \* the iterator of map: how far, and what it does
          cfShut,      \* shutdown: where it is, what it still waits for
          cfEver,      \* the statuses each future has had
          cfUnsure,    \* futures that were lost or whose output was missing
          cfReports

cfHistory == <<cfEver, cfUnsure, cfReports>>
cfVars == <<cfDask, cfRefs, cfState, cfCascade, cfKnown, cfCancels, cfIter, cfShut, cfHistory>>

CfAll == CfSubmits \cup ToSet(CfMapped)
CfEnd == {"finished", "error", "cancelled"}  \* the event of the future is set
Got == {"value", "exception", "CancelledError"}  \* what _result returned
CfAnswered == {"RESULT", "EXCEPTION", "WRONG", "NOTIFIED"}

CfInit ==
    /\ cfDask = [s \in CfAll |-> "none"] /\ cfRefs = {} /\ cfKnown = {} /\ cfCancels = {}
    /\ cfState = [s \in CfSubmits |-> "none"] /\ cfCascade = [s \in CfSubmits |-> "none"]
    /\ cfIter = [n |-> 0, at |-> "none"]
    /\ cfShut = [at |-> "open", wait |-> TRUE, left |-> {}, owed |-> {}]
    /\ cfEver = [s \in CfAll |-> {}] /\ cfUnsure = {} /\ cfReports = 0
-----------------------------------------------------------------------------
(* The client's futures *)

(* An event that is set wakes the coroutines that wait for it.               *)
CfWoken(at) == CASE at = "wait" -> "woken" [] at = "gather" -> "gathered" [] OTHER -> at
BecomeDask(keys, status) ==
    /\ cfDask' = [s \in CfAll |-> IF s \in keys THEN status ELSE cfDask[s]]
    /\ cfEver' = [s \in CfAll |-> IF s \in keys THEN cfEver[s] \cup {status} ELSE cfEver[s]]
Wake(keys) ==
    cfCascade' = [s \in CfSubmits |-> IF s \in keys THEN CfWoken(cfCascade[s]) ELSE cfCascade[s]]

(* A report of the Scheduler about a key the client still knows.  A task     *)
(* that has finished may be lost, and be reported again after report-key,    *)
(* but it does not fail.                                                     *)
CfReport(s, status) ==
    /\ cfReports < MaxCfReports /\ cfReports' = cfReports + 1
    /\ s \in cfRefs
    /\ IF status = "lost" THEN cfDask[s] = "finished"
       ELSE /\ cfDask[s] \in {"pending", "lost"} \/ (cfDask[s] = "finished" /\ status = "cancelled")
            /\ status = "error" => "finished" \notin cfEver[s]
    /\ BecomeDask({s}, status)
    /\ IF status = "lost" THEN cfUnsure' = cfUnsure \cup {s} /\ UNCHANGED cfCascade
       ELSE Wake({s}) /\ UNCHANGED cfUnsure
    /\ UNCHANGED <<cfRefs, cfState, cfKnown, cfCancels, cfIter, cfShut>>

(* Client._cancel after the Scheduler's answer; a shutdown that waits for it *)
(* returns.                                                                  *)
CancelDone(call) ==
    /\ cfCancels' = cfCancels \ {call}
    /\ cfRefs' = cfRefs \ call.keys
    /\ BecomeDask(call.keys \cap cfRefs, "cancelled") /\ Wake(call.keys \cap cfRefs)
    /\ cfShut' = IF call.by = "shutdown" THEN [cfShut EXCEPT !.at = "returned"] ELSE cfShut
    /\ UNCHANGED <<cfState, cfKnown, cfIter, cfUnsure, cfReports>>
-----------------------------------------------------------------------------
(* submit: another thread may call shutdown after the check.                 *)
SubmitCheck(s) ==
    /\ cfCascade[s] = "none" /\ cfShut.at = "open"
    /\ cfCascade' = [cfCascade EXCEPT ![s] = "checked"]
    /\ UNCHANGED <<cfDask, cfRefs, cfState, cfKnown, cfCancels, cfIter, cfShut, cfHistory>>
NoteNothing(s) == cfKnown  \* mistake: only map's futures are noted
NoteSubmitted(s) == cfKnown \cup {s}
SubmitTask(s) ==
    /\ cfCascade[s] = "checked" /\ cfCascade' = [cfCascade EXCEPT ![s] = "begin"]
    /\ cfDask' = [cfDask EXCEPT ![s] = "pending"] /\ cfRefs' = cfRefs \cup {s}
    /\ cfState' = [cfState EXCEPT ![s] = "PENDING"]
    /\ cfKnown' = NoteSubmitted(s)
    /\ UNCHANGED <<cfCancels, cfIter, cfShut, cfHistory>>

(* cf_future.cancel() and cf_callback.                                       *)
CancelCf(s) ==
    /\ cfState[s] = "PENDING" /\ cfState' = [cfState EXCEPT ![s] = "CANCELLED"]
    /\ cfCancels' = IF cfDask[s] = "cancelled" THEN cfCancels
                    ELSE cfCancels \cup {[by |-> "cf_callback", keys |-> {s}]}
    /\ UNCHANGED <<cfDask, cfRefs, cfCascade, cfKnown, cfIter, cfShut, cfHistory>>
-----------------------------------------------------------------------------
(* _cascade_future *)

CascadeTo(s, at) == cfCascade' = [cfCascade EXCEPT ![s] = at]

(* _gather in _result: the exception of a future that failed or is gone by   *)
(* now ends the coroutine.  Otherwise the output is read, from Redis at      *)
(* once or with the help of the Scheduler.                                   *)
Gather(s) ==
    IF s \notin cfRefs \/ cfDask[s] \in {"error", "cancelled"} THEN CascadeTo(s, "died")
    ELSE \E at \in {"value", "fargate"} : CascadeTo(s, at)
GatherResult(s) ==
    IF s \in cfRefs /\ cfDask[s] \notin CfEnd THEN CascadeTo(s, "gather") ELSE Gather(s)

(* Future._result                                                            *)
AwaitResult(s) ==
    /\ \/ cfCascade[s] = "begin" /\ cfDask[s] \notin CfEnd /\ CascadeTo(s, "wait")
       \/ /\ cfCascade[s] = "woken" \/ (cfCascade[s] = "begin" /\ cfDask[s] \in CfEnd)
          /\ CASE cfDask[s] = "error" -> CascadeTo(s, "exception")
               [] cfDask[s] = "cancelled" -> CascadeTo(s, "CancelledError")
               [] OTHER -> GatherResult(s)
       \/ cfCascade[s] = "slept" /\ GatherResult(s)
       \/ cfCascade[s] = "gathered" /\ Gather(s)
       \/ cfCascade[s] = "fargate" /\ CascadeTo(s, "value")
    /\ UNCHANGED <<cfDask, cfRefs, cfState, cfKnown, cfCancels, cfIter, cfShut, cfHistory>>

(* The output is nowhere: the future is reset, and waited for once more.     *)
OutputMissing(s) ==
    /\ cfCascade[s] = "fargate" /\ CascadeTo(s, "slept")
    /\ cfReports < MaxCfReports /\ cfReports' = cfReports + 1
    /\ cfDask' = IF s \in cfRefs THEN [cfDask EXCEPT ![s] = "pending"] ELSE cfDask
    /\ cfUnsure' = cfUnsure \cup {s}
    /\ UNCHANGED <<cfRefs, cfState, cfKnown, cfCancels, cfIter, cfShut, cfEver>>

(* The outcome, by the status the future has now.                            *)
OutcomeUnnotified(status, got) ==  \* mistake: no set_running_or_notify_cancel
    CASE status = "cancelled" -> "CANCELLED"
      [] status = "finished" -> IF got = "value" THEN "RESULT" ELSE "WRONG"
      [] OTHER -> IF got = "exception" THEN "EXCEPTION" ELSE "WRONG"
Outcome(status, got) ==
    CASE status = "cancelled" -> "NOTIFIED"
      [] status = "finished" -> IF got = "value" THEN "RESULT" ELSE "WRONG"
      [] OTHER -> IF got = "exception" THEN "EXCEPTION" ELSE "WRONG"
Transmit(s) ==
    /\ cfCascade[s] \in Got /\ CascadeTo(s, "ended")
    /\ cfState' = [cfState EXCEPT ![s] = Outcome(cfDask[s], cfCascade[s])]
    /\ UNCHANGED <<cfDask, cfRefs, cfKnown, cfCancels, cfIter, cfShut, cfHistory>>
-----------------------------------------------------------------------------
(* map, which does not look at _shutdown, and result_iterator.               *)

iterOnly == <<cfState, cfCascade, cfShut, cfUnsure, cfReports>>
MapCall ==
    /\ cfIter.at = "none" /\ cfIter' = [n |-> 0, at |-> "new"]
    /\ cfDask' = [s \in CfAll |-> IF s \in ToSet(CfMapped) THEN "pending" ELSE cfDask[s]]
    /\ cfRefs' = cfRefs \cup ToSet(CfMapped)
    /\ UNCHANGED <<cfKnown, cfCancels, cfEver, iterOnly>>

IterNext ==
    /\ cfIter.at \in {"new", "paused"} /\ cfIter.n < Len(CfMapped)
    /\ cfIter' = [n |-> cfIter.n + 1, at |-> "waiting"]
    /\ cfKnown' = cfKnown \cup {CfMapped[cfIter.n + 1]}
    /\ UNCHANGED <<cfDask, cfRefs, cfCancels, cfEver, iterOnly>>
IterResult ==
    /\ cfIter.at = "waiting" /\ cfDask[CfMapped[cfIter.n]] = "finished"
    /\ cfIter' = [cfIter EXCEPT !.at = "paused"]
    /\ UNCHANGED <<cfDask, cfRefs, cfKnown, cfCancels, cfEver, iterOnly>>

(* The finally clause: after an exception, a time-out, the last result, or   *)
(* when the iterator is dropped.                                             *)
IterFinally ==
    /\ cfIter.at \in {"waiting", "paused"}
    /\ cfIter' = [cfIter EXCEPT !.at = "closed"]
    /\ cfKnown' = cfKnown \cup ToSet(CfMapped)
    /\ cfCancels' = cfCancels \cup {[by |-> "finally", keys |-> ToSet(CfMapped)]}
    /\ UNCHANGED <<cfDask, cfRefs, cfEver, iterOnly>>

(* Dropped before the first result is asked for: the futures are released    *)
(* with the list.                                                            *)
IterDropped ==
    /\ cfIter.at = "new" /\ cfIter' = [cfIter EXCEPT !.at = "closed"]
    /\ BecomeDask(ToSet(CfMapped), "cancelled") /\ cfRefs' = cfRefs \ ToSet(CfMapped)
    /\ UNCHANGED <<cfKnown, cfCancels, iterOnly>>
-----------------------------------------------------------------------------
(* shutdown; owed is auxiliary: the futures of submits that have returned    *)
(* and of the results the iterator was asked for.                            *)
ShutDown(wait) ==
    /\ cfShut.at = "open"
    /\ cfShut' = [at |-> IF wait THEN "waiting" ELSE "cancelling", wait |-> wait,
                  left |-> IF wait THEN cfKnown ELSE {},
                  owed |-> {s \in CfSubmits : cfState[s] # "none"}
                               \cup {CfMapped[i] : i \in 1..cfIter.n}]
    /\ cfCancels' = IF wait THEN cfCancels
                    ELSE cfCancels \cup {[by |-> "shutdown", keys |-> cfKnown]}
    /\ UNCHANGED <<cfDask, cfRefs, cfState, cfCascade, cfKnown, cfIter, cfHistory>>

(* _wait_on_futures: one after the other, whatever the outcome.              *)
WaitOnFuture(s) ==
    /\ cfShut.at = "waiting" /\ s \in cfShut.left /\ cfDask[s] \in CfEnd
    /\ cfShut' = [cfShut EXCEPT !.left = @ \ {s}]
    /\ UNCHANGED <<cfDask, cfRefs, cfState, cfCascade, cfKnown, cfCancels, cfIter, cfHistory>>
WaitedOnAll ==
    /\ cfShut.at = "waiting" /\ cfShut.left = {}
    /\ cfShut' = [cfShut EXCEPT !.at = "returned"]
    /\ UNCHANGED <<cfDask, cfRefs, cfState, cfCascade, cfKnown, cfCancels, cfIter, cfHistory>>

CfNext ==
    \/ \E s \in CfAll : WaitOnFuture(s) \/ \E status \in CfEnd \cup {"lost"} : CfReport(s, status)
    \/ \E s \in CfSubmits :
          \/ SubmitCheck(s) \/ SubmitTask(s) \/ CancelCf(s)
          \/ AwaitResult(s) \/ OutputMissing(s) \/ Transmit(s)
    \/ \E call \in cfCancels : CancelDone(call)
    \/ MapCall \/ IterNext \/ IterResult \/ IterFinally \/ IterDropped
    \/ \E wait \in BOOLEAN : ShutDown(wait)
    \/ WaitedOnAll

CfSpec == CfInit /\ [][CfNext]_cfVars
-----------------------------------------------------------------------------
(* Whatever races with it, a cascade that ends has answered the cf_future,   *)
(* so that wait() wakes up, with an outcome its task really had.  A          *)
(* cancellation that is not answered yet has reached the client, or is on    *)
(* its way.  Only after its output was lost or missing may a future end      *)
(* without an answer, or with an exception that is not its task's, because   *)
(* the value is taken for one.                                               *)
CascadeAgrees ==
    \A s \in CfSubmits :
        /\ cfCascade[s] = "ended" => cfState[s] \in CfAnswered
        /\ cfState[s] = "NOTIFIED" => "cancelled" \in cfEver[s]
        /\ cfState[s] = "RESULT" => "finished" \in cfEver[s]
        /\ cfState[s] = "EXCEPTION" => "error" \in cfEver[s]
        /\ cfState[s] = "WRONG" => s \in cfUnsure
        /\ cfState[s] = "CANCELLED" =>
              "cancelled" \in cfEver[s] \/ [by |-> "cf_callback", keys |-> {s}] \in cfCancels
        /\ cfCascade[s] = "died" => s \in cfUnsure

(* When shutdown has returned, the futures of every submit that had returned *)
(* and of every result map's iterator was asked for have been done, or are   *)
(* cancelled if it was not to wait.  The other futures of map are not noted  *)
(* yet, and not covered.                                                     *)
ShutdownHolds ==
    cfShut.at = "returned" =>
        \A s \in cfShut.owed :
            IF cfShut.wait THEN cfEver[s] \cap CfEnd # {} ELSE cfDask[s] = "cancelled"
=============================================================================
