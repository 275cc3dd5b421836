----------------------------- MODULE TaskStates -----------------------------
(* The Scheduler's task states and its transition functions, which map the   *)
(* states t of all tasks to new ones, with recommendations for transitions   *)
(* of other tasks and the messages to report to clients.                     *)
EXTENDS Naturals, Sequences

CONSTANTS Keys,     \* the keys of tasks
          Clients   \* the clients, without the fire-and-forget one

FireAndForget == "fire-and-forget"

States == {"unknown", "released", "waiting", "processing", "memory", "erred"}

(* A TaskState; one that is not in self.tasks is "unknown".  blame stands    *)
(* for exception_blame not being None.                                       *)
Task == [state : States, spec : BOOLEAN, deps : SUBSET Keys, dependents : SUBSET Keys,
         waitingOn : SUBSET Keys, waiters : SUBSET Keys,
         wants : SUBSET (Clients \cup {FireAndForget}), blame : BOOLEAN, lost : BOOLEAN]
NoTask == [state |-> "unknown", spec |-> FALSE, deps |-> {}, dependents |-> {},
           waitingOn |-> {}, waiters |-> {}, wants |-> {}, blame |-> FALSE, lost |-> FALSE]
NewTask(spec) == [NoTask EXCEPT !.state = "released", !.spec = spec]

Unneeded(t, k) == t[k].waiters = {} /\ t[k].wants = {}

(* Recommendations: a dictionary from keys to the states to go to.           *)
Recs(keys, finish) == [k \in keys |-> finish]
Update(old, new) ==
    [k \in DOMAIN old \cup DOMAIN new |-> IF k \in DOMAIN new THEN new[k] ELSE old[k]]

(* report: the clients interested in a key get the message.  Reports are     *)
(* sequences of messages, one for each client.                               *)
Message(op, k) == [op |-> op, key |-> k]
Silence == [c \in Clients |-> <<>>]
Tell(clients, op, k) == [c \in Clients |-> IF c \in clients THEN <<Message(op, k)>> ELSE <<>>]
Report(t, op, k) == Tell(t[k].wants, op, k)
Then(first, second) == [c \in Clients |-> first[c] \o second[c]]

(* What a transition yields; raises: it ends with an exception.              *)
Yield(t, recs, out) == [t |-> t, recs |-> recs, out |-> out, raises |-> FALSE]
Raise(t) == [t |-> t, recs |-> <<>>, out |-> Silence, raises |-> TRUE]
-----------------------------------------------------------------------------
(* transition_released_waiting_lambda: wait for the dependencies whose       *)
(* output is not in Redis.                                                   *)
ReleasedWaiting(t, k, stored) ==
    LET ts == t[k]
        idle == {d \in ts.deps : t[d].state = "released"}
        missing == ts.waitingOn \cup (ts.deps \ stored)
    IN  IF ts.lost THEN Yield(t, Recs({k}, "forgotten"), Silence)
        ELSE IF \E d \in ts.deps : t[d].blame
        THEN Yield([t EXCEPT ![k].state = "waiting", ![k].blame = TRUE],
                   Recs({k}, "erred"), Silence)
        ELSE Yield([j \in Keys |->
                       IF j = k
                       THEN [ts EXCEPT !.state = "waiting", !.waitingOn = missing,
                                !.waiters = {d \in ts.dependents : t[d].state = "waiting"}]
                       ELSE IF j \in ts.deps \ idle THEN [t[j] EXCEPT !.waiters = @ \cup {k}]
                       ELSE t[j]],
                   Update(Recs(idle, "waiting"),
                          Recs(IF missing = {} THEN {k} ELSE {}, "processing")),
                   Silence)

(* transition_waiting_processing_lambda: the state is all it changes.        *)
WaitingProcessingExecuting(t, k) == Yield([t EXCEPT ![k].state = "executing"], <<>>, Silence)  \* mistake: no such state
WaitingProcessing(t, k) == Yield([t EXCEPT ![k].state = "processing"], <<>>, Silence)

(* transition_waiting_memory_lambda uses a name it does not define.          *)
WaitingMemory(t, k) == Raise(t)

(* transition_processing_memory_lambda and _add_to_memory_lambda, without    *)
(* its client_releases_keys for the fire-and-forget client.                  *)
ProcessingMemory(t, k) ==
    Yield([t EXCEPT ![k].state = "memory"], Recs({k}, "memory"), Report(t, "key-in-memory", k))

(* The dependencies that a task leaves stop waiting for it; ToRelease are    *)
(* those nobody needs any more.                                              *)
LeaveFromMany(t, k, from) == t  \* mistake: k stays among the waiters
Leave(t, k, from) ==
    [j \in Keys |-> IF j \in from THEN [t[j] EXCEPT !.waiters = @ \ {k}] ELSE t[j]]
ToRelease(t, k, from) == {d \in from : Unneeded(Leave(t, k, from), d)}

(* transition_waiting_released_lambda *)
WaitingReleased(t, k) ==
    LET from == {d \in t[k].deps : k \in t[d].waiters}
        again == ~t[k].blame /\ ~Unneeded(t, k)
        u == [Leave(t, k, from) EXCEPT ![k].state = "released", ![k].waitingOn = {},
                  ![k].waiters = IF t[k].lost \/ again THEN @ ELSE {}]
    IN  Yield(u, Update(Recs(ToRelease(t, k, from), "released"),
                        IF t[k].lost THEN Recs({k}, "forgotten")
                        ELSE Recs(IF again THEN {k} ELSE {}, "waiting")),
              Silence)

(* transition_processing_released_lambda *)
ProcessingReleased(t, k) ==
    LET from == {d \in t[k].deps : t[d].state # "released"}
        u == [t EXCEPT ![k].state = "released"]
    IN  IF ~t[k].lost /\ ~Unneeded(t, k) THEN Yield(u, Recs({k}, "waiting"), Silence)
        ELSE Yield([Leave(u, k, from) EXCEPT ![k].waiters = {}],
                   Update(Recs(IF t[k].lost THEN {k} ELSE {}, "forgotten"),
                          Recs(ToRelease(u, k, from), "released")),
                   Silence)

(* transition_memory_released_lambda *)
MemoryReleased(t, k) ==
    LET ts == t[k]
        running == {d \in ts.waiters : t[d].state = "processing"}
        u == [j \in Keys |->
                 IF j = k THEN [ts EXCEPT !.state = "released"]
                 ELSE IF j \in ts.waiters /\ t[j].state = "waiting"
                 THEN [t[j] EXCEPT !.waitingOn = @ \cup {k}]
                 ELSE t[j]]
        own == IF ~ts.spec \/ ts.lost THEN Recs({k}, "forgotten")
               ELSE Recs(IF Unneeded(t, k) THEN {} ELSE {k}, "waiting")
    IN  Yield(u, Update(Recs(running, "waiting"), own), Report(t, "lost-data", k))

Blame(t, keys) == [j \in Keys |-> IF j \in keys THEN [t[j] EXCEPT !.blame = TRUE] ELSE t[j]]

(* transition_processing_erred_lambda, for a task that failed or whose       *)
(* dependency did.                                                           *)
ProcessingErred(t, k) ==
    LET u == Leave(Blame(t, t[k].dependents \cup {k}), k, t[k].deps)
    IN  Yield([u EXCEPT ![k].state = "erred", ![k].waiters = {}],
              Update(Recs(t[k].dependents, "erred"),
                     Recs(ToRelease(t, k, t[k].deps), "released")),
              Report(t, "task-erred", k))

(* transition_released_erred_lambda; without a failing task there is no      *)
(* exception to report.                                                      *)
ReleasedErred(t, k) ==
    IF ~t[k].blame THEN Raise(t)
    ELSE Yield([Blame(t, t[k].dependents) EXCEPT ![k].state = "erred"],
               Recs(t[k].dependents, "erred"), Report(t, "task-erred", k))

(* transition_erred_released_lambda *)
ErredReleased(t, k) ==
    Yield([t EXCEPT ![k].state = "released", ![k].blame = FALSE],
          Recs({d \in t[k].dependents : t[d].state = "erred"}, "waiting"),
          Report(t, "task-retried", k))
-----------------------------------------------------------------------------
(* _propagate_forgotten_lambda and remove_key_lambda: cut the task out.      *)
CutOutHalf(t, k) ==  \* mistake: the dependencies keep the task among their dependents
    [j \in Keys |->
        IF j = k THEN NoTask
        ELSE IF j \in t[k].dependents
        THEN [t[j] EXCEPT !.lost = TRUE, !.deps = @ \ {k}, !.waitingOn = @ \ {k}]
        ELSE t[j]]
CutOut(t, k) ==
    LET Without(S, cut) == IF cut THEN S \ {k} ELSE S
        after(j) == j \in t[k].dependents
        before(j) == j \in t[k].deps
    IN  [j \in Keys |->
            IF j = k THEN NoTask
            ELSE [t[j] EXCEPT !.lost = @ \/ after(j),
                              !.deps = Without(@, after(j)), !.waitingOn = Without(@, after(j)),
                              !.dependents = Without(@, before(j)), !.waiters = Without(@, before(j))]]
PropagateForgotten(t, k) ==
    {d \in t[k].dependents : t[d].state \notin {"memory", "erred"}}
    \cup {d \in t[k].deps : t[d].dependents = {k} /\ t[d].wants = {}}

(* transition_memory_forgotten_lambda *)
MemoryForgotten(t, k) ==
    Yield(CutOut(t, k), Recs(PropagateForgotten(t, k), "forgotten"),
          Report(t, "cancelled-key", k))

(* transition_released_forgotten_lambda, for erred tasks too.                *)
ReleasedForgotten(t, k) ==
    Yield(CutOut(t, k), Recs(PropagateForgotten(t, k), "forgotten"),
          Report(t, "cancelled-key", k))
-----------------------------------------------------------------------------
(* self._transitions *)
Transitions ==
    {<<"released", "waiting">>, <<"waiting", "released">>, <<"waiting", "processing">>,
     <<"waiting", "memory">>, <<"processing", "released">>, <<"processing", "memory">>,
     <<"processing", "erred">>, <<"released", "forgotten">>, <<"memory", "forgotten">>,
     <<"erred", "forgotten">>, <<"erred", "released">>, <<"memory", "released">>,
     <<"released", "erred">>}

Func(t, k, arc, stored) ==
    CASE arc = <<"released", "waiting">> -> ReleasedWaiting(t, k, stored)
      [] arc = <<"waiting", "processing">> -> WaitingProcessing(t, k)
      [] arc = <<"waiting", "memory">> -> WaitingMemory(t, k)
      [] arc = <<"waiting", "released">> -> WaitingReleased(t, k)
      [] arc = <<"processing", "released">> -> ProcessingReleased(t, k)
      [] arc = <<"processing", "memory">> -> ProcessingMemory(t, k)
      [] arc = <<"processing", "erred">> -> ProcessingErred(t, k)
      [] arc = <<"memory", "released">> -> MemoryReleased(t, k)
      [] arc = <<"memory", "forgotten">> -> MemoryForgotten(t, k)
      [] arc = <<"released", "erred">> -> ReleasedErred(t, k)
      [] arc = <<"erred", "released">> -> ErredReleased(t, k)
      [] OTHER -> ReleasedForgotten(t, k)

(* transition: through "released" if there is no function for it.            *)
Transition(t, k, finish, stored) ==
    LET start == t[k].state
        a == Func(t, k, <<start, "released">>, stored)
        target == IF k \in DOMAIN a.recs THEN a.recs[k] ELSE finish
        b == Func(a.t, k, <<"released", target>>, stored)
    IN  IF start \in {"unknown", finish} THEN Yield(t, <<>>, Silence)
        ELSE IF <<start, finish>> \in Transitions THEN Func(t, k, <<start, finish>>, stored)
        ELSE IF start = "released" \/ <<"released", finish>> \notin Transitions
        THEN Raise(t)
        ELSE IF b.raises THEN [a EXCEPT !.raises = TRUE, !.recs = <<>>]
        ELSE [b EXCEPT !.recs = Update(a.recs, b.recs), !.out = Then(a.out, b.out)]
=============================================================================
