------------------------------- MODULE Worker -------------------------------
(* A worker: the states of its tasks and of the dependencies it gathers from *)
(* its peers, the messages of the Scheduler, and the coroutines gather_dep,  *)
(* handle_missing_dep and execute.  The state is a record, so that a handler *)
(* can be written as the composition of the methods it calls.  A method that *)
(* raises sets crash.  Actors, sizes, priorities and disk are left out.      *)
EXTENDS Naturals, Sequences, FiniteSets, FiniteSetsExt, SequencesExt

CONSTANTS WKeys,         \* the keys
          WDeps,         \* WDeps[k]: the dependencies of task k
          Restricted,    \* the tasks that need the worker's one resource
          Peers, NoPeer,
          Cores,         \* ncores
          OutConnections,\* total_out_connections
          Suspicions,    \* how often a dependency may be missing (5)
          MissingRetries,\* how often a question that fails is asked again (5)
          MaxRequests,   \* bounds: messages of the Scheduler,
          MaxFaults      \* and answers of peers without all the data, or none of the Scheduler

VARIABLES wk, requests, faults

workerVars == <<wk, requests, faults>>

PROCESSING == {"waiting", "ready", "constrained", "executing", "long-running"}
READY == {"ready", "constrained"}

(* tasks: task_state; dep: dep_state; wfd: waiting_for_data; fl and inTask:  *)
(* in_flight_workers and in_flight_tasks; needed: data_needed; missing:      *)
(* _missing_dep_flight; handlers, sleepers, runs: the coroutines under way;  *)
(* told: the last report of a task the Scheduler asked for; unasked: the     *)
(* dependencies that handle_missing_dep has given up to ask for.             *)
WorkerInit ==
    /\ requests = 0 /\ faults = 0
    /\ wk = [tasks |-> [k \in WKeys |-> "none"], dep |-> [k \in WKeys |-> "none"], data |-> {}, exc |-> {},
             deps |-> [k \in WKeys |-> {}], dependents |-> [k \in WKeys |-> {}],
             wfd |-> [k \in WKeys |-> {}], needed |-> <<>>,
             who |-> [k \in WKeys |-> {}], what |-> [p \in Peers |-> {}], pending |-> [p \in Peers |-> <<>>],
             on |-> {}, fl |-> [p \in Peers |-> {}], inTask |-> [k \in WKeys |-> NoPeer],
             missing |-> {}, handlers |-> {}, unasked |-> {}, sleepers |-> {}, susp |-> [k \in WKeys |-> 0],
             executing |-> {}, runs |-> [k \in WKeys |-> 0], avail |-> 1,
             told |-> [k \in WKeys |-> "none"], leak |-> FALSE, crash |-> FALSE]
-----------------------------------------------------------------------------
(* send_task_state_to_scheduler.                                             *)
Report(s, k) == IF k \in s.data THEN [s EXCEPT !.told[k] = "finished"]
                ELSE IF k \in s.exc THEN [s EXCEPT !.told[k] = "erred"] ELSE s

(* transition_waiting_ready; the ready heap and the constrained deque are    *)
(* the tasks in those states.                                                *)
ToReady(s, k) == [s EXCEPT !.wfd[k] = {}, !.tasks[k] = IF k \in Restricted THEN "constrained" ELSE "ready"]

(* transition_executing_done with no value.                                  *)
LeaveCoreKeeps(s, k) == [s EXCEPT !.executing = @ \ {k}]  \* mistake: the resource is not given back
LeaveCore(s, k) == [s EXCEPT !.executing = @ \ {k}, !.avail = IF k \in Restricted THEN @ + 1 ELSE @]

(* transition(key, "memory") of a task whose value came from elsewhere.      *)
ToMemory(s, k) ==
    CASE s.tasks[k] = "memory" -> s
      [] s.tasks[k] \in {"waiting", "ready"} -> [Report(s, k) EXCEPT !.wfd[k] = {}, !.tasks[k] = "memory"]
      [] s.tasks[k] \in {"executing", "long-running"} -> [Report(LeaveCore(s, k), k) EXCEPT !.tasks[k] = "memory"]
      [] OTHER -> [s EXCEPT !.crash = TRUE]

(* put_key_in_memory.                                                        *)
PutInMemory(s, k, transition) ==
    IF k \in s.data THEN s ELSE
    LET stored == [s EXCEPT !.data = @ \cup {k},
                            !.wfd = [j \in WKeys |-> IF j \in s.dependents[k] THEN @[j] \ {k} ELSE @[j]]]
        freed == {j \in s.dependents[k] : s.tasks[j] = "waiting" /\ stored.wfd[j] = {}}
        ready == FoldSet(LAMBDA j, t : ToReady(t, j), stored, freed)
    IN  IF transition /\ s.tasks[k] # "none" THEN ToMemory(ready, k) ELSE ready

(* release_key and release_dep call each other; a dependency that nobody     *)
(* depends on ends the recursion.                                            *)
DropDep(s, d) ==
    IF s.dep[d] = "none" THEN s
    ELSE [s EXCEPT !.dep[d] = "none", !.susp[d] = 0, !.dependents[d] = {}, !.unasked = @ \ {d},
                   !.who[d] = {}, !.what = [p \in Peers |-> IF p \in s.who[d] THEN @[p] \ {d} ELSE @[p]],
                   !.data = IF s.tasks[d] = "none" THEN @ \ {d} ELSE @,
                   !.inTask[d] = NoPeer,
                   !.fl = [p \in Peers |-> IF p = s.inTask[d] THEN @[p] \ {d} ELSE @[p]]]

DropsFlying(s, d) == s.dep[d] = "flight"  \* mistake: one that is waiting is kept
DropsUnused(s, d) == s.dep[d] \in {"waiting", "flight"}
ReleaseKey(s, k, report) ==
    IF s.tasks[k] = "none" THEN s ELSE
    LET mine == {d \in s.deps[k] : s.dep[d] # "none"}
        off == [s EXCEPT !.tasks[k] = "none", !.deps[k] = {}, !.wfd[k] = {}, !.exc = @ \ {k},
                         !.data = IF s.dep[k] = "none" THEN @ \ {k} ELSE @,
                         !.dependents = [d \in WKeys |-> IF d \in mine THEN @[d] \ {k} ELSE @[d]],
                         !.executing = @ \ {k},
                         !.avail = IF k \in Restricted /\ s.tasks[k] = "executing" THEN @ + 1 ELSE @,
                         !.leak = @ \/ (k \in Restricted /\ s.tasks[k] = "long-running"),
                         !.told[k] = IF s.tasks[k] \notin PROCESSING THEN @ ELSE IF report THEN "released" ELSE "none"]
    IN  FoldSet(LAMBDA d, t : IF t.dependents[d] = {} /\ DropsUnused(t, d) THEN DropDep(t, d) ELSE t, off, mine)

ReleasedWithNot(s, d) == {}  \* mistake: its dependents are not released
ReleasedWith(s, d) == s.dependents[d]
ReleaseDep(s, d) ==
    IF s.dep[d] = "none" THEN s
    ELSE FoldSet(LAMBDA k, t : IF t.tasks[k] # "memory" THEN ReleaseKey(t, k, TRUE) ELSE t,
                 DropDep(s, d), ReleasedWith(s, d))
-----------------------------------------------------------------------------
(* transition_dep.                                                           *)
FlightToMemory(s, d) ==
    LET t == [s EXCEPT !.inTask[d] = NoPeer]
    IN  IF s.dependents[d] = {} THEN ReleaseDep(t, d)
        ELSE PutInMemory([t EXCEPT !.dep[d] = "memory"], d, TRUE)

DepToMemory(s, d) ==
    CASE s.dep[d] = "flight" -> FlightToMemory(s, d)
      [] s.dep[d] = "waiting" -> [PutInMemory(s, d, FALSE) EXCEPT !.dep[d] = "memory"]
      [] OTHER -> s

(* A callback of handle_missing_dep for the dependencies ds; level: how many *)
(* of its calls wait for the one that runs.                                  *)
Handler(ds) == [of |-> ds, left |-> ds, at |-> "start", level |-> 0]
NeededAgainNot(s, d) == {}  \* mistake: its dependents are not queued again
NeededAgain(s, d) == {k \in s.dependents[d] : s.tasks[k] = "waiting"}
FlightToWaiting(s, d, p) ==
    IF s.dep[d] # "flight" THEN s ELSE
    LET who == IF p = NoPeer THEN s.who[d] ELSE s.who[d] \ {p}
        what == IF p = NoPeer THEN s.what ELSE [s.what EXCEPT ![p] = @ \ {d}]
        lost == who = {} /\ d \notin s.missing
        t == [s EXCEPT !.inTask[d] = NoPeer, !.who[d] = who, !.what = what, !.dep[d] = "waiting",
                       !.missing = IF lost THEN @ \cup {d} ELSE @,
                       !.handlers = IF lost THEN @ \cup {Handler({d})} ELSE @,
                       !.needed = SetToSeq(NeededAgain(s, d)) \o @]
    IN  IF s.dependents[d] = {} THEN ReleaseDep(t, d) ELSE t
-----------------------------------------------------------------------------
(* ensure_computing: the states it may lead to.  Which of the ready tasks    *)
(* comes first is left open.                                                 *)
RECURSIVE EnsureComputing(_)
EnsureComputing(s) ==
    LET fit == {k \in WKeys : s.tasks[k] = "ready" \/ (s.tasks[k] = "constrained" /\ s.avail > 0)}
    IN  IF Cardinality(s.executing) >= Cores \/ fit = {} \/ s.crash THEN {s}
        ELSE UNION {EnsureComputing([s EXCEPT !.tasks[k] = "executing", !.executing = @ \cup {k},
                                              !.runs[k] = @ + 1,
                                              !.avail = IF k \in Restricted THEN @ - 1 ELSE @]) : k \in fit}

(* select_keys_for_gather: the first n of the peer's pending dependencies    *)
(* fit in the message; the one after them is lost from the queue.            *)
Gather(s, d, p, n) ==
    LET more == {e \in ToSet(SubSeq(s.pending[p], 1, n)) : s.dep[e] = "waiting"} \cup {d}
    IN  [s EXCEPT !.pending[p] = SubSeq(@, n + 2, Len(@)),
                  !.on = @ \cup {p}, !.fl[p] = more,
                  !.dep = [e \in WKeys |-> IF e \in more THEN "flight" ELSE @[e]],
                  !.inTask = [e \in WKeys |-> IF e \in more THEN p ELSE @[e]]]

(* The inner loop of ensure_communicating over the dependencies ds of a key: *)
(* [s, busy, changed].                                                       *)
RECURSIVE FetchAll(_, _, _, _)
FetchAll(s, ds, busy, changed) ==
    IF ds = {} THEN {[s |-> s, busy |-> busy, changed |-> changed]} ELSE
    LET d == CHOOSE e \in ds : TRUE
        free == s.who[d] \ s.on
    IN  IF s.dep[d] # "waiting" THEN FetchAll(s, ds \ {d}, busy, changed)
        ELSE IF free = {} THEN FetchAll(s, ds \ {d}, TRUE, changed)
        ELSE UNION {UNION {FetchAll(Gather(s, d, p, n), ds \ {d}, busy, TRUE) : n \in 0..Len(s.pending[p])} :
                        p \in free}

RECURSIVE EnsureCommunicating(_)
EnsureCommunicating(s) ==
    IF s.needed = <<>> \/ Cardinality(s.on) >= OutConnections \/ s.crash THEN {s}
    ELSE IF s.tasks[Head(s.needed)] # "waiting" THEN EnsureCommunicating([s EXCEPT !.needed = Tail(@)])
    ELSE LET ds == {d \in s.deps[Head(s.needed)] : s.dep[d] = "waiting"}
             gone == {d \in ds : s.who[d] = {}}
             t == IF gone \ s.missing = {} THEN s
                  ELSE [s EXCEPT !.missing = @ \cup gone,
                                 !.handlers = @ \cup {Handler(gone \ s.missing)}]
         IN  UNION {LET u == IF r.busy THEN r.s ELSE [r.s EXCEPT !.needed = Tail(@)]
                    IN  IF r.changed THEN EnsureCommunicating(u) ELSE {u} : r \in FetchAll(t, ds \ gone, FALSE, FALSE)}
-----------------------------------------------------------------------------
(* add_task (compute-task), with the holders of the dependencies.            *)
AlreadyHereSilent(s, k) == s  \* mistake: a result that is here is not reported again
AlreadyHere(s, k) == Report(s, k)
AddTask(s, k, holders) ==
    LET ds == WDeps[k]
        dep == [d \in WKeys |-> IF d \in ds /\ s.dep[d] = "none"
                                THEN IF s.tasks[d] = "memory" THEN "memory" ELSE "waiting"
                                ELSE s.dep[d]]
        wait == {d \in ds : dep[d] # "memory"}
        asked == [s EXCEPT !.told[k] = "asked"]
        new == [asked EXCEPT !.tasks[k] = "waiting", !.deps[k] = ds, !.dep = dep, !.wfd[k] = wait,
                   !.dependents = [d \in WKeys |-> IF d \in ds THEN @[d] \cup {k} ELSE @[d]],
                   !.who = [d \in WKeys |-> IF d \in ds THEN @[d] \cup holders[d] ELSE @[d]],
                   !.what = [p \in Peers |-> @[p] \cup {d \in ds : p \in holders[d]}],
                   !.pending = [p \in Peers |-> @[p] \o SetToSeq({d \in wait : p \in holders[d]})],
                   !.needed = IF wait = {} THEN @ ELSE Append(@, k)]
    IN  CASE s.tasks[k] = "memory" -> AlreadyHere(asked, k)
          [] s.tasks[k] \in PROCESSING \ {"constrained"} -> asked
          [] OTHER -> IF s.dep[k] = "memory" THEN [AlreadyHere(asked, k) EXCEPT !.tasks[k] = "memory"]
                      ELSE IF wait = {} THEN ToReady(new, k) ELSE new

(* delete_data.                                                              *)
DeleteData(s, k) == ReleaseDep(ReleaseKey(s, k, TRUE), k)

(* steal_request: the answer is the state, and the task is released.         *)
StealRequest(s, k) == IF s.tasks[k] \in {"ready", "waiting"} THEN ReleaseKey(s, k, TRUE) ELSE s

(* update_data (scatter), a remote call, of a key that is not a task in      *)
(* progress here.                                                            *)
UpdateData(s, k) ==
    IF s.tasks[k] = "memory" THEN s
    ELSE DepToMemory([PutInMemory(s, k, TRUE) EXCEPT !.tasks[k] = "memory", !.deps[k] = {}], k)

(* A message of the Scheduler's stream, then the every_cycle functions.      *)
Cycle(s) == UNION {EnsureComputing(t) : t \in EnsureCommunicating(s)}
HandleScheduler ==
    /\ requests < MaxRequests /\ requests' = requests + 1 /\ UNCHANGED faults
    /\ \E k \in WKeys :
          \/ \E holders \in [WDeps[k] -> SUBSET Peers \ {{}}] : wk' \in Cycle(AddTask(wk, k, holders))
          \/ wk.tasks[k] # "none" /\ wk' \in Cycle(ReleaseKey(wk, k, FALSE))
          \/ (wk.tasks[k] # "none" \/ wk.dep[k] # "none") /\ wk' \in Cycle(DeleteData(wk, k))
          \/ wk.tasks[k] # "none" /\ wk' \in Cycle(StealRequest(wk, k))

Scatter ==
    /\ requests < MaxRequests /\ requests' = requests + 1 /\ UNCHANGED faults
    /\ \E k \in WKeys : wk.tasks[k] \in {"none", "memory"} /\ wk' = UpdateData(wk, k)
-----------------------------------------------------------------------------
(* gather_dep ends: with data, with a busy peer or with a lost connection.   *)
GatherDep(p, outcome, data) ==
    LET lost == IF outcome # "lost" THEN wk
                ELSE [wk EXCEPT !.what[p] = {},
                                !.who = [d \in WKeys |-> IF d \in wk.what[p] THEN @[d] \ {p} ELSE @[d]]]
        from == IF outcome = "busy" THEN NoPeer ELSE p
        off == [lost EXCEPT !.on = @ \ {p}, !.fl[p] = {}]
        each == FoldSet(LAMBDA d, t : IF d \in data THEN DepToMemory(t, d) ELSE FlightToWaiting(t, d, from),
                        off, wk.fl[p])
        last == IF outcome = "busy" /\ wk.fl[p] # {} THEN [each EXCEPT !.sleepers = @ \cup wk.fl[p]] ELSE each
    IN  /\ p \in wk.on
        /\ outcome = "data" \/ data = {}
        /\ faults' = IF data = wk.fl[p] THEN faults ELSE faults + 1
        /\ faults' <= MaxFaults
        /\ wk' \in UNION {IF outcome = "busy" THEN {t} ELSE EnsureCommunicating(t) : t \in EnsureComputing(last)}
        /\ UNCHANGED requests

(* After the back-off: query_who_has, update_who_has.                        *)
Learn(s, d, ps) == [s EXCEPT !.who[d] = @ \cup ps, !.what = [p \in Peers |-> IF p \in ps THEN @[p] \cup {d} ELSE @[p]]]
AfterBusy(d, ps) ==
    /\ d \in wk.sleepers
    /\ wk' \in EnsureCommunicating([Learn(wk, d, ps) EXCEPT !.sleepers = @ \ {d}])
    /\ UNCHANGED <<requests, faults>>

(* handle_missing_dep up to its question, with bad_dep, and after it.        *)
Fail(s, k) ==  \* transition(key, "error")
    LET t == IF s.tasks[k] = "waiting" THEN [s EXCEPT !.wfd[k] = {}] ELSE LeaveCore(s, k)
    IN  CASE s.tasks[k] = "error" -> s
          [] s.tasks[k] \in {"waiting", "executing", "long-running"} ->
                [Report([t EXCEPT !.exc = @ \cup {k}], k) EXCEPT !.tasks[k] = "error"]
          [] OTHER -> [s EXCEPT !.crash = TRUE]
BadDep(s, d) == ReleaseDep(FoldSet(LAMBDA k, t : Fail(t, k), s, s.dependents[d]), d)
Becomes(s, h, g) == [s EXCEPT !.handlers = (@ \ {h}) \cup {g}]

(* The end: finally, of the call that runs and then of those that wait for   *)
(* it, with nothing to wait for in between.  A further call was passed the   *)
(* worker as its first dependency, which is not in _missing_dep_flight, so   *)
(* it takes nothing out of it; the first call takes out its own.             *)
Finally(s, h) ==
    LET ended == FoldSet(LAMBDA l, S : UNION {EnsureCommunicating(t) : t \in S}, {s}, 1..h.level)
    IN  UNION {EnsureCommunicating([t EXCEPT !.missing = @ \ h.of, !.handlers = @ \ {h}]) : t \in ended}
Ask(h, level) ==
    LET known == {d \in h.left : wk.dep[d] # "none"}
        bad == {d \in known : wk.susp[d] > Suspicions}
        s == FoldSet(LAMBDA d, t : BadDep(t, d), wk, bad)
        g == [h EXCEPT !.at = "asked", !.left = known \ bad, !.level = level]
    IN  IF g.left = {} THEN Finally(Becomes(s, h, g), g) ELSE {Becomes(s, h, g)}

AskForMissing(h) ==
    /\ h \in wk.handlers /\ h.at = "start"
    /\ wk' \in Ask(h, 0)
    /\ UNCHANGED <<requests, faults>>

(* The question fails: it is asked again by a further call, but not for ever.*)
QuestionFails(h) ==
    /\ h \in wk.handlers /\ h.at = "asked"
    /\ faults < MaxFaults /\ faults' = faults + 1 /\ UNCHANGED requests
    /\ wk' \in IF h.level < MissingRetries THEN Ask(h, h.level + 1)
               ELSE Finally([wk EXCEPT !.unasked = @ \cup h.left], h)

MissingAnswered(h, found) ==
    LET one(d, t) == IF found[d] = {} THEN ReleaseDep([t EXCEPT !.susp[d] = @ + 1], d)
                     ELSE [Learn(t, d, found[d]) EXCEPT !.susp[d] = @ + 1,
                              !.needed = @ \o SetToSeq({k \in t.dependents[d] : t.tasks[k] = "waiting"})]
    IN  /\ h \in wk.handlers /\ h.at = "asked"
        /\ wk' \in Finally(FoldSet(LAMBDA d, t : one(d, t), wk, h.left), h)
        /\ UNCHANGED <<requests, faults>>

(* execute ends.  The task may have been released, or released and added     *)
(* again, meanwhile.                                                         *)
Done(s, k, outcome) ==
    LET free == LeaveCore(s, k)
        stored == PutInMemory([free EXCEPT !.tasks[k] = "memory"], k, FALSE)
    IN  CASE outcome = "finished" -> Report(DepToMemory(stored, k), k)
          [] outcome = "error" -> Report([free EXCEPT !.tasks[k] = "error", !.exc = @ \cup {k}], k)
          [] outcome = "reschedule" -> ReleaseKey([free EXCEPT !.tasks[k] = "rescheduled", !.told[k] = "rescheduled"], k, FALSE)
Current(k) == wk.tasks[k] \in {"executing", "long-running"}
Execute(k, outcome) ==
    LET s == [wk EXCEPT !.runs[k] = @ - 1]
    IN  /\ wk.runs[k] > 0
        /\ wk' \in IF Current(k) THEN UNION {EnsureCommunicating(t) : t \in EnsureComputing(Done(s, k, outcome))} ELSE {s}
        /\ UNCHANGED <<requests, faults>>

(* transition_executing_long_running: the task secedes.                      *)
Secede(k) ==
    /\ wk.runs[k] > 0 /\ wk.tasks[k] = "executing"
    /\ wk' \in EnsureComputing([wk EXCEPT !.tasks[k] = "long-running", !.executing = @ \ {k}])
    /\ UNCHANGED <<requests, faults>>

WorkerNext ==
    /\ ~wk.crash
    /\ \/ HandleScheduler \/ Scatter
       \/ \E p \in Peers, outcome \in {"data", "busy", "lost"} :
             \E data \in SUBSET wk.fl[p] : GatherDep(p, outcome, data)
       \/ \E d \in wk.sleepers, ps \in SUBSET Peers : AfterBusy(d, ps)
       \/ \E h \in wk.handlers : AskForMissing(h) \/ QuestionFails(h) \/ \E found \in [h.left -> SUBSET Peers] : MissingAnswered(h, found)
       \/ \E k \in WKeys : Secede(k) \/ \E outcome \in {"finished", "error", "reschedule"} : Execute(k, outcome)
-----------------------------------------------------------------------------
(* validate_key_memory, validate_key_waiting, validate_key_ready and         *)
(* validate_key_executing.                                                   *)
ValidateKeyMemory(k) == k \in wk.data /\ wk.dep[k] \in {"none", "memory"}
ValidateKeyWaiting(k) == ~(wk.deps[k] \subseteq wk.data)
ValidateKeyReady(k) == wk.deps[k] \subseteq wk.data /\ k \notin wk.executing
ValidateKeyExecuting(k) == wk.deps[k] \subseteq wk.data /\ k \in wk.executing
ValidateKey(k) ==
    /\ wk.tasks[k] = "memory" => ValidateKeyMemory(k)
    /\ wk.tasks[k] = "waiting" => ValidateKeyWaiting(k)
    /\ wk.tasks[k] \in {"ready", "constrained"} => ValidateKeyReady(k)
    /\ wk.tasks[k] = "executing" => ValidateKeyExecuting(k)
(* The last loop of validate_state, and that only executing tasks execute.   *)
ValidateKeyAwaited(k) ==
    /\ wk.tasks[k] = "memory" => wk.wfd[k] = {}
    /\ k \in wk.executing => wk.tasks[k] = "executing"

(* validate_dep_waiting, validate_dep_flight and validate_dep_memory.        *)
ValidateDepWaiting(d) == d \notin wk.data /\ wk.dependents[d] # {}
ValidateDepFlight(d) == d \notin wk.data /\ wk.inTask[d] \in wk.on /\ d \in wk.fl[wk.inTask[d]]
ValidateDepMemory(d) == d \in wk.data /\ wk.tasks[d] \in {"none", "memory"}
ValidateDep(d) ==
    /\ wk.dep[d] = "waiting" => ValidateDepWaiting(d)
    /\ wk.dep[d] = "flight" => ValidateDepFlight(d)
    /\ wk.dep[d] = "memory" => ValidateDepMemory(d)
IsServed(d) == wk.inTask[d] # NoPeer \/ d \in wk.missing \/ (wk.who[d] # {} /\ wk.who[d] \subseteq wk.on)
ValidateWhoHas(d) == \A p \in Peers : p \in wk.who[d] <=> d \in wk.what[p]

(* What validate_key, validate_dep and validate_state assert, after every    *)
(* handler and not only in validating mode.                                  *)
TaskStatesValid == ~wk.crash => \A k \in WKeys : ValidateKey(k) /\ ValidateKeyAwaited(k)

DepStatesValid == ~wk.crash => \A d \in WKeys : ValidateDep(d) /\ ValidateWhoHas(d)

(* A waiting task is queued, or each dependency it waits for is in flight,   *)
(* searched for, or held by peers that are all busy: but a dependency that   *)
(* the worker could not ask for is never asked for again.                    *)
WaitingIsServed == ~wk.crash =>
    \A k \in WKeys : wk.tasks[k] = "waiting" /\ k \notin ToSet(wk.needed) => \A d \in wk.wfd[k] \ wk.unasked : IsServed(d)

(* A task the Scheduler asked for is in progress until it is reported.       *)
NoRequestForgotten == ~wk.crash =>
    \A k \in WKeys : wk.told[k] = "asked" => wk.tasks[k] \in PROCESSING

(* The resource is free exactly when no task holds it, unless a long-running *)
(* task was released.                                                        *)
ResourceBalanced ==
    ~wk.leak /\ ~wk.crash => wk.avail + Cardinality({k \in Restricted : wk.tasks[k] \in {"executing", "long-running"}}) = 1
=============================================================================
