------------------------------- MODULE Deploy -------------------------------
(***************************************************************************)
(* A cluster that is described by a specification (deploy/spec.py) and the *)
(* Adaptive policy that may drive it (deploy/adaptive.py).                 *)
(*                                                                         *)
(* worker_spec says which workers there should be, in the order in which   *)
(* they were asked for; workers are the ones there are.  scale() edits the *)
(* specification, from the user's thread one name at a time, and asks the  *)
(* event loop for a correction; at most one correction waits, and at most  *)
(* one runs, under the lock.  A correction awaits twice (retiring and      *)
(* starting workers) and the specification may change at both places, and  *)
(* between two statements when the user's thread edits it.  An exception   *)
(* ends a correction or an adaptation where it is raised.                  *)
(*                                                                         *)
(* dpKnown are the names the Scheduler has registered: all the workers     *)
(* started so far, or none (Registers is FALSE for the Scheduler of this   *)
(* repository, whose add_worker returns before it registers anything).     *)
(***************************************************************************)
EXTENDS Naturals, FiniteSets, Sequences, SequencesExt

CONSTANTS
    MaxName,     \* bound: the names are 0..MaxName
    MaxScales,   \* bound on the calls of scale() by the user
    MaxTicks,    \* bound on the calls of _adapt that are not idle
    MaxFailures, \* bound on the workers that fail to start
    Minimum, Maximum, WaitCount, ScaleFactor

VARIABLES
    dpStatus,    \* status of the cluster
    dpSpec,      \* worker_spec: its names, in the order of their insertion
    dpNext,      \* _i
    dpWorkers,   \* workers
    dpUnstarted, \* workers constructed by a correction that then failed
    dpCalls,     \* callbacks of _correct_state in the event loop
    dpWaiting,   \* _correct_state_waiting
    dpLock,      \* who holds _lock: "nobody", "correction", "close"
    dpAt,        \* where the correction under the lock is
    dpToClose, dpToOpen,
    dpUser,      \* the number the user's scale() is working towards
    dpAdapt,     \* where _adapt is
    dpDown,      \* the workers it retires
    dpCounts,    \* close_counts
    dpStreak,    \* how often in a row each worker has been suggested
    dpKnown,     \* names registered at the Scheduler
    dpRegisters, \* does the Scheduler register workers?
    dpClosing,   \* where _close is
    dpRaised,    \* an exception has been raised since the last correction
    dpUsed       \* scales, ticks and failures so far

specVars == <<dpSpec, dpNext>>
corrVars == <<dpLock, dpAt, dpToClose, dpToOpen, dpWorkers, dpUnstarted>>
adVars == <<dpDown, dpCounts, dpStreak>>
dpVars == <<dpStatus, specVars, corrVars, dpCalls, dpWaiting, dpUser, dpAdapt,
            adVars, dpKnown, dpRegisters, dpClosing, dpRaised, dpUsed>>

SpecNames == 0..MaxName
NoTarget == MaxName + 2

DpInit ==
    /\ dpStatus = "created"
    /\ dpSpec = <<>> /\ dpNext = 0 /\ dpWorkers = {} /\ dpUnstarted = {}
    /\ dpCalls = 0 /\ dpWaiting = FALSE
    /\ dpLock = "nobody" /\ dpAt = "idle" /\ dpToClose = {} /\ dpToOpen = {}
    /\ dpUser = NoTarget
    /\ dpAdapt = "idle" /\ dpDown = {}
    /\ dpCounts = [n \in SpecNames |-> 0] /\ dpStreak = [n \in SpecNames |-> 0]
    /\ dpKnown = {} /\ dpRegisters \in BOOLEAN
    /\ dpClosing = "idle" /\ dpRaised = FALSE
    /\ dpUsed = [scales |-> 0, ticks |-> 0, failures |-> 0]

Count(what) == dpUsed' = [dpUsed EXCEPT ![what] = @ + 1]

\* The constructor: _start awaits the Scheduler, then the first correction.
StartCluster ==
    /\ dpStatus = "created"
    /\ dpStatus' = "running" /\ dpWaiting' = TRUE
    /\ UNCHANGED <<specVars, corrVars, dpCalls, dpUser, dpAdapt, adVars, dpKnown,
                   dpRegisters, dpClosing, dpRaised, dpUsed>>

-----------------------------------------------------------------------------
(* scale *)

\* popitem takes the name that came last.
PopItem(spec) == Front(spec)

\* The next name: _i is only moved past names in use.
FreshName(spec, i) ==
    CHOOSE n \in i..(MaxName + 2) : /\ n \notin Range(spec)
                                    /\ \A k \in i..(n - 1) : k \in Range(spec)

AddItem(spec, i) == Append(spec, FreshName(spec, i))

\* scale(n) run to its end, as the event loop does.
Scaled[sn \in Seq(Nat) \X Nat, n \in Nat] ==
    IF Len(sn[1]) > n THEN Scaled[<<PopItem(sn[1]), sn[2]>>, n]
    ELSE IF Len(sn[1]) < n
         THEN Scaled[<<AddItem(sn[1], sn[2]), FreshName(sn[1], sn[2])>>, n]
         ELSE sn

ScaleNow(n) ==
    LET r == Scaled[<<dpSpec, dpNext>>, n]
    IN  /\ \A k \in DOMAIN r[1] : r[1][k] <= MaxName
        /\ dpSpec' = r[1] /\ dpNext' = r[2]

\* The user's thread: one name at a time, then the callback.
UserScales(n) ==
    /\ dpStatus \in {"running", "closing"} /\ dpUser = NoTarget
    /\ dpUsed.scales < MaxScales
    /\ dpUser' = n /\ Count("scales")
    /\ UNCHANGED <<dpStatus, specVars, corrVars, dpCalls, dpWaiting, dpAdapt, adVars,
                   dpKnown, dpRegisters, dpClosing, dpRaised>>

UserEdits ==
    /\ dpUser # NoTarget
    /\ \/ /\ Len(dpSpec) > dpUser
          /\ dpSpec' = PopItem(dpSpec)
          /\ UNCHANGED <<dpNext, dpUser, dpCalls>>
       \/ /\ Len(dpSpec) < dpUser
          /\ FreshName(dpSpec, dpNext) <= MaxName
          /\ dpSpec' = AddItem(dpSpec, dpNext)
          /\ dpNext' = FreshName(dpSpec, dpNext)
          /\ UNCHANGED <<dpUser, dpCalls>>
       \/ /\ Len(dpSpec) = dpUser
          /\ dpUser' = NoTarget /\ dpCalls' = dpCalls + 1
          /\ UNCHANGED specVars
    /\ UNCHANGED <<dpStatus, corrVars, dpWaiting, dpAdapt, adVars, dpKnown, dpRegisters,
                   dpClosing, dpRaised, dpUsed>>

-----------------------------------------------------------------------------
(* _correct_state *)

\* Bug: a correction that is under way is taken to serve the call too.
QueuedUnlessRunning == dpWaiting \/ dpAt = "idle"

\* People may call it frequently: a task waits afterwards, the one that waited
\* before or a new one.
Queued == TRUE

CorrectState ==
    /\ dpCalls > 0
    /\ dpCalls' = dpCalls - 1 /\ dpWaiting' = Queued
    /\ UNCHANGED <<dpStatus, specVars, corrVars, dpUser, dpAdapt, adVars, dpKnown,
                   dpRegisters, dpClosing, dpRaised, dpUsed>>

\* Those who await the task that waits, and those who await the one that runs.
Begun(w) == IF w = "queued" THEN "begun" ELSE w
Ended(w, how) == IF w = "begun" THEN how ELSE w

\* The flag is reset first: a call made from now on needs a new task.
CorrectBegins ==
    /\ dpWaiting /\ dpLock = "nobody"
    /\ dpWaiting' = FALSE /\ dpRaised' = FALSE
    /\ dpLock' = "correction"
    /\ dpToClose' = dpWorkers \ Range(dpSpec)
    /\ dpAt' = IF dpToClose' = {} THEN "compare" ELSE "retire"
    /\ dpAdapt' = Begun(dpAdapt) /\ dpClosing' = Begun(dpClosing)
    /\ UNCHANGED <<dpStatus, specVars, dpToOpen, dpWorkers, dpUnstarted, dpCalls, dpUser,
                   adVars, dpKnown, dpRegisters, dpUsed>>

\* Scheduler.retire_workers and the close() of each worker are awaited.
CorrectRetired ==
    /\ dpAt = "retire"
    /\ dpWorkers' = dpWorkers \ dpToClose /\ dpKnown' = dpKnown \ dpToClose
    /\ dpToClose' = {} /\ dpAt' = "compare"
    /\ UNCHANGED <<dpStatus, specVars, dpLock, dpToOpen, dpUnstarted, dpCalls, dpWaiting,
                   dpUser, dpAdapt, adVars, dpRegisters, dpClosing, dpRaised, dpUsed>>

CorrectCompares ==
    /\ dpAt = "compare"
    /\ dpToOpen' = Range(dpSpec) \ dpWorkers
    /\ dpAt' = "construct"
    /\ UNCHANGED <<dpStatus, specVars, dpLock, dpToClose, dpWorkers, dpUnstarted, dpCalls,
                   dpWaiting, dpUser, dpAdapt, adVars, dpKnown, dpRegisters, dpClosing,
                   dpRaised, dpUsed>>

Raises ==
    /\ dpRaised' = TRUE
    /\ dpLock' = "nobody" /\ dpAt' = "idle" /\ dpToOpen' = {}
    /\ dpAdapt' = Ended(dpAdapt, "idle") /\ dpClosing' = Ended(dpClosing, "failed")

\* worker_spec[name] of every name: the user's thread may have popped one of
\* them meanwhile (KeyError; the ones constructed before it are never started).
CorrectConstructs ==
    /\ dpAt = "construct"
    /\ \/ /\ dpToOpen \subseteq Range(dpSpec)
          /\ dpAt' = "open"
          /\ UNCHANGED <<dpLock, dpToOpen, dpUnstarted, dpAdapt, dpClosing, dpRaised>>
       \/ /\ ~ dpToOpen \subseteq Range(dpSpec)
          /\ Raises
          /\ \E made \in SUBSET (dpToOpen \cap Range(dpSpec)) :
                dpUnstarted' = dpUnstarted \cup made
    /\ UNCHANGED <<dpStatus, specVars, dpToClose, dpWorkers, dpCalls, dpWaiting, dpUser,
                   adVars, dpKnown, dpRegisters, dpUsed>>

\* The workers are awaited; one may raise, and then none of them is recorded.
CorrectOpens ==
    /\ dpAt = "open"
    /\ \/ /\ dpWorkers' = dpWorkers \cup dpToOpen
          /\ dpKnown' = IF dpRegisters THEN dpKnown \cup dpToOpen ELSE dpKnown
          /\ dpLock' = "nobody" /\ dpAt' = "idle" /\ dpToOpen' = {}
          /\ dpAdapt' = Ended(dpAdapt, "waiting") /\ dpClosing' = Ended(dpClosing, "ended")
          /\ UNCHANGED <<dpUnstarted, dpRaised, dpUsed>>
       \/ /\ dpToOpen # {} /\ dpUsed.failures < MaxFailures
          /\ Count("failures") /\ Raises
          /\ dpUnstarted' = dpUnstarted \cup dpToOpen
          /\ UNCHANGED <<dpWorkers, dpKnown>>
    /\ UNCHANGED <<dpStatus, specVars, dpToClose, dpCalls, dpWaiting, dpUser, adVars,
                   dpRegisters>>

-----------------------------------------------------------------------------
(* Adaptive *)

LeastOf(a, b) == IF a < b THEN a ELSE b
MostOf(S) == CHOOSE m \in S : \A k \in S : k <= m

\* What needs_cpu and needs_memory may say of the load of the workers, which is
\* not modelled.
Needs == BOOLEAN

ShouldScaleUp(needed) ==
    \/ Cardinality(dpKnown) < Minimum
    \/ Cardinality(dpKnown) < Maximum /\ needed

\* What Scheduler.workers_to_close may suggest, cut to what the minimum allows.
WorkersToClose ==
    IF Cardinality(dpKnown) <= Minimum THEN {{}}
    ELSE {S \in SUBSET dpKnown : Cardinality(S) <= Cardinality(dpKnown) - Minimum}

\* get_scale_up_kwargs; target is the occupancy over the target duration.
Instances(target) ==
    LeastOf(Maximum, MostOf({1, Cardinality(dpKnown) * ScaleFactor, target, Minimum}))

ToRetire(workers) == {w \in workers : dpCounts[w] >= WaitCount}

\* Bug: the count of a worker that is not suggested any more is kept.
CountsKept(workers) ==
    [w \in SpecNames |->
        IF w \in ToRetire(workers) THEN 1
        ELSE IF w \in workers THEN dpCounts[w] + 1 ELSE dpCounts[w]]

\* close_counts after workers have been suggested: the ones that are retired
\* start again, the ones that are not suggested are dropped.
CountsAfter(workers) ==
    [w \in SpecNames |->
        IF w \in ToRetire(workers) THEN 1
        ELSE IF w \in workers THEN dpCounts[w] + 1 ELSE 0]

NoCounts == [w \in SpecNames |-> 0]

StreakAfter(workers) ==
    [w \in SpecNames |-> IF w \in workers THEN LeastOf(dpStreak[w] + 1, WaitCount + 2)
                         ELSE 0]

\* recommendations: up, down, or nothing; _adapting keeps a second one out.
AdaptUp(target) ==
    /\ dpCounts' = NoCounts /\ dpStreak' = NoCounts
    /\ ScaleNow(Instances(target)) /\ dpCalls' = dpCalls + 1
    /\ UNCHANGED <<dpAdapt, dpDown>>

AdaptClears ==
    /\ dpCounts' = NoCounts /\ dpStreak' = NoCounts
    /\ UNCHANGED <<dpAdapt, dpDown, specVars, dpCalls>>

AdaptCounts(workers) ==
    /\ dpDown' = ToRetire(workers)
    /\ dpAdapt' = IF dpDown' = {} THEN "idle" ELSE "retiring"
    /\ dpCounts' = CountsAfter(workers) /\ dpStreak' = StreakAfter(workers)
    /\ UNCHANGED <<specVars, dpCalls>>

Adapt(needed, target) ==
    /\ dpStatus # "created" /\ dpAdapt = "idle"
    /\ dpUsed.ticks < MaxTicks /\ Count("ticks")
    /\ \E workers \in WorkersToClose :
         \/ ShouldScaleUp(needed) /\ workers = {} /\ AdaptUp(target)
         \/ ShouldScaleUp(needed) /\ workers # {} /\ AdaptClears
         \/ ~ ShouldScaleUp(needed) /\ workers # {} /\ AdaptCounts(workers)
         \/ ~ ShouldScaleUp(needed) /\ workers = {} /\ AdaptClears
    /\ UNCHANGED <<dpStatus, corrVars, dpWaiting, dpUser, dpKnown, dpRegisters, dpClosing,
                   dpRaised>>

\* The names of the workers are deleted one after another, until one is missing
\* because somebody else has deleted it already (KeyError).
DeletesNames(named) ==
    \/ /\ named \subseteq Range(dpSpec)
       /\ dpSpec' = SelectSeq(dpSpec, LAMBDA n : n \notin named)
       /\ dpAdapt' = "queued" /\ dpWaiting' = TRUE
       /\ UNCHANGED dpRaised
    \/ /\ ~ named \subseteq Range(dpSpec)
       /\ \E gone \in SUBSET (named \cap Range(dpSpec)) :
             dpSpec' = SelectSeq(dpSpec, LAMBDA n : n \notin gone)
       /\ dpAdapt' = "idle" /\ dpRaised' = TRUE
       /\ UNCHANGED dpWaiting

\* _retire_workers: the Scheduler has retired them; then scale_down deletes
\* their names and awaits the cluster.
ScaleDown ==
    /\ dpAdapt = "retiring"
    /\ dpKnown' = dpKnown \ dpDown
    /\ DeletesNames(dpWorkers \cap dpDown)
    /\ UNCHANGED <<dpStatus, dpNext, corrVars, dpCalls, dpUser, adVars, dpRegisters,
                   dpClosing, dpUsed>>

\* _wait_for_workers: the names at the Scheduler are the names of the cluster.
AdaptEnds ==
    /\ dpAdapt = "waiting" /\ dpKnown = dpWorkers
    /\ dpAdapt' = "idle"
    /\ UNCHANGED <<dpStatus, specVars, corrVars, dpCalls, dpWaiting, dpUser, adVars,
                   dpKnown, dpRegisters, dpClosing, dpRaised, dpUsed>>

-----------------------------------------------------------------------------
(* _close *)

CloseBegins ==
    /\ dpStatus = "running" /\ dpStatus' = "closing" /\ dpClosing' = "locking"
    /\ UNCHANGED <<specVars, corrVars, dpCalls, dpWaiting, dpUser, dpAdapt, adVars,
                   dpKnown, dpRegisters, dpRaised, dpUsed>>

\* Under the lock the Scheduler is closed with its workers.
CloseLocks ==
    /\ dpClosing = "locking" /\ dpLock = "nobody"
    /\ dpLock' = "close" /\ dpClosing' = "locked" /\ dpKnown' = {}
    /\ UNCHANGED <<dpStatus, specVars, dpAt, dpToClose, dpToOpen, dpWorkers, dpUnstarted,
                   dpCalls, dpWaiting, dpUser, dpAdapt, adVars, dpRegisters, dpRaised,
                   dpUsed>>

CloseScales ==
    /\ dpClosing = "locked"
    /\ dpLock' = "nobody" /\ dpClosing' = "queued"
    /\ ScaleNow(0) /\ dpCalls' = dpCalls + 1 /\ dpWaiting' = TRUE
    /\ UNCHANGED <<dpStatus, dpAt, dpToClose, dpToOpen, dpWorkers, dpUnstarted, dpUser,
                   dpAdapt, adVars, dpKnown, dpRegisters, dpRaised, dpUsed>>

\* Every worker ever constructed must be closed, or an assertion fails and the
\* status stays "closing".
CloseEnds ==
    /\ dpClosing = "ended" /\ dpUnstarted = {}
    /\ dpStatus' = "closed" /\ dpClosing' = "idle"
    /\ UNCHANGED <<specVars, corrVars, dpCalls, dpWaiting, dpUser, dpAdapt, adVars,
                   dpKnown, dpRegisters, dpRaised, dpUsed>>

DpNext ==
    \/ StartCluster
    \/ \E n \in 0..MaxName + 1 : UserScales(n)
    \/ UserEdits
    \/ CorrectState \/ CorrectBegins \/ CorrectRetired \/ CorrectCompares
    \/ CorrectConstructs \/ CorrectOpens
    \/ \E needed \in Needs, target \in {0, Maximum} : Adapt(needed, target)
    \/ ScaleDown \/ AdaptEnds
    \/ CloseBegins \/ CloseLocks \/ CloseScales \/ CloseEnds

-----------------------------------------------------------------------------

\* No correction runs or waits, and none has been asked for.
AtRest ==
    /\ dpStatus # "created" /\ dpUser = NoTarget
    /\ dpCalls = 0 /\ ~ dpWaiting /\ dpAt = "idle"

\* Whenever a worker may be started, stopped or asked for while a correction is
\* awaiting, the cluster ends up with exactly the workers it is told to have: a
\* cluster at rest has the workers of its specification, unless an exception has
\* ended the last correction or scale_down half way (_correct_state_internal).
SpecIsMet == AtRest /\ ~ dpRaised => dpWorkers = Range(dpSpec)

\* Adaptive retires a worker only after it has been suggested in more than
\* wait_count recommendations in a row, none of which asked for more workers or
\* left it out (recommendations, close_counts).
RetiredOnlyInARow == dpAdapt = "retiring" => \A w \in dpDown : dpStreak[w] > WaitCount
=============================================================================
