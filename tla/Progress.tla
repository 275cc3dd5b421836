------------------------------ MODULE Progress ------------------------------
(***************************************************************************)
(* Scheduler plugins that follow the tasks (diagnostics/progress.py) and   *)
(* the progress bar that is fed from one of them (diagnostics/progressbar, *)
(* Scheduler.feed).                                                        *)
(*                                                                         *)
(* Plugins learn of a task from transition(key, start, finish), which the  *)
(* Scheduler calls after each of its transitions.  Two changes of a state  *)
(* are no transitions and are not told: update_graph sets every task to    *)
(* processing, and the task-erred message of an Executor sets the state of *)
(* the task alone.  pgSilent are the keys this has happened to.            *)
(*                                                                         *)
(* A task is never held by a worker (who_has is empty), so dependent_keys  *)
(* stops at failed tasks only.                                             *)
(***************************************************************************)
EXTENDS Integers, FiniteSets

CONSTANTS
    PgKeys, PgDeps,  \* the tasks and what each depends on
    PgGroup,         \* key_split: the group of a key
    PgWanted,        \* the keys a progress bar is made for
    MaxMoves         \* bound on the steps of the Scheduler

VARIABLES
    pgState,    \* state of each task at the Scheduler
    pgFailed,   \* tasks with an exception
    pgSilent,   \* tasks whose state was changed without a transition
    pgMulti,    \* is the plugin of the bar a MultiProgress?
    pgComplete, \* its option complete
    pgAttached, \* is it among the Scheduler's plugins?
    pgRest,     \* its keys: not computed yet
    pgAll,      \* its all_keys
    pgStatus,   \* its status
    pgSeen,     \* tracked keys that have come into memory since
    pgWhy,      \* what made it stop
    pgBar,      \* the bar and the status it has read
    pgFeed,     \* Scheduler.feed for the bar
    apOn, apAll, apState,   \* AllProgress: all and state
    gpKeys, gpGroups,       \* GroupProgress: keys and groups
    pgMoves

barVars == <<pgMulti, pgComplete, pgAttached, pgRest, pgAll, pgStatus, pgSeen, pgWhy>>
pgVars == <<pgState, pgFailed, pgSilent, barVars, pgBar, pgFeed, apOn, apAll, apState,
            gpKeys, gpGroups, pgMoves>>

PgStates == {"released", "waiting", "processing", "memory", "erred"}
Groups == {PgGroup[k] : k \in PgKeys}
Present == {k \in PgKeys : pgState[k] # "unknown"}
InGroup(g) == {k \in PgKeys : PgGroup[k] = g}

NoGroup == [s \in PgStates |-> 0]

PgInit ==
    /\ pgState = [k \in PgKeys |-> "unknown"] /\ pgFailed = {} /\ pgSilent = {}
    /\ pgMulti \in BOOLEAN /\ pgComplete \in BOOLEAN
    /\ pgAttached = FALSE /\ pgRest = PgWanted /\ pgAll = {} /\ pgStatus = "none"
    /\ pgSeen = {} /\ pgWhy = ""
    /\ pgBar = "listening" /\ pgFeed = "setup"
    /\ apOn = FALSE /\ apAll = {} /\ apState = [s \in PgStates |-> {}]
    /\ gpKeys = [g \in Groups |-> {}] /\ gpGroups = [g \in Groups |-> NoGroup]
    /\ pgMoves = 0

-----------------------------------------------------------------------------
(* Progress and MultiProgress *)

\* dependent_keys: everything below these keys; without complete a failed task
\* is not among them and hides what is below it.
Below(keys, hidden) ==
    LET B[n \in Nat] ==
          IF n = 0 THEN keys \ hidden
          ELSE B[n - 1] \cup (UNION {PgDeps[k] : k \in B[n - 1]} \ hidden)
    IN  B[Cardinality(PgKeys)]
DependentKeys(keys, complete) == Below(keys, IF complete THEN {} ELSE pgFailed)
DependentErrors(keys, complete) ==
    LET out == DependentKeys(keys, complete)
    IN  (keys \cup UNION {PgDeps[k] : k \in out}) \cap pgFailed

\* stop: the plugin leaves the Scheduler.
StopStatus(exception) == IF exception THEN "error" ELSE "finished"

\* setup, once all keys are known to the Scheduler: the same in both, but for
\* the groups MultiProgress makes of the keys.
Setup ==
    /\ pgFeed = "setup" /\ PgWanted \subseteq Present
    /\ LET errors == DependentErrors(PgWanted, pgComplete)
           all == DependentKeys(PgWanted, pgComplete) \cup PgWanted
           rest == DependentKeys(PgWanted, FALSE) \cup (errors \cap all)
           failed == errors \cap all # {}
       IN  /\ pgAll' = all /\ pgRest' = rest
           /\ pgAttached' = (rest # {} /\ ~ failed)
           /\ pgStatus' = IF failed THEN "error" ELSE IF rest = {} THEN "finished" ELSE "none"
    /\ pgSeen' = {} /\ pgWhy' = "" /\ pgFeed' = "running"
    /\ UNCHANGED <<pgState, pgFailed, pgSilent, pgMulti, pgComplete, pgBar, apOn, apAll,
                   apState, gpKeys, gpGroups, pgMoves>>

ProgressSetup == ~ pgMulti /\ Setup
MultiSetup == pgMulti /\ Setup

\* Bug: any transition into memory takes the key away, the remaining ones are
\* not looked at.
RestAfterAny(k, start, finish) == IF finish = "memory" THEN {} ELSE pgRest

\* The keys that remain after a transition.
RestAfter(k, start, finish) ==
    IF start = "processing" /\ finish = "memory" THEN pgRest \ {k} ELSE pgRest

Computed(start, finish) == start = "processing" /\ finish = "memory"

\* Why a transition makes Progress stop.  A dependent that fails has no exception
\* of its own: the method raises, and the Scheduler ignores that.
ProgressStops(k, start, finish, exception) ==
    IF finish = "forgotten" /\ k \in pgRest THEN "forgotten"
    ELSE IF finish = "erred" /\ k \in pgAll /\ exception THEN "erred"
    ELSE IF Computed(start, finish) /\ k \in pgRest /\ RestAfter(k, start, finish) = {}
    THEN "memory" ELSE ""

\* MultiProgress stops for any of its keys that fails or is forgotten, and looks
\* at what remains whichever task has been computed.
MultiStops(k, start, finish) ==
    IF finish = "forgotten" /\ k \in pgAll THEN "forgotten"
    ELSE IF finish = "erred" /\ k \in pgAll THEN "erred"
    ELSE IF Computed(start, finish) /\ RestAfter(k, start, finish) = {} THEN "memory" ELSE ""

BarTransition(k, start, finish, exception) ==
    LET why == IF pgMulti THEN MultiStops(k, start, finish)
               ELSE ProgressStops(k, start, finish, exception)
    IN  IF ~ pgAttached THEN UNCHANGED barVars
        ELSE /\ pgRest' = RestAfter(k, start, finish)
             /\ pgSeen' = IF Computed(start, finish) THEN pgSeen \cup ({k} \cap pgAll)
                          ELSE pgSeen
             /\ pgWhy' = why /\ pgAttached' = (why = "")
             /\ pgStatus' = IF why = "" THEN pgStatus
                            ELSE StopStatus(why = "forgotten" \/ (why = "erred" /\ exception))
             /\ UNCHANGED <<pgMulti, pgComplete, pgAll>>

-----------------------------------------------------------------------------
(* AllProgress, fed to the dashboard, and GroupProgress *)

AllStart ==
    /\ ~ apOn /\ apOn' = TRUE
    /\ apAll' = Present /\ apState' = [s \in PgStates |-> {k \in Present : pgState[k] = s}]
    /\ UNCHANGED <<pgState, pgFailed, pgSilent, barVars, pgBar, pgFeed, gpKeys, gpGroups,
                   pgMoves>>

\* The stream is closed: feed tears down, remove_plugin.
AllStop ==
    /\ apOn /\ apOn' = FALSE /\ apAll' = {} /\ apState' = [s \in PgStates |-> {}]
    /\ UNCHANGED <<pgState, pgFailed, pgSilent, barVars, pgBar, pgFeed, gpKeys, gpGroups,
                   pgMoves>>

\* Bug: the key stays where it was.
MovedFromNot(k, start) == apState

MovedFrom(k, start) == [apState EXCEPT ![start] = @ \ {k}]

\* A prefix without keys is taken out of every state.
AllTransition(k, start, finish) ==
    LET moved == MovedFrom(k, start)
        left == (apAll \cup {k}) \ {k}
        gone == IF left \cap InGroup(PgGroup[k]) = {} THEN InGroup(PgGroup[k]) ELSE {}
    IN  IF ~ apOn THEN UNCHANGED <<apAll, apState>>
        ELSE IF finish = "forgotten"
        THEN apAll' = left /\ apState' = [s \in PgStates |-> moved[s] \ gone]
        ELSE apAll' = apAll \cup {k} /\ apState' = [moved EXCEPT ![finish] = @ \cup {k}]

GroupTransition(k, start, finish) ==
    LET g == PgGroup[k]
        known == k \in gpKeys[g]
        out == IF known THEN [gpGroups[g] EXCEPT ![start] = @ - 1] ELSE gpGroups[g]
        keys == IF finish = "forgotten" THEN gpKeys[g] \ {k} ELSE gpKeys[g] \cup {k}
    IN  /\ gpKeys' = [gpKeys EXCEPT ![g] = keys]
        /\ gpGroups' =
             [gpGroups EXCEPT ![g] =
                IF finish # "forgotten" THEN [out EXCEPT ![finish] = @ + 1]
                ELSE IF keys = {} THEN NoGroup ELSE out]

-----------------------------------------------------------------------------
(* The Scheduler *)

\* The transitions the Scheduler's table allows.
PgMoves == {<<"processing", "memory">>, <<"memory", "released">>, <<"released", "waiting">>,
            <<"waiting", "processing">>, <<"waiting", "released">>,
            <<"processing", "released">>, <<"processing", "erred">>,
            <<"released", "erred">>, <<"erred", "released">>,
            <<"released", "forgotten">>, <<"memory", "forgotten">>,
            <<"erred", "forgotten">>}

\* transition tells every plugin; an exception goes with the failing task, and
\* not with the dependents that fail with it.
Transition(k, move, exception) ==
    /\ pgMoves < MaxMoves /\ pgMoves' = pgMoves + 1
    /\ pgState[k] = move[1]
    /\ exception => move = <<"processing", "erred">>
    /\ pgState' = [pgState EXCEPT ![k] = IF move[2] = "forgotten" THEN "unknown" ELSE move[2]]
    /\ pgFailed' = IF exception THEN pgFailed \cup {k}
                   ELSE IF move[2] = "forgotten" \/ move = <<"erred", "released">>
                   THEN pgFailed \ {k} ELSE pgFailed
    /\ pgSilent' = IF move[2] = "forgotten" THEN pgSilent \ {k} ELSE pgSilent
    /\ BarTransition(k, move[1], move[2], exception)
    /\ AllTransition(k, move[1], move[2])
    /\ GroupTransition(k, move[1], move[2])
    /\ UNCHANGED <<pgBar, pgFeed, apOn>>

\* update_graph: the new tasks, and all tasks are set to processing.
UpdateGraphSilently(keys) ==
    /\ pgMoves < MaxMoves /\ pgMoves' = pgMoves + 1
    /\ keys # {} /\ keys \cap Present = {}
    /\ pgState' = [k \in PgKeys |-> IF k \in keys \cup Present THEN "processing" ELSE pgState[k]]
    /\ pgSilent' = pgSilent \cup {k \in Present : pgState[k] # "processing"}
    /\ UNCHANGED <<pgFailed, barVars, pgBar, pgFeed, apOn, apAll, apState, gpKeys, gpGroups>>

\* The task-erred message of an Executor.
ErredSilently(k) ==
    /\ pgMoves < MaxMoves /\ pgMoves' = pgMoves + 1
    /\ pgState[k] = "processing"
    /\ pgState' = [pgState EXCEPT ![k] = "erred"] /\ pgSilent' = pgSilent \cup {k}
    /\ UNCHANGED <<pgFailed, barVars, pgBar, pgFeed, apOn, apAll, apState, gpKeys, gpGroups>>

\* Scheduler.restart: the tasks are gone, and every plugin starts anew.
RestartPlugins ==
    /\ pgMoves < MaxMoves /\ pgMoves' = pgMoves + 1
    /\ Present # {}
    /\ pgState' = [k \in PgKeys |-> "unknown"] /\ pgFailed' = {} /\ pgSilent' = {}
    /\ IF pgAttached
       THEN pgAttached' = FALSE /\ pgStatus' = StopStatus(FALSE) /\ pgWhy' = "restart"
       ELSE UNCHANGED <<pgAttached, pgStatus, pgWhy>>
    /\ apAll' = {} /\ apState' = [s \in PgStates |-> {}]
    /\ gpKeys' = [g \in Groups |-> {}] /\ gpGroups' = [g \in Groups |-> NoGroup]
    /\ UNCHANGED <<pgMulti, pgComplete, pgRest, pgAll, pgSeen, pgBar, pgFeed, apOn>>

-----------------------------------------------------------------------------
(* The bar *)

\* feed writes the status every interval; the bar ends with the last one.
Draw ==
    /\ pgFeed = "running" /\ pgBar = "listening"
    /\ pgBar' = IF pgStatus \in {"error", "finished"} THEN pgStatus ELSE "listening"
    /\ UNCHANGED <<pgState, pgFailed, pgSilent, barVars, pgFeed, apOn, apAll, apState, gpKeys,
                   gpGroups, pgMoves>>

DrawBar == ~ pgMulti /\ Draw
DrawMultiBar == pgMulti /\ Draw

\* The bar is deleted before it has ended.
AbortBar ==
    /\ pgBar = "listening" /\ pgBar' = "aborted"
    /\ UNCHANGED <<pgState, pgFailed, pgSilent, barVars, pgFeed, apOn, apAll, apState, gpKeys,
                   gpGroups, pgMoves>>

\* feed finds the comm closed; there is nothing to tear down.
FeedEnds ==
    /\ pgFeed = "running" /\ pgBar # "listening" /\ pgFeed' = "ended"
    /\ UNCHANGED <<pgState, pgFailed, pgSilent, barVars, pgBar, apOn, apAll, apState, gpKeys,
                   gpGroups, pgMoves>>

PgNext ==
    \/ ProgressSetup \/ MultiSetup \/ AllStart \/ AllStop
    \/ \E k \in PgKeys, move \in PgMoves, exception \in BOOLEAN :
          Transition(k, move, exception)
    \/ \E keys \in SUBSET PgKeys : UpdateGraphSilently(keys)
    \/ \E k \in PgKeys : ErredSilently(k)
    \/ RestartPlugins \/ DrawBar \/ DrawMultiBar \/ AbortBar \/ FeedEnds

-----------------------------------------------------------------------------

\* A bar that says finished has seen every key it follows come into memory,
\* unless the Scheduler was restarted or (for MultiProgress) a key failed with a
\* dependency, which has no exception of its own; and a plugin that still waits
\* waits for keys it has not seen (Progress.transition, stop).
BarsTellTheTruth ==
    /\ pgAttached => pgRest # {} /\ pgRest = pgAll \ pgSeen
    /\ pgBar = "finished" => \/ pgAll \subseteq pgSeen
                             \/ pgWhy = "restart"
                             \/ pgWhy = "erred" /\ pgMulti

\* AllProgress has every task in exactly the state the Scheduler has it in, and
\* GroupProgress counts as many tasks of a group as there are, except where a
\* state was changed without a transition (AllProgress.transition,
\* GroupProgress.transition).
PluginsAgree ==
    /\ apOn => \A k \in Present \ pgSilent, s \in PgStates :
                 k \in apAll => (k \in apState[s] <=> pgState[k] = s)
    /\ \A g \in Groups :
         gpGroups[g]["released"] + gpGroups[g]["waiting"] + gpGroups[g]["processing"]
           + gpGroups[g]["memory"] + gpGroups[g]["erred"] = Cardinality(gpKeys[g])
=============================================================================
