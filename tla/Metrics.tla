------------------------------ MODULE Metrics -------------------------------
(* The statistical profilers: the thread that watches the event loop of a    *)
(* Server (profile.watch), and the periodic callbacks of a Worker            *)
(* (trigger_profile, cycle_profile), which also keep a profile of each group *)
(* of keys.  Samples are collected in a tree of call stacks, and trees of    *)
(* periods are merged when a range of time is asked for.                     *)
(*                                                                           *)
(* What a process measures of itself: the share of time that garbage         *)
(* collection takes (GCDiagnosis, FractionalTimer), the throttled collection *)
(* of a Worker short of memory (ThrottledGC), and the samples of its         *)
(* SystemMonitor, which a dashboard reads.                                   *)
EXTENDS Naturals, Sequences, FiniteSets, SequencesExt, FiniteSetsExt, Integers

CONSTANTS Stacks,      \* the call stacks, outermost function first
          ProfiledKeys, \* the groups of keys (key_split)
          LogLength,   \* maxlen of the histories
          MaxSamples,  \* bound on the samples
          MaxCycles    \* bound on the periods

VARIABLES pfClock,    \* time(): a sample or a period takes one unit
          pfSamples,  \* every sample taken: its time, key and stack
          pfCycles,   \* the times at which periods ended
          loopRecent, \* _watch: recent
          loopLog,    \* its log: the periods' ends and trees
          workRecent, \* profile_recent
          workLog,    \* profile_history
          keyRecent,  \* profile_keys
          keyLog      \* profile_keys_history

loopProfile == <<loopRecent, loopLog>>
workProfile == <<workRecent, workLog, keyRecent, keyLog>>
pfVars == <<pfClock, pfSamples, pfCycles, loopProfile, workProfile>>
-----------------------------------------------------------------------------
(* A tree: the counts of its nodes, each named by its path from the root.    *)
CreateTree == [path \in {<<>>} |-> 0]
CountAt(tree, path) == IF path \in DOMAIN tree THEN tree[path] ELSE 0

(* process: the nodes on the stack are made, and all but the last counted;   *)
(* the last is counted unless the low-level profiler is to go on from it.    *)
ProcessInner(tree, stack, whole) ==  \* mistake: only where the sample was taken
    [path \in DOMAIN tree \cup Prefixes(stack) |->
        CountAt(tree, path) + (IF path = stack THEN 1 ELSE 0)]
Process(tree, stack, whole) ==
    [path \in DOMAIN tree \cup Prefixes(stack) |->
        CountAt(tree, path) + (IF path \in Prefixes(stack) /\ (whole \/ path # stack) THEN 1 ELSE 0)]

(* merge, of a sequence of trees.                                            *)
MergeTrees(trees) ==
    [path \in {<<>>} \cup UNION {DOMAIN trees[i] : i \in DOMAIN trees} |->
        MapThenSumSet(LAMBDA i : CountAt(trees[i], path), DOMAIN trees)]

(* A deque with a maximal length.                                            *)
Logged(log, entry) ==
    IF Len(log) = LogLength THEN Append(Tail(log), entry) ELSE Append(log, entry)

(* plot_data, in units of samples: a node starts at the left side of its     *)
(* parent, behind its siblings before it; nodes without a count are left out.*)
ChildrenOf(tree, path) == {p \in DOMAIN tree : Len(p) = Len(path) + 1 /\ IsPrefix(path, p)}
SiblingsBefore(tree, path) ==
    LET siblings == SetToSeq(ChildrenOf(tree, Front(path)))
        place == CHOOSE n \in DOMAIN siblings : siblings[n] = path
    IN  {siblings[i] : i \in 1..(place - 1)}
LeftOf(tree, path) ==
    LET Offset(n) == MapThenSumSet(LAMBDA p : tree[p], SiblingsBefore(tree, SubSeq(path, 1, n)))
    IN  MapThenSumSet(Offset, 1..Len(path))
PlotData(tree) ==
    {[path |-> p, left |-> LeftOf(tree, p), right |-> LeftOf(tree, p) + tree[p]] :
        p \in {q \in DOMAIN tree : tree[q] > 0}}
-----------------------------------------------------------------------------
(* get_profile: the periods from the one that start lies in to the one that  *)
(* stop lies in (bisect on the times at which they ended), all of them if    *)
(* there is no such limit; toEnd when that includes the last one.            *)
NoLimit == MaxSamples + MaxCycles + 1
EndedBefore(history, time) == Cardinality({i \in DOMAIN history : history[i].at < time})
FirstPeriod(history, start) == EndedBefore(history, start) + 1
LastPeriodEnded(history, stop) == EndedBefore(history, stop)  \* mistake: not the one it lies in
LastPeriod(history, stop) == EndedBefore(history, stop) + 1
ToEnd(history, stop) == LastPeriod(history, stop) >= Len(history)
Selected(history, start, stop) ==
    SubSeq(history, FirstPeriod(history, start),
           IF ToEnd(history, stop) THEN Len(history) ELSE LastPeriod(history, stop))
TreesOf(periods) == [i \in DOMAIN periods |-> periods[i].tree]
GetLoopProfile(start, stop) == MergeTrees(TreesOf(Selected(loopLog, start, stop)))

(* Worker.get_profile: the current period counts too when the last one does. *)
WithRecent(history, recent, start, stop) ==
    LET periods == Selected(history, start, stop)
    IN  IF periods = <<>> THEN CreateTree
        ELSE IF ToEnd(history, stop) /\ start < pfClock
        THEN MergeTrees(Append(TreesOf(periods), recent))
        ELSE MergeTrees(TreesOf(periods))
GetProfile(start, stop) == WithRecent(workLog, workRecent, start, stop)
KeyHistory(key) ==
    LET found == SelectSeq(keyLog, LAMBDA e : key \in DOMAIN e.trees)
    IN  [i \in DOMAIN found |-> [at |-> found[i].at, tree |-> found[i].trees[key]]]
KeyTree(trees, key) == IF key \in DOMAIN trees THEN trees[key] ELSE CreateTree
GetKeyProfile(key, start, stop) == WithRecent(KeyHistory(key), KeyTree(keyRecent, key), start, stop)
-----------------------------------------------------------------------------
NoKeys == [key \in {} |-> CreateTree]
PfInit ==
    /\ pfClock = 0 /\ pfSamples = {} /\ pfCycles = {}
    /\ loopRecent = CreateTree /\ loopLog = <<>>
    /\ workRecent = CreateTree /\ workLog = <<>> /\ keyRecent = NoKeys /\ keyLog = <<>>

(* _watch: a sample of the thread, and trigger_profile: one of a thread that *)
(* computes a task.                                                          *)
WatchThread(stack) == loopRecent' = Process(loopRecent, stack, TRUE) /\ UNCHANGED loopLog
TriggerProfile(key, stack) ==
    /\ workRecent' = Process(workRecent, stack, FALSE)
    /\ keyRecent' = [k \in DOMAIN keyRecent \cup {key} |->
                        IF k = key THEN Process(KeyTree(keyRecent, k), stack, FALSE) ELSE keyRecent[k]]
    /\ UNCHANGED <<workLog, keyLog>>
Sample(key, stack) ==
    /\ Cardinality(pfSamples) < MaxSamples
    /\ pfClock' = pfClock + 1
    /\ pfSamples' = pfSamples \cup {[at |-> pfClock + 1, key |-> key, stack |-> stack]}
    /\ WatchThread(stack) /\ TriggerProfile(key, stack)
    /\ UNCHANGED pfCycles

(* _watch at the end of its cycle, and cycle_profile.                        *)
KeysKept == keyRecent  \* mistake: the profiles of keys go on
KeysAfterCycle == NoKeys
LoopCycle(now) ==
    /\ loopLog' = Logged(loopLog, [at |-> now, tree |-> loopRecent])
    /\ loopRecent' = CreateTree
CycleProfile(now) ==
    /\ workLog' = Logged(workLog, [at |-> now, tree |-> workRecent])
    /\ workRecent' = CreateTree
    /\ keyLog' = Logged(keyLog, [at |-> now, trees |-> keyRecent])
    /\ keyRecent' = KeysAfterCycle
EndPeriod ==
    /\ Cardinality(pfCycles) < MaxCycles
    /\ pfClock' = pfClock + 1
    /\ pfCycles' = pfCycles \cup {pfClock + 1}
    /\ LoopCycle(pfClock + 1) /\ CycleProfile(pfClock + 1)
    /\ UNCHANGED pfSamples

PfNext == EndPeriod \/ \E key \in ProfiledKeys, stack \in Stacks : Sample(key, stack)
-----------------------------------------------------------------------------
(* The periods kept (nothing tells when the first of them began), and the    *)
(* samples of those that the range touches.                                  *)
KeptCycles == {c \in pfCycles : Cardinality({d \in pfCycles : d >= c}) <= LogLength}
EndOf(s) == Min({c \in pfCycles : c > s.at})
BeginOf(s) == Max({0} \cup {c \in KeptCycles : c < s.at})
Ended(s) == \E c \in pfCycles : c > s.at
Touched(start, stop) ==
    {s \in pfSamples : Ended(s) /\ EndOf(s) \in KeptCycles /\ EndOf(s) >= start /\ BeginOf(s) < stop}
Counts(tree, samples, whole) ==
    \A path \in DOMAIN tree :
        tree[path] = Cardinality({s \in samples : IsPrefix(path, s.stack) /\ (whole \/ path # s.stack)})

(* Whatever range of time is asked of the event loop's profile, in whatever  *)
(* periods the samples were taken, each node counts exactly the samples of   *)
(* the periods the range touches: none in the range is missed, and none is   *)
(* counted twice.                                                            *)
RangeHasItsSamples ==
    \A start \in 0..pfClock, stop \in {NoLimit} \cup (1..pfClock) :
        start <= stop => Counts(GetLoopProfile(start, stop), Touched(start, stop), TRUE)

(* The profiles of the keys add up to the profile of the Worker, in the      *)
(* current period and in each one kept.                                      *)
TreesOfKeys(trees) == LET keys == SetToSeq(DOMAIN trees) IN [i \in DOMAIN keys |-> trees[keys[i]]]
KeysAddUp ==
    /\ MergeTrees(TreesOfKeys(keyRecent)) = workRecent
    /\ \A i \in DOMAIN workLog : MergeTrees(TreesOfKeys(keyLog[i].trees)) = workLog[i].tree

(* Asked without limits, a Worker that has ended a period (in which the key  *)
(* ran, if one is given) counts every sample of the periods kept and of the  *)
(* current one.                                                              *)
CurrentSamples == {s \in pfSamples : ~Ended(s)} \cup Touched(0, NoLimit)
WholeProfile ==
    /\ workLog # <<>> => Counts(GetProfile(0, NoLimit), CurrentSamples, FALSE)
    /\ \A k \in ProfiledKeys :
          KeyHistory(k) # <<>> =>
              Counts(GetKeyProfile(k, 0, NoLimit), {s \in CurrentSamples : s.key = k}, FALSE)

(* In the picture plot_data makes of a profile, a function lies within its   *)
(* caller, and no two others overlap.                                        *)
PictureNested ==
    \A tree \in {loopRecent, workRecent} : \A b, c \in PlotData(tree) :
        IF IsPrefix(c.path, b.path) THEN c.left <= b.left /\ b.right <= c.right
        ELSE IsPrefix(b.path, c.path) \/ b.right <= c.left \/ c.right <= b.left
-----------------------------------------------------------------------------
CONSTANTS NSamples,      \* N_SAMPLES of the FractionalTimer
          MaxThreadTime, \* the thread clocks read 0..MaxThreadTime
          MaxMeasured,   \* bound on the collections measured
          MaxUsers,      \* bound on enable_gc_diagnosis
          FracNum, FracDen, \* max_in_gc_frac
          MaxGcTime,     \* bound on the clock of the Worker's thread
          MonitorLength, \* n of the SystemMonitor
          MaxUpdates     \* bound on its samples

VARIABLES gcUsers,    \* _gc_diagnosis_users
          gcEnabled,  \* _enabled
          curStart,   \* _cur_start, -1 for None
          startStops, \* _start_stops
          durations,  \* _durations
          runningSum, \* _running_sum, -1 for None
          fraction,   \* _running_fraction, <<0, 0>> for None
          accepted,   \* every measurement the timer has taken account of
          collecting, \* a full collection is under way: the time it began, or -1
          collected,  \* the number of full collections
          gcClock,    \* the clock of the thread that calls collect
          lastCollect,\* last_collect
          lastGcTime, \* last_gc_duration
          earlierGc,  \* the durations of the collections before the last one
          monCount,   \* SystemMonitor.count
          monCpu,     \* its deque cpu: the numbers of the samples
          monRead,    \* its deque read_bytes
          monLast,    \* last, of the dashboard
          monShown    \* the samples it has shown

diagnosis == <<gcUsers, gcEnabled>>
timer == <<curStart, startStops, durations, runningSum, fraction, accepted>>
gcVars == <<diagnosis, timer, collecting, collected>>
throttle == <<gcClock, lastCollect, lastGcTime, earlierGc>>
monitor == <<monCount, monCpu, monRead, monLast, monShown>>
msVars == <<gcVars, throttle, monitor>>

MsInit ==
    /\ gcUsers = 0 /\ gcEnabled = FALSE /\ collecting = -1 /\ collected = 0
    /\ curStart = -1 /\ startStops = <<>> /\ durations = <<>> /\ runningSum = -1
    /\ fraction = <<0, 0>> /\ accepted = <<>>
    /\ gcClock = 0 /\ lastCollect = 0 /\ lastGcTime = 0 /\ earlierGc = 0
    /\ monCount = 1 /\ monCpu = <<1>> /\ monRead = <<1>> /\ monLast = 0 /\ monShown = <<>>

Total(s) == FoldSeq(LAMBDA x, y : x + y, 0, s)
-----------------------------------------------------------------------------
(* enable_gc_diagnosis: the first user gets a new timer.                     *)
Enable ==
    /\ gcUsers < MaxUsers
    /\ gcUsers' = gcUsers + 1
    /\ gcEnabled' = TRUE
    /\ IF gcUsers > 0 THEN UNCHANGED timer
       ELSE /\ curStart' = -1 /\ startStops' = <<>> /\ durations' = <<>> /\ runningSum' = -1
            /\ fraction' = <<0, 0>> /\ accepted' = <<>>
    /\ UNCHANGED <<collecting, collected>>

(* disable_gc_diagnosis.                                                     *)
Disable(force) ==
    /\ gcUsers > 0
    /\ gcUsers' = IF force THEN 0 ELSE gcUsers - 1
    /\ gcEnabled' = (gcUsers' > 0)
    /\ UNCHANGED <<timer, collecting, collected>>

(* _gc_callback at the start of a full collection, in some thread, whose     *)
(* clock is its own.                                                         *)
GcStarts(now) ==
    /\ collecting = -1 /\ collected < MaxMeasured
    /\ collecting' = now
    /\ collected' = collected + 1
    /\ curStart' = IF gcEnabled /\ curStart = -1 THEN now ELSE curStart
    /\ UNCHANGED <<startStops, durations, runningSum, fraction, accepted, diagnosis>>

(* _add_measurement.                                                         *)
MonotonicAlways(start, stop) == TRUE  \* mistake: clocks that went back are not noticed
Monotonic(start, stop) == start <= stop /\ (startStops # <<>> => start >= Last(startStops)[2])
DropsOldest == runningSum # -1 /\ Len(durations) + 1 >= NSamples
AddMeasurement(start, stop) ==
    LET duration == stop - start
        all == Append(durations, duration)
    IN  /\ accepted' = Append(accepted, <<start, stop>>)
        /\ IF DropsOldest
           THEN LET window == stop - Head(startStops)[2]
                IN  /\ startStops' = Append(Tail(startStops), <<start, stop>>)
                    /\ durations' = Tail(all)
                    /\ runningSum' = runningSum + duration - Head(all)
                    /\ fraction' = IF window = 0 THEN fraction ELSE <<runningSum', window>>
           ELSE /\ startStops' = Append(startStops, <<start, stop>>)
                /\ durations' = all
                /\ runningSum' = IF Len(all) >= NSamples THEN Total(all) ELSE runningSum
                /\ UNCHANGED fraction

(* _gc_callback at its end: stop_timing fails if timing was not started.     *)
GcStops(now) ==
    /\ collecting # -1 /\ now >= collecting
    /\ collecting' = -1
    /\ curStart' = IF gcEnabled THEN -1 ELSE curStart
    /\ IF gcEnabled /\ curStart # -1 /\ Monotonic(curStart, now) THEN AddMeasurement(curStart, now)
       ELSE UNCHANGED <<startStops, durations, runningSum, fraction, accepted>>
    /\ UNCHANGED <<diagnosis, collected>>
-----------------------------------------------------------------------------
(* ThrottledGC.collect, after a while and for some time; MIN_RUNTIME is 1.   *)
ElapsedSinceEnd(now) == Max({now - lastCollect + lastGcTime, 1})  \* mistake: counts the collection twice
Elapsed(now) == Max({now - lastCollect, 1})
Collects(now) == lastGcTime * FracDen < FracNum * Elapsed(now)
Collect(wait, time) ==
    LET now == gcClock + wait
    IN  /\ gcClock' = now + time
        /\ gcClock' <= MaxGcTime
        /\ IF Collects(now)
           THEN /\ lastCollect' = now
                /\ lastGcTime' = Max({time, 1})
                /\ earlierGc' = earlierGc + lastGcTime
           ELSE /\ time = 0
                /\ UNCHANGED <<lastCollect, lastGcTime, earlierGc>>
-----------------------------------------------------------------------------
(* SystemMonitor.update; the counters of the network may not be available.   *)
Kept(deque, x) == IF Len(deque) = MonitorLength THEN Append(Tail(deque), x) ELSE Append(deque, x)
Update(netWorks) ==
    /\ monCount < MaxUpdates
    /\ monCount' = monCount + 1
    /\ monCpu' = Kept(monCpu, monCount + 1)
    /\ monRead' = IF netWorks THEN Kept(monRead, monCount + 1) ELSE monRead
    /\ UNCHANGED <<monLast, monShown>>

(* The dashboard reads the samples since its last query (range_query), which *)
(* fails as long as an entry is missing in one of the deques.                *)
FirstIndexShort(start) == Max({0, start - monCount + Len(monCpu) - 1})  \* mistake: one too many
FirstIndex(start) == Max({0, start - (monCount - Len(monCpu))})
RangeQuery(start) ==
    IF start = monCount THEN <<>> ELSE SubSeq(monCpu, FirstIndex(start) + 1, Len(monCpu))
Show ==
    /\ monLast < monCount /\ Len(monRead) = Len(monCpu)
    /\ monShown' = monShown \o RangeQuery(monLast)
    /\ monLast' = monCount
    /\ UNCHANGED <<monCount, monCpu, monRead>>

DiagnosisNext ==
    \/ Enable \/ \E force \in BOOLEAN : Disable(force)
    \/ \E now \in 0..MaxThreadTime : GcStarts(now) \/ GcStops(now)
ThrottleNext == \E wait \in 0..MaxGcTime, time \in 0..MaxGcTime : Collect(wait, time)
MonitorNext == Show \/ \E netWorks \in BOOLEAN : Update(netWorks)
-----------------------------------------------------------------------------
(* Whichever threads collect garbage, whosever clock reads less than another *)
(* one before it, and whenever the diagnosis is switched off and on, the     *)
(* share reported is that of the last NSamples measurements in the time      *)
(* since the one before them, and is no more than the whole.                 *)
ShareIsExact ==
    LET n == Len(accepted)
        durationOf(i) == accepted[i][2] - accepted[i][1]
    IN  /\ runningSum # -1 => runningSum = Total(durations)
        /\ fraction[1] <= fraction[2]
        /\ n > NSamples /\ accepted[n][2] > accepted[n - NSamples][2] =>
              fraction = <<MapThenSumSet(durationOf, (n - NSamples + 1)..n),
                           accepted[n][2] - accepted[n - NSamples][2]>>

(* However long collections take and however often they are asked for, those *)
(* before the last took no more than their share of the time until it.       *)
GcIsThrottled == earlierGc * FracDen <= FracNum * lastCollect

(* A dashboard that asks from the count of its last query on shows the       *)
(* samples in order and up to the newest one, none twice, and misses some    *)
(* only when it gets a whole deque that has dropped them.                    *)
EachSampleShown ==
    /\ monLast > 0 => Last(monShown) = monLast
    /\ \A i \in DOMAIN monShown :
          LET before == IF i = 1 THEN 0 ELSE monShown[i - 1]
          IN  /\ before < monShown[i]
              /\ before + 1 < monShown[i] => i + MonitorLength - 1 <= Len(monShown)
=============================================================================
