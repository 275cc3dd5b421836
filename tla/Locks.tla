------------------------------- MODULE Locks -------------------------------
(* lock.py: one named lock, kept by the Scheduler's LockExtension and used   *)
(* by Lock objects.  Callbacks of the event loop run in between.             *)
EXTENDS Naturals, Sequences, SequencesExt

CONSTANTS LockIds,     \* the Lock objects
          NoLock,      \* nobody holds the lock
          MaxExpired   \* bound: acquires that time out

VARIABLES holder,   \* ids[name]
          events,   \* events[name]: whose event it is, or NoLock if nobody waits for it
          waiter,   \* waiter[i]: where the acquire of i is
          setting,  \* the events whose set is among the callbacks
          locked,   \* the _locked of each Lock object
          expired,  \* acquires that timed out
          clashes   \* assertions that failed

lockVars == <<holder, events, waiter, setting, locked, expired, clashes>>

LocksInit ==
    /\ holder = NoLock /\ events = <<>> /\ setting = {}
    /\ waiter = [i \in LockIds |-> "none"] /\ locked = [i \in LockIds |-> FALSE]
    /\ expired = 0 /\ clashes = 0

(* What the acquire of i does whenever it finds the lock free or not.        *)
Attempt(i, evs) ==
    IF holder = NoLock
    THEN /\ holder' = i /\ events' = evs
         /\ waiter' = [waiter EXCEPT ![i] = "none"] /\ locked' = [locked EXCEPT ![i] = TRUE]
    ELSE /\ events' = Append(evs, i)
         /\ waiter' = [waiter EXCEPT ![i] = "waiting"] /\ UNCHANGED <<holder, locked>>

Acquire(i) ==
    /\ waiter[i] = "none" /\ ~locked[i]
    /\ Attempt(i, events)
    /\ UNCHANGED <<setting, expired, clashes>>

(* release of one that has the lock, or believes so (Lock.acquire sets      *)
(* _locked whatever the answer), which is refused.  The first event is set   *)
(* by a callback.                                                            *)
WakesNobody == {}  \* mistake: nobody is woken
WakesLast == IF events = <<>> THEN {} ELSE {Last(events)} \ {NoLock}  \* mistake: the wrong end
WakesFirst == IF events = <<>> THEN {} ELSE {Head(events)} \ {NoLock}
ReleaseLock(i) ==
    /\ waiter[i] = "none" /\ locked[i]
    /\ IF holder = i
       THEN /\ holder' = NoLock /\ locked' = [locked EXCEPT ![i] = FALSE]
            /\ setting' = setting \cup WakesFirst
       ELSE UNCHANGED <<holder, locked, setting>>
    /\ UNCHANGED <<events, waiter, expired, clashes>>

(* The callback.                                                             *)
SetEvent(i) ==
    /\ i \in setting
    /\ setting' = setting \ {i}
    /\ waiter' = [waiter EXCEPT ![i] = "woken"]
    /\ UNCHANGED <<holder, events, locked, expired, clashes>>

(* A coroutine that has waited takes the first event off the deque, and      *)
(* asserts that it is its own; otherwise its call fails.  It waits on a new  *)
(* event the next time, so setting the old one is of no use any more.        *)
Clash(i) == events = <<>> \/ Head(events) # i
Popped(i) ==
    LET rest == IF events = <<>> THEN <<>> ELSE Tail(events)
    IN  [n \in DOMAIN rest |-> IF rest[n] = i THEN NoLock ELSE rest[n]]
Woken(i) ==
    /\ waiter[i] = "woken"
    /\ IF Clash(i)
       THEN /\ events' = Popped(i) /\ waiter' = [waiter EXCEPT ![i] = "none"]
            /\ clashes' = clashes + 1 /\ UNCHANGED <<holder, locked>>
       ELSE Attempt(i, Popped(i)) /\ UNCHANGED clashes
    /\ setting' = setting \ {i}
    /\ UNCHANGED expired

TimesOut(i) ==
    /\ waiter[i] = "waiting" /\ expired < MaxExpired
    /\ expired' = expired + 1
    /\ events' = Popped(i)
    /\ waiter' = [waiter EXCEPT ![i] = "none"]
    /\ locked' = IF Clash(i) THEN locked ELSE [locked EXCEPT ![i] = TRUE]
    /\ clashes' = IF Clash(i) THEN clashes + 1 ELSE clashes
    /\ setting' = setting \ {i}
    /\ UNCHANGED holder

LocksNext ==
    \E i \in LockIds :
        Acquire(i) \/ ReleaseLock(i) \/ SetEvent(i) \/ Woken(i) \/ TimesOut(i)
-----------------------------------------------------------------------------
(* Nobody sleeps beside a free lock: somebody who waits is being woken, as   *)
(* long as no acquire times out (then the deque is popped at the wrong end,  *)
(* or the event that is set belongs to one that has left).                   *)
NobodySleepsByFreeLock ==
    (expired = 0 /\ holder = NoLock /\ \E i \in LockIds : waiter[i] = "waiting")
        => \E i \in LockIds : i \in setting \/ waiter[i] = "woken"

(* The assertion on the deque holds until some acquire times out.            *)
DequeInOrder == expired = 0 => clashes = 0
=============================================================================
