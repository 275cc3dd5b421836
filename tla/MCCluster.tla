----------------------------- MODULE MCCluster ------------------------------
(* Small instances of what connects clients, Scheduler and Workers: the      *)
(* connections and streams, and the objects of the client that wait for      *)
(* messages.  The components do not share state, so each behaviour takes the *)
(* steps of one of them: focus.  What each property says, and under which    *)
(* conditions, is stated with its conjuncts in the components' modules.      *)
EXTENDS Locks, SharedFutures, PubSub, BatchedSend, Connections, Rpc, Comms, AsCompleted,
        ClientLife, CfExecutor

VARIABLE focus

(* Messages with empty frames, without frames, and of several writes.        *)
FourMessages == << <<1, 0, 1>>, <<2, 0, 2>>, <<>>, <<0, 3>> >>
TwoMapped == <<"m1", "m2">>

clusterVars == <<lockVars, sharedVars, psVars, batchVars, connVars, rpVars, tcVars, ipVars, acVars,
    clVars, lrVars, cfVars, focus>>

(* A component out of focus rests in one of its initial states.              *)
ClusterInit ==
    /\ focus \in {"locks", "shared", "pubsub", "batched", "pool", "rpc", "tcp", "inproc", "completed", "life", "loop", "executor"}
    /\ LocksInit
    /\ SharedInit
    /\ PubSubInit
    /\ BatchInit
    /\ ConnInit
    /\ RpInit /\ SvInit
    /\ TcInit
    /\ InProcInit
    /\ AcInit /\ (focus # "completed" => acMode = [results |-> FALSE, by |-> "thread"])
    /\ ClInit
    /\ LoopInit /\ (focus # "loop" => lrLoop = "idle")
    /\ CfInit

ClusterNext ==
    \/ /\ focus = "locks" /\ LocksNext
       /\ UNCHANGED <<sharedVars, psVars, batchVars, connVars, rpVars, tcVars, ipVars, acVars,
                    clVars, lrVars, cfVars, focus>>
    \/ /\ focus = "shared" /\ SharedNext
       /\ UNCHANGED <<lockVars, psVars, batchVars, connVars, rpVars, tcVars, ipVars, acVars, clVars,
                    lrVars, cfVars, focus>>
    \/ /\ focus = "pubsub" /\ PubSubNext
       /\ UNCHANGED <<lockVars, sharedVars, batchVars, connVars, rpVars, tcVars, ipVars, acVars,
                    clVars, lrVars, cfVars, focus>>
    \/ /\ focus = "batched" /\ BatchNext
       /\ UNCHANGED <<lockVars, sharedVars, psVars, connVars, rpVars, tcVars, ipVars, acVars,
                    clVars, lrVars, cfVars, focus>>
    \/ /\ focus = "pool" /\ ConnNext
       /\ UNCHANGED <<lockVars, sharedVars, psVars, batchVars, rpVars, tcVars, ipVars, acVars,
                    clVars, lrVars, cfVars, focus>>
    \/ /\ focus = "rpc" /\ RpNext
       /\ UNCHANGED <<lockVars, sharedVars, psVars, batchVars, connVars, tcVars, ipVars, acVars,
                    clVars, lrVars, cfVars, focus>>
    \/ /\ focus = "tcp" /\ TcNext
       /\ UNCHANGED <<lockVars, sharedVars, psVars, batchVars, connVars, rpVars, ipVars, acVars,
                    clVars, lrVars, cfVars, focus>>
    \/ /\ focus = "inproc" /\ InProcNext
       /\ UNCHANGED <<lockVars, sharedVars, psVars, batchVars, connVars, rpVars, tcVars, acVars,
                    clVars, lrVars, cfVars, focus>>
    \/ /\ focus = "completed" /\ AcNext
       /\ UNCHANGED <<lockVars, sharedVars, psVars, batchVars, connVars, rpVars, tcVars, ipVars,
                    clVars, lrVars, cfVars, focus>>
    \/ /\ focus = "life" /\ ClNext
       /\ UNCHANGED <<lockVars, sharedVars, psVars, batchVars, connVars, rpVars, tcVars, ipVars,
                    acVars, lrVars, cfVars, focus>>
    \/ /\ focus = "loop" /\ LoopNext
       /\ UNCHANGED <<lockVars, sharedVars, psVars, batchVars, connVars, rpVars, tcVars, ipVars,
                    acVars, clVars, cfVars, focus>>
    \/ /\ focus = "executor" /\ CfNext
       /\ UNCHANGED <<lockVars, sharedVars, psVars, batchVars, connVars, rpVars, tcVars, ipVars,
                    acVars, clVars, lrVars, focus>>

ClusterSpec == ClusterInit /\ [][ClusterNext]_clusterVars
-----------------------------------------------------------------------------
(* Nobody sleeps by a free lock whose next waiter he is, and waiters get it  *)
(* in the order of their events; a future that is put in a queue or variable *)
(* is still held by the Scheduler when another client takes it out, and is   *)
(* held no longer than it is shared.                                         *)
SharingIsSafe ==
    /\ focus = "locks" => NobodySleepsByFreeLock /\ DequeInOrder
    /\ focus = "shared" => HandedOverAlive /\ HeldOnlyIfShared

(* However the news of Pubs and Subs cross on their streams, a Pub sends to  *)
(* the Workers with a Sub, and the Scheduler knows them.                     *)
TopicsAgree == focus = "pubsub" => PubsKnowSubs /\ SubWorkersKnown

(* The messages of a BatchedSend arrive once and in order, close flushes     *)
(* them, and its loop does not sleep on a message.                           *)
BatchesArrive == focus = "batched" => StreamInOrder /\ FlushedByClose /\ NoLostWakeUp

(* A connection of the pool or of an rpc serves one call at a time and       *)
(* returns the answer to that call; the pool stays within its bound and      *)
(* wakes who waits for room; a closed rpc or Server lets go of everything.   *)
CallsServed ==
    /\ focus = "pool" => OneCallEach /\ AnswersMatch /\ RoomNoticed /\ PoolBounded
    /\ focus = "rpc" => CallsKeptApart /\ ClosedLetsGo

(* A TCP or in-process comm delivers whole messages in order, whenever an    *)
(* end is closed or breaks; a reader is told of the end; a connection made   *)
(* has another end.                                                          *)
CommsDeliver ==
    /\ focus = "tcp" => ReadsWholeMessages /\ ClosedAfterAll
    /\ focus = "inproc" => EndsReadInOrder /\ SleepersAreTold /\ ConnectedToSomebody

=============================================================================
