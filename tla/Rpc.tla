-------------------------------- MODULE Rpc --------------------------------
(***************************************************************************)
(* core.rpc: one object for the remote calls of several coroutines to one  *)
(* server, which makes comms as it needs them and keeps them for reuse,    *)
(* and the life of the Server at the other end.                            *)
(*                                                                         *)
(* rpComms is the dictionary of the rpc object: a comm is "ready" (True),  *)
(* "taken" (False) or "absent".  A comm has two ends: the client's, which  *)
(* is up until it is closed, and handle_comm of the Server, which ends     *)
(* when the comm is closed or a handler of it is cancelled.                *)
(***************************************************************************)
EXTENDS Naturals, Sequences, FiniteSets

CONSTANTS RpCallers, MaxRpConns, MaxRpCalls

VARIABLES
    rpStatus,  \* status of the rpc object
    rpComms,   \* its comms
    rpUp,      \* comms that are open
    rpMade,    \* comms connected so far
    rpCalls,   \* calls begun so far
    rpCaller,  \* what each coroutine is doing
    rpRequest, \* per comm: the requests that the server has not read
    rpAnswer,  \* per comm: the answers that the client has not read
    rpLate,    \* comms whose connect ended after the rpc object was closed
    rpClosing, \* comms that _close_comm is closing
    rpThrown,  \* what the handler of each call did
    svComms,   \* _comms of the Server
    svBusy,    \* comms whose handle_comm waits for a handler, a coroutine
    svLeft,    \* calls whose handler runs on after its handle_comm has ended
    svStatus   \* where the Server's life is

rpcSide == <<rpStatus, rpComms, rpMade, rpCalls, rpCaller, rpLate>>
serverSide == <<svComms, svBusy, svLeft, svStatus>>
rpVars == <<rpcSide, rpUp, rpRequest, rpAnswer, rpClosing, rpThrown, serverSide>>

RpConns == 1..MaxRpConns
RpIdle == [pc |-> "idle", comm |-> 0, call |-> 0, got |-> <<>>]

(* What a handler may do: return, or raise an exception that can be pickled, *)
(* one whose pickle cannot be read, or one that cannot be pickled.           *)
Outcomes == {"value", "plain", "unreadable", "unpicklable"}

RpInit ==
    /\ rpStatus = "running"
    /\ rpComms = [k \in RpConns |-> "absent"] /\ rpUp = {} /\ rpMade = 0 /\ rpCalls = 0
    /\ rpCaller = [c \in RpCallers |-> RpIdle]
    /\ rpRequest = [k \in RpConns |-> <<>>] /\ rpAnswer = [k \in RpConns |-> <<>>]
    /\ rpLate = {} /\ rpClosing = {}
    /\ rpThrown = [n \in 1..MaxRpCalls |-> "value"]

SvInit == svComms = {} /\ svBusy = {} /\ svLeft = {} /\ svStatus = "created"

-----------------------------------------------------------------------------
(* rpc *)

\* Bug: a comm that is taken stays ready in the dictionary.
TakenStaysReady == "ready"

Taken == "taken"

Dropped(gone) == [k \in RpConns |-> IF k \in gone THEN "absent" ELSE rpComms[k]]
ClosedTaken == {k \in RpConns : rpComms[k] = "taken" /\ k \notin rpUp}

\* live_comm looks at comms until it meets a ready one, and drops the closed
\* ones among those it has looked at.
LiveComm(c) ==
    /\ rpCaller[c].pc = "idle" /\ rpCalls < MaxRpCalls
    /\ rpStatus = "running"
    /\ rpCalls' = rpCalls + 1
    /\ LET begin(pc, k) == rpCaller' = [rpCaller EXCEPT ![c] =
                              [RpIdle EXCEPT !.pc = pc, !.comm = k, !.call = rpCalls + 1]]
       IN  \/ \E k \in RpConns, seen \in SUBSET ClosedTaken :
                /\ rpComms[k] = "ready"
                /\ \/ /\ k \in rpUp
                      /\ rpComms' = [Dropped(seen) EXCEPT ![k] = Taken]
                      /\ begin("write", k)
                   \/ /\ k \notin rpUp
                      /\ rpComms' = Dropped(seen \cup {k})
                      /\ begin("connect", 0)
           \/ /\ \A k \in RpConns : rpComms[k] # "ready"
              /\ rpComms' = Dropped(ClosedTaken)
              /\ begin("connect", 0)
    /\ UNCHANGED <<rpStatus, rpUp, rpMade, rpRequest, rpAnswer, rpLate, rpClosing, rpThrown,
                   serverSide>>

\* connect ends: the comm is recorded although the rpc object may be closed.
ConnectEnds(c) ==
    /\ rpCaller[c].pc = "connect" /\ svStatus = "listening" /\ rpMade < MaxRpConns
    /\ LET k == rpMade + 1
       IN  /\ rpMade' = k /\ rpUp' = rpUp \cup {k} /\ svComms' = svComms \cup {k}
           /\ rpComms' = [rpComms EXCEPT ![k] = Taken]
           /\ rpLate' = IF rpStatus = "closed" THEN rpLate \cup {k} ELSE rpLate
           /\ rpCaller' = [rpCaller EXCEPT ![c].pc = "write", ![c].comm = k]
    /\ UNCHANGED <<rpStatus, rpCalls, rpRequest, rpAnswer, rpClosing, rpThrown, svBusy,
                   svLeft, svStatus>>

ConnectTimesOut(c) ==
    /\ rpCaller[c].pc = "connect" /\ svStatus # "listening"
    /\ rpCaller' = [rpCaller EXCEPT ![c] = RpIdle]
    /\ UNCHANGED <<rpStatus, rpComms, rpUp, rpMade, rpCalls, rpRequest, rpAnswer, rpLate,
                   rpClosing, rpThrown, serverSide>>

\* send_recv fails with a communication error: the comm is aborted, and it is
\* not marked ready.
CallFails(c) ==
    /\ rpCaller[c].pc \in {"write", "read"} /\ rpCaller[c].comm \notin rpUp
    /\ rpCaller' = [rpCaller EXCEPT ![c] = RpIdle]
    /\ UNCHANGED <<rpStatus, rpComms, rpUp, rpMade, rpCalls, rpRequest, rpAnswer, rpLate,
                   rpClosing, rpThrown, serverSide>>

WriteCall(c) ==
    LET k == rpCaller[c].comm
    IN  /\ rpCaller[c].pc = "write" /\ k \in rpUp
        /\ rpRequest' = [rpRequest EXCEPT ![k] = Append(@, rpCaller[c].call)]
        /\ rpCaller' = [rpCaller EXCEPT ![c].pc = "read"]
        /\ UNCHANGED <<rpStatus, rpComms, rpUp, rpMade, rpCalls, rpAnswer, rpLate, rpClosing,
                       rpThrown, serverSide>>

\* The answer; an uncaught-error is raised again here (clean_exception), and
\* the comm is marked ready only when nothing is raised.
ReadCall(c) ==
    LET k == rpCaller[c].comm
    IN  /\ rpCaller[c].pc = "read" /\ k \in rpUp /\ rpAnswer[k] # <<>>
        /\ rpAnswer' = [rpAnswer EXCEPT ![k] = Tail(@)]
        /\ rpCaller' = [rpCaller EXCEPT ![c].pc = "done", ![c].got = Head(rpAnswer[k])]
        /\ rpComms' = IF Head(rpAnswer[k])[2] = "value"
                      THEN [rpComms EXCEPT ![k] = "ready"] ELSE rpComms
        /\ UNCHANGED <<rpStatus, rpUp, rpMade, rpCalls, rpRequest, rpLate, rpClosing, rpThrown,
                       serverSide>>

CallReturns(c) ==
    /\ rpCaller[c].pc = "done"
    /\ rpCaller' = [rpCaller EXCEPT ![c] = RpIdle]
    /\ UNCHANGED <<rpStatus, rpComms, rpUp, rpMade, rpCalls, rpRequest, rpAnswer, rpLate,
                   rpClosing, rpThrown, serverSide>>

\* Bug: only the comms that are ready are closed.
ToCloseReady == {k \in RpConns : rpComms[k] = "ready" /\ k \in rpUp}

\* close_comms: every comm of the dictionary that is open.
ToCloseAll == {k \in RpConns : rpComms[k] # "absent" /\ k \in rpUp}

CloseRpc ==
    /\ rpStatus = "running" /\ rpStatus' = "closed"
    /\ rpClosing' = rpClosing \cup ToCloseAll
    /\ rpComms' = [k \in RpConns |-> "absent"]
    /\ UNCHANGED <<rpUp, rpMade, rpCalls, rpCaller, rpRequest, rpAnswer, rpLate, rpThrown,
                   serverSide>>

\* _close_comm has told the peer to close, and closes its own end.
CloseComm(k) ==
    /\ k \in rpClosing
    /\ rpClosing' = rpClosing \ {k} /\ rpUp' = rpUp \ {k}
    /\ UNCHANGED <<rpcSide, rpRequest, rpAnswer, rpThrown, serverSide>>

-----------------------------------------------------------------------------
(* Server *)

Listen ==
    /\ svStatus = "created" /\ svStatus' = "listening"
    /\ UNCHANGED <<rpcSide, rpUp, rpRequest, rpAnswer, rpClosing, rpThrown, svComms, svBusy,
                   svLeft>>

\* Bug: error_message does not try to read the pickle again.
SurvivesDumped(outcome) == outcome \in {"value", "plain", "unreadable"}

\* error_message replaces an exception that does not survive pickling by an
\* Exception with its text.
Survives(outcome) == outcome \in {"value", "plain"}
ErrorMessage(outcome) == IF Survives(outcome) THEN outcome ELSE "text"

\* A handler that returns at once, or that is a coroutine.
BeginHandler(k) ==
    /\ k \in svComms \ svBusy /\ rpRequest[k] # <<>> /\ svStatus # "closed"
    /\ svBusy' = svBusy \cup {k}
    /\ UNCHANGED <<rpcSide, rpUp, rpRequest, rpAnswer, rpClosing, rpThrown, svComms, svLeft,
                   svStatus>>

EndHandler(k, outcome) ==
    /\ k \in svBusy
    /\ svBusy' = svBusy \ {k}
    /\ rpRequest' = [rpRequest EXCEPT ![k] = Tail(@)]
    /\ rpAnswer' = [rpAnswer EXCEPT ![k] =
                      IF k \in rpUp THEN Append(@, <<Head(rpRequest[k]), ErrorMessage(outcome)>>)
                      ELSE @]
    /\ rpThrown' = [rpThrown EXCEPT ![Head(rpRequest[k])] = outcome]
    /\ UNCHANGED <<rpcSide, rpUp, rpClosing, svComms, svLeft, svStatus>>

\* handle_comm ends: the comm was closed by one of the two ends.
HandleCommEnds(k) ==
    /\ k \in svComms \ svBusy /\ k \notin rpUp
    /\ svComms' = svComms \ {k}
    /\ UNCHANGED <<rpcSide, rpUp, rpRequest, rpAnswer, rpClosing, rpThrown, svBusy, svLeft,
                   svStatus>>

\* close: the listener is stopped, and the comms have a second to close.
CloseServer ==
    /\ svStatus = "listening" /\ svStatus' = "closing"
    /\ UNCHANGED <<rpcSide, rpUp, rpRequest, rpAnswer, rpClosing, rpThrown, svComms, svBusy,
                   svLeft>>

\* Bug: the handlers that are under way are left alone.
CancelledNone == {}

\* The futures of the coroutines under way are cancelled.  That ends the
\* handle_comm that waits for each, but not the coroutine, which runs on.
Cancelled == svBusy

ServerClosed ==
    /\ svStatus = "closing" /\ svStatus' = "closed"
    /\ rpUp' = rpUp \ svComms
    /\ svBusy' = svBusy \ Cancelled /\ svComms' = svComms \ Cancelled
    /\ svLeft' = svLeft \cup {Head(rpRequest[k]) : k \in Cancelled}
    /\ UNCHANGED <<rpcSide, rpRequest, rpAnswer, rpClosing, rpThrown>>

\* A handler that was left ends: nobody waits for what it returns or raises.
LeftHandlerEnds(n) ==
    /\ n \in svLeft /\ svLeft' = svLeft \ {n}
    /\ UNCHANGED <<rpcSide, rpUp, rpRequest, rpAnswer, rpClosing, rpThrown, svComms, svBusy,
                   svStatus>>

RpNext ==
    \/ \E c \in RpCallers : \/ LiveComm(c) \/ ConnectEnds(c) \/ ConnectTimesOut(c) \/ CallFails(c)
                            \/ WriteCall(c) \/ ReadCall(c) \/ CallReturns(c)
    \/ CloseRpc \/ Listen \/ CloseServer \/ ServerClosed
    \/ \E k \in RpConns : \/ CloseComm(k) \/ BeginHandler(k) \/ HandleCommEnds(k)
                          \/ \E outcome \in Outcomes : EndHandler(k, outcome)
    \/ \E n \in 1..MaxRpCalls : LeftHandlerEnds(n)

-----------------------------------------------------------------------------

InCall(c) == rpCaller[c].pc \in {"write", "read"}

\* However calls overlap, are closed in the middle or fail: no two of them use
\* one comm, each reads the answer to its own request, and what its handler
\* raised arrives as it was raised, or as text if it cannot be pickled both ways
\* (rpc.live_comm, send_recv, error_message).
CallsKeptApart ==
    /\ \A c, d \in RpCallers : c # d /\ InCall(c) /\ InCall(d) => rpCaller[c].comm # rpCaller[d].comm
    /\ \A c \in RpCallers : rpCaller[c].pc = "done" =>
         /\ rpCaller[c].got[1] = rpCaller[c].call
         /\ rpCaller[c].got[2] = IF rpThrown[rpCaller[c].call] \in {"value", "plain"}
                                 THEN rpThrown[rpCaller[c].call] ELSE "text"

\* A closed rpc object keeps no comm open, except those that were being
\* connected while it was closed; and no handle_comm of a closed Server waits
\* for a handler to answer its caller, who is told of the end (close_rpc,
\* Server.close).  The handlers themselves may run on: svLeft.
ClosedLetsGo ==
    /\ rpStatus = "closed" => rpUp \subseteq rpClosing \cup rpLate
    /\ svStatus = "closed" => svBusy = {}
=============================================================================
