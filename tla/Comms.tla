------------------------------- MODULE Comms --------------------------------
(* A TCP comm between a client and a server: connect with its retries, one   *)
(* coroutine that writes messages and then closes, and one that reads them.  *)
(* A message is its frames' lengths, then the frames; a stream of bytes has  *)
(* no other borders.                                                         *)
(*                                                                           *)
(* An in-process comm: a client and a server in threads of their own, each   *)
(* with its loop.  An end writes by a callback in the loop of the other end, *)
(* which puts the message into the queue that end reads.                     *)
EXTENDS Naturals, Sequences, SequencesExt, FiniteSetsExt

CONSTANTS TcMessages,   \* the messages to be written: each the lengths of its frames
          SmallSize,    \* shorter messages are written in one go (2^17 in the code)
          YieldSize,    \* bytes after which the writer waits (32e6 in the code)
          MaxAttempts   \* bound: the attempts to connect before the deadline

VARIABLES tcServer,     \* the listener: it listens or not
          tcConn,       \* the client's connect: attempt, and the outcome
          tcBuffer,     \* bytes in the writer's stream
          tcWire,       \* bytes on their way or at the reader
          tcSocket,     \* the connection: "none", "open", "shut" by the writer, "broken"
          tcWriter,     \* where the writer is, and the frames left to write
          tcReader,     \* where the reader is, and what it has read of a message
          tcWritten,    \* messages whose write has returned
          tcRead        \* messages read

tcVars == <<tcServer, tcConn, tcBuffer, tcWire, tcSocket, tcWriter, tcReader, tcWritten, tcRead>>
connecting == <<tcServer, tcConn>>

TcInit ==
    /\ tcServer = FALSE
    /\ tcConn = [attempts |-> 0, state |-> "idle"]
    /\ tcBuffer = <<>> /\ tcWire = <<>> /\ tcSocket = "none"
    /\ tcWriter = [pc |-> "idle", frames |-> <<>>, since |-> 0]
    /\ tcReader = [pc |-> "none", lengths |-> <<>>, frames |-> <<>>]
    /\ tcWritten = 0 /\ tcRead = <<>>
-----------------------------------------------------------------------------
(* BaseTCPListener.start *)
TcpListen == ~tcServer /\ tcServer' = TRUE
          /\ UNCHANGED <<tcConn, tcBuffer, tcWire, tcSocket, tcWriter, tcReader, tcWritten, tcRead>>

(* connect: an attempt fails while nobody listens, and is made again.        *)
ConnectAttempt ==
    /\ tcConn.state = "idle" /\ tcConn.attempts < MaxAttempts
    /\ tcConn' = [attempts |-> tcConn.attempts + 1,
                  state |-> IF tcServer THEN "accepted" ELSE "idle"]
    /\ tcSocket' = IF tcServer THEN "open" ELSE tcSocket
    /\ UNCHANGED <<tcServer, tcBuffer, tcWire, tcWriter, tcReader, tcWritten, tcRead>>
(* _handle_stream: the server has a comm and reads.                          *)
Accept ==
    /\ tcSocket # "none" /\ tcReader.pc = "none"
    /\ tcReader' = [tcReader EXCEPT !.pc = "prelude"]
    /\ UNCHANGED <<connecting, tcBuffer, tcWire, tcSocket, tcWriter, tcWritten, tcRead>>
TcpConnected ==
    /\ tcConn.state = "accepted" /\ tcConn' = [tcConn EXCEPT !.state = "connected"]
    /\ UNCHANGED <<tcServer, tcBuffer, tcWire, tcSocket, tcWriter, tcReader, tcWritten, tcRead>>
(* The deadline has passed: an error, also if the connection has just been   *)
(* made; the stream nobody has is then closed.                               *)
AttemptTimesOut ==
    /\ tcConn.state = "accepted" \/ (tcConn.state = "idle" /\ tcConn.attempts = MaxAttempts)
    /\ tcConn' = [tcConn EXCEPT !.state = "failed"]
    /\ tcSocket' = IF tcSocket = "open" THEN "shut" ELSE tcSocket
    /\ UNCHANGED <<tcServer, tcBuffer, tcWire, tcWriter, tcReader, tcWritten, tcRead>>
-----------------------------------------------------------------------------
(* The lengths go first; a frame of length n is n bytes.                     *)
Prelude(m) == <<[kind |-> "lengths", lengths |-> TcMessages[m]]>>
FrameBytes(m, f) == [k \in 1..TcMessages[m][f] |-> [kind |-> "byte", message |-> m, frame |-> f]]
AllBytes(m) == Prelude(m) \o FlattenSeq([f \in DOMAIN TcMessages[m] |-> FrameBytes(m, f)])
Total(m) == LET Length(f) == TcMessages[m][f] IN MapThenSumSet(Length, DOMAIN TcMessages[m])

(* TCP.write: in one go, or the lengths and then frame by frame.             *)
Write ==
    LET m == tcWritten + 1
    IN  /\ tcConn.state = "connected" /\ tcWriter.pc = "idle" /\ m \in DOMAIN TcMessages
        /\ IF tcSocket # "open"
           THEN tcWriter' = [tcWriter EXCEPT !.pc = "closed"] /\ UNCHANGED <<tcBuffer, tcWritten>>
           ELSE IF Total(m) < SmallSize
           THEN tcBuffer' = tcBuffer \o AllBytes(m) /\ tcWritten' = m /\ UNCHANGED tcWriter
           ELSE /\ tcBuffer' = tcBuffer \o Prelude(m) /\ UNCHANGED tcWritten
                /\ tcWriter' = [pc |-> "frames", since |-> 0,
                                frames |-> [f \in DOMAIN TcMessages[m] |-> FrameBytes(m, f)]]
        /\ UNCHANGED <<connecting, tcWire, tcSocket, tcReader, tcRead>>

(* After many bytes the writer waits until they are gone.                    *)
Waits(w) == w.since > YieldSize
WriteFrame ==
    /\ tcWriter.pc = "frames"
    /\ Waits(tcWriter) => tcBuffer = <<>> \/ tcSocket # "open"
    /\ CASE tcSocket # "open" ->
              tcWriter' = [tcWriter EXCEPT !.pc = "closed"] /\ UNCHANGED <<tcBuffer, tcWritten>>
         [] tcSocket = "open" /\ tcWriter.frames = <<>> ->
              /\ tcWriter' = [tcWriter EXCEPT !.pc = "idle", !.since = 0]
              /\ tcWritten' = tcWritten + 1 /\ UNCHANGED tcBuffer
         [] OTHER ->
              LET frame == Head(tcWriter.frames)
                  since == IF Waits(tcWriter) THEN 0 ELSE tcWriter.since
              IN  /\ tcBuffer' = tcBuffer \o frame /\ UNCHANGED tcWritten
                  /\ tcWriter' = [tcWriter EXCEPT !.frames = Tail(@), !.since = since + Len(frame)]
    /\ UNCHANGED <<connecting, tcWire, tcSocket, tcReader, tcRead>>

(* The stream writes its buffer to the socket, as much as it takes.          *)
Flush ==
    /\ tcBuffer # <<>> /\ tcSocket = "open"
    /\ \E n \in 1..Len(tcBuffer) :
          /\ tcWire' = tcWire \o SubSeq(tcBuffer, 1, n)
          /\ tcBuffer' = SubSeq(tcBuffer, n + 1, Len(tcBuffer))
    /\ UNCHANGED <<connecting, tcSocket, tcWriter, tcReader, tcWritten, tcRead>>

(* TCP.close, by the coroutine that writes: it waits for what is buffered.   *)
ShutsAtOnce == TRUE  \* mistake: the buffer is not waited for
MayShut == tcBuffer = <<>>
CloseBegin ==
    /\ tcConn.state = "connected" /\ tcWriter.pc = "idle"
    /\ tcWriter' = [tcWriter EXCEPT !.pc = "closing"]
    /\ UNCHANGED <<connecting, tcBuffer, tcWire, tcSocket, tcReader, tcWritten, tcRead>>
CloseEnd ==
    /\ tcWriter.pc = "closing" /\ (MayShut \/ tcSocket # "open")
    /\ tcSocket' = IF tcSocket = "open" THEN "shut" ELSE tcSocket
    /\ tcWriter' = [tcWriter EXCEPT !.pc = "closed"] /\ tcBuffer' = <<>>
    /\ UNCHANGED <<connecting, tcWire, tcReader, tcWritten, tcRead>>

(* The connection breaks; what is on its way is lost from some byte on.      *)
Break ==
    /\ tcSocket = "open" /\ tcSocket' = "broken" /\ tcBuffer' = <<>>
    /\ \E n \in 0..Len(tcWire) : tcWire' = SubSeq(tcWire, 1, n)
    /\ UNCHANGED <<connecting, tcWriter, tcReader, tcWritten, tcRead>>
-----------------------------------------------------------------------------
(* TCP.read: the lengths, then every frame that is not empty.                *)
ReadPrelude ==
    /\ tcReader.pc = "prelude" /\ tcWire # <<>>
    /\ tcReader' = [pc |-> "frames", lengths |-> Head(tcWire).lengths, frames |-> <<>>]
    /\ tcWire' = Tail(tcWire)
    /\ UNCHANGED <<connecting, tcBuffer, tcSocket, tcWriter, tcWritten, tcRead>>
NeedsOne(length) == IF length = 0 THEN 1 ELSE length  \* mistake: an empty frame is waited for
Needs(length) == length
ReadFrame ==
    LET n == Needs(tcReader.lengths[Len(tcReader.frames) + 1])
    IN  /\ tcReader.pc = "frames" /\ Len(tcReader.frames) < Len(tcReader.lengths)
        /\ Len(tcWire) >= n
        /\ tcReader' = [tcReader EXCEPT !.frames = Append(@, SubSeq(tcWire, 1, n))]
        /\ tcWire' = SubSeq(tcWire, n + 1, Len(tcWire))
        /\ UNCHANGED <<connecting, tcBuffer, tcSocket, tcWriter, tcWritten, tcRead>>
ReadEnd ==
    /\ tcReader.pc = "frames" /\ Len(tcReader.frames) = Len(tcReader.lengths)
    /\ tcRead' = Append(tcRead, tcReader.frames)
    /\ tcReader' = [pc |-> "prelude", lengths |-> <<>>, frames |-> <<>>]
    /\ UNCHANGED <<connecting, tcBuffer, tcWire, tcSocket, tcWriter, tcWritten>>
(* The stream ends within or before a message: CommClosedError.              *)
ReadClosed ==
    /\ tcSocket \in {"shut", "broken"}
    /\ \/ tcReader.pc = "prelude" /\ tcWire = <<>>
       \/ /\ tcReader.pc = "frames" /\ Len(tcReader.frames) < Len(tcReader.lengths)
          /\ Len(tcWire) < Needs(tcReader.lengths[Len(tcReader.frames) + 1])
    /\ tcReader' = [tcReader EXCEPT !.pc = "closed"]
    /\ UNCHANGED <<connecting, tcBuffer, tcWire, tcSocket, tcWriter, tcWritten, tcRead>>

TcNext ==
    \/ TcpListen \/ ConnectAttempt \/ Accept \/ TcpConnected \/ AttemptTimesOut \/ Write \/ WriteFrame \/ Flush
    \/ CloseBegin \/ CloseEnd \/ Break \/ ReadPrelude \/ ReadFrame \/ ReadEnd \/ ReadClosed
-----------------------------------------------------------------------------
FramesOfMessage(m) == [f \in DOMAIN TcMessages[m] |-> FrameBytes(m, f)]

(* What is read are the messages that were written, whole and in order, also *)
(* if frames are empty, a message goes in pieces and the connection breaks.  *)
ReadsWholeMessages ==
    /\ Len(tcRead) <= Len(TcMessages)
    /\ \A i \in DOMAIN tcRead : tcRead[i] = FramesOfMessage(i)

(* When the reader sees the end of a stream that was closed, not broken, it  *)
(* has read every message whose write returned.                              *)
ClosedAfterAll ==
    tcReader.pc = "closed" /\ tcSocket = "shut" => Len(tcRead) >= tcWritten
-----------------------------------------------------------------------------
CONSTANTS MaxWritten    \* bound: messages written by each end

VARIABLES ipListener,   \* "off", "on", "stopped" (None is in the queue) or "ended"
          ipRequests,   \* listen_q: 1 is a request to connect, 0 is None
          ipConnector,  \* the client's connect: where it is
          ipAccepted,   \* the server's comm has been made
          ipLoop,       \* the callbacks of each end's loop
          ipQueue,      \* the queue each end reads
          ipReader,     \* each end's read: "idle", "waiting" or "woken" with a value
          ipClosed,     \* _closed of each end's comm
          ipAborted,    \* abort() has closed it
          ipWritten, ipRead

ipVars == <<ipListener, ipRequests, ipConnector, ipAccepted, ipLoop, ipQueue, ipReader, ipClosed,
            ipAborted, ipWritten, ipRead>>
comms == <<ipQueue, ipReader, ipClosed, ipAborted, ipWritten, ipRead>>
IpEnds == {"client", "server"}
Other(e) == IF e = "client" THEN "server" ELSE "client"
EOF == 0  \* messages are numbered from 1

InProcInit ==
    /\ ipListener = "off" /\ ipRequests = <<>> /\ ipConnector = "idle" /\ ipAccepted = FALSE
    /\ ipLoop = [e \in IpEnds |-> <<>>] /\ ipQueue = [e \in IpEnds |-> <<>>]
    /\ ipReader = [e \in IpEnds |-> [at |-> "idle", value |-> EOF]]
    /\ ipClosed = [e \in IpEnds |-> FALSE] /\ ipAborted = [e \in IpEnds |-> FALSE]
    /\ ipWritten = [e \in IpEnds |-> <<>>] /\ ipRead = [e \in IpEnds |-> <<>>]

AddCallbackFirst(e, op, value) ==  \* mistake: callbacks do not run in order
    [ipLoop EXCEPT ![e] = <<[op |-> op, value |-> value]>> \o @]
AddCallback(e, op, value) == [ipLoop EXCEPT ![e] = Append(@, [op |-> op, value |-> value])]
-----------------------------------------------------------------------------
(* InProcListener.start and stop *)
StartListening ==
    /\ ipListener = "off" /\ ipListener' = "on"
    /\ UNCHANGED <<ipRequests, ipConnector, ipAccepted, ipLoop, comms>>
StopListening ==
    /\ ipListener = "on" /\ ipListener' = "stopped" /\ ipRequests' = Append(ipRequests, 0)
    /\ UNCHANGED <<ipConnector, ipAccepted, ipLoop, comms>>

(* InProcConnector.connect: a request goes to the listener's loop, ...       *)
ConnectTo ==
    /\ ipConnector = "idle" /\ ipListener = "on"
    /\ ipLoop' = AddCallback("server", "request", 1) /\ ipConnector' = "waiting"
    /\ UNCHANGED <<ipListener, ipRequests, ipAccepted, comms>>
(* ... _listen takes requests until the None of stop, ...                    *)
TakeRequest ==
    /\ ipListener \in {"on", "stopped"} /\ ipRequests # <<>> /\ ipRequests' = Tail(ipRequests)
    /\ IF Head(ipRequests) = 0
       THEN ipListener' = "ended" /\ UNCHANGED <<ipAccepted, ipLoop>>
       ELSE ipAccepted' = TRUE /\ ipLoop' = AddCallback("client", "event", 1) /\ UNCHANGED ipListener
    /\ UNCHANGED <<ipConnector, comms>>
(* ... and the client's comm is made once the event is set, unless connect   *)
(* has given up before.                                                      *)
WithoutWaiting == ipConnector = "waiting"  \* mistake: the acknowledgement is not waited for
EventSet == ipConnector = "set"
MakeComm ==
    /\ EventSet /\ ipConnector' = "connected"
    /\ UNCHANGED <<ipListener, ipRequests, ipAccepted, ipLoop, comms>>
GiveUpConnect ==
    /\ ipConnector \in {"waiting", "set"} /\ ipConnector' = "failed"
    /\ UNCHANGED <<ipListener, ipRequests, ipAccepted, ipLoop, comms>>
-----------------------------------------------------------------------------
(* Queue.put_nowait: to the reader that waits, or into the queue.            *)
PutOnly(e, value) ==  \* mistake: a reader that waits is not given the value
    ipQueue' = [ipQueue EXCEPT ![e] = Append(@, value)] /\ UNCHANGED ipReader
PutNowait(e, value) ==
    IF ipReader[e].at = "waiting"
    THEN ipReader' = [ipReader EXCEPT ![e] = [at |-> "woken", value |-> value]] /\ UNCHANGED ipQueue
    ELSE ipQueue' = [ipQueue EXCEPT ![e] = Append(@, value)] /\ UNCHANGED ipReader

(* A loop runs its callbacks in order.                                       *)
RunCallback(e) ==
    LET call == Head(ipLoop[e])
    IN  /\ ipLoop[e] # <<>> /\ ipLoop' = [ipLoop EXCEPT ![e] = Tail(@)]
        /\ CASE call.op = "request" ->
                  ipRequests' = Append(ipRequests, 1) /\ UNCHANGED <<ipConnector, ipQueue, ipReader>>
             [] call.op = "event" ->
                  /\ ipConnector' = IF ipConnector = "waiting" THEN "set" ELSE ipConnector
                  /\ UNCHANGED <<ipRequests, ipQueue, ipReader>>
             [] OTHER -> PutNowait(e, call.value) /\ UNCHANGED <<ipRequests, ipConnector>>
        /\ UNCHANGED <<ipListener, ipAccepted, ipClosed, ipAborted, ipWritten, ipRead>>

Has(e) == IF e = "client" THEN ipConnector = "connected" ELSE ipAccepted
(* closed(): also if the next thing to read is the end.                      *)
ClosedNow(e) == ipClosed[e] \/ (ipQueue[e] # <<>> /\ Head(ipQueue[e]) = EOF)

(* InProc.write; an end that finds itself closed remembers it.               *)
WriteTo(e) ==
    /\ Has(e) /\ Len(ipWritten[e]) < MaxWritten /\ ~ipClosed[e]
    /\ ipClosed' = [ipClosed EXCEPT ![e] = ClosedNow(e)]
    /\ IF ClosedNow(e) THEN UNCHANGED <<ipLoop, ipWritten>>
       ELSE LET n == Len(ipWritten[e]) + 1
            IN  /\ ipLoop' = AddCallback(Other(e), "put", n)
                /\ ipWritten' = [ipWritten EXCEPT ![e] = Append(@, n)]
    /\ UNCHANGED <<ipListener, ipRequests, ipConnector, ipAccepted, ipQueue, ipReader, ipAborted, ipRead>>

(* InProc.read and Queue.get *)
ReadFrom(e) ==
    /\ Has(e) /\ ~ipClosed[e] /\ ipReader[e].at = "idle"
    /\ IF ipQueue[e] = <<>>
       THEN ipReader' = [ipReader EXCEPT ![e].at = "waiting"] /\ UNCHANGED ipQueue
       ELSE /\ ipReader' = [ipReader EXCEPT ![e] = [at |-> "woken", value |-> Head(ipQueue[e])]]
            /\ ipQueue' = [ipQueue EXCEPT ![e] = Tail(@)]
    /\ UNCHANGED <<ipListener, ipRequests, ipConnector, ipAccepted, ipLoop, ipClosed, ipAborted, ipWritten, ipRead>>
ReadGoesOn(e) ==
    LET value == ipReader[e].value
    IN  /\ ipReader[e].at = "woken" /\ ipReader' = [ipReader EXCEPT ![e].at = "idle"]
        /\ IF value = EOF THEN ipClosed' = [ipClosed EXCEPT ![e] = TRUE] /\ UNCHANGED ipRead
           ELSE ipRead' = [ipRead EXCEPT ![e] = Append(@, value)] /\ UNCHANGED ipClosed
        /\ UNCHANGED <<ipListener, ipRequests, ipConnector, ipAccepted, ipLoop, ipQueue, ipAborted, ipWritten>>

(* InProc.abort, and close: both ends are told.                              *)
TellOther(e) == UNCHANGED <<ipQueue, ipReader>>  \* mistake: the end's own reader is not told
TellOwn(e) == PutNowait(e, EOF)
Abort(e) ==
    /\ Has(e) /\ ~ipClosed[e] /\ ipClosed' = [ipClosed EXCEPT ![e] = TRUE]
    /\ IF ClosedNow(e) THEN UNCHANGED <<ipLoop, ipQueue, ipReader, ipAborted>>
       ELSE /\ ipLoop' = AddCallback(Other(e), "put", EOF) /\ TellOwn(e)
            /\ ipAborted' = [ipAborted EXCEPT ![e] = TRUE]
    /\ UNCHANGED <<ipListener, ipRequests, ipConnector, ipAccepted, ipWritten, ipRead>>

InProcNext ==
    \/ StartListening \/ StopListening \/ ConnectTo \/ TakeRequest \/ MakeComm \/ GiveUpConnect
    \/ \E e \in IpEnds : RunCallback(e) \/ WriteTo(e) \/ ReadFrom(e) \/ ReadGoesOn(e) \/ Abort(e)
-----------------------------------------------------------------------------
(* An end reads what the other wrote, in order, and all of it if it sees the *)
(* end of the stream without having closed it itself.                        *)
EndsReadInOrder ==
    \A e \in IpEnds :
        /\ IsPrefix(ipRead[e], ipWritten[Other(e)])
        /\ ipClosed[e] /\ ~ipAborted[e] /\ ipReader[e].at # "woken" => ipRead[e] = ipWritten[Other(e)]

(* No end sleeps in read() when its comm is closed at either end, unless the *)
(* end of the stream is on its way to it, or when there is something to read.*)
SleepersAreTold ==
    \A e \in IpEnds : ipReader[e].at = "waiting" =>
        /\ ~ipClosed[e] /\ ipQueue[e] = <<>>
        /\ ipAborted[Other(e)] => \E i \in DOMAIN ipLoop[e] : ipLoop[e][i] = [op |-> "put", value |-> EOF]

(* A client is connected only if the server has a comm for it, however the   *)
(* listener is stopped meanwhile.                                            *)
ConnectedToSomebody == ipConnector = "connected" => ipAccepted
=============================================================================
