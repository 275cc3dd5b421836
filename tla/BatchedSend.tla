---------------------------- MODULE BatchedSend ----------------------------
(* BatchedSend, which carries the messages between the Scheduler, its        *)
(* clients and its workers, and Server.handle_stream at the other end.       *)
(* Messages are numbered in the order of the calls of send.                  *)
EXTENDS Naturals, Sequences, SequencesExt

CONSTANTS MaxMessages  \* bound: the calls of send

VARIABLES calls,     \* the number of messages sent
          buffer,
          waker,     \* whether the event is set
          deadline,  \* next_deadline: "none", "future" or "past"
          loop,      \* _background_send: "unstarted", "waiting", "writing" or "stopped"
          writing,   \* the payload being written, by the loop or by close
          please_stop,
          comm,      \* "none", "open" or "closed"
          flush,     \* close: "no", "waiting", "writing" or "done"
          asked,     \* the number of messages sent when close was called
          wire,      \* the batches on their way
          got,       \* the messages the peer has handled
          broken     \* "no", "comm": the connection was given up, or "batch": a batch could not be written

batchVars == <<calls, buffer, waker, deadline, loop, writing, please_stop, comm, flush, asked,
               wire, got, broken>>

BatchInit ==
    /\ calls = 0 /\ buffer = <<>> /\ waker = FALSE /\ deadline = "none" /\ loop = "unstarted"
    /\ writing = <<>> /\ please_stop = FALSE /\ comm = "none" /\ flush = "no" /\ asked = 0
    /\ wire = <<>> /\ got = <<>> /\ broken = "no"

LoopTop == IF please_stop THEN "stopped" ELSE "waiting"
-----------------------------------------------------------------------------
(* start.                                                                    *)
StartStream ==
    /\ comm = "none"
    /\ comm' = "open" /\ loop' = LoopTop
    /\ UNCHANGED <<calls, buffer, waker, deadline, writing, please_stop, flush, asked, wire, got, broken>>

(* send wakes the loop only if no deadline will.                             *)
WakesIfPast == deadline = "past"  \* mistake: an idle loop is left asleep
Wakes == deadline = "none"
SendMessage ==
    /\ calls < MaxMessages /\ comm # "closed"
    /\ calls' = calls + 1
    /\ buffer' = Append(buffer, calls + 1)
    /\ waker' = (waker \/ Wakes)
    /\ UNCHANGED <<deadline, loop, writing, please_stop, comm, flush, asked, wire, got, broken>>

IntervalEnds ==
    /\ deadline = "future"
    /\ deadline' = "past"
    /\ UNCHANGED <<calls, buffer, waker, loop, writing, please_stop, comm, flush, asked, wire, got, broken>>

(* _background_send, woken: nothing to send, too early, or a batch.          *)
AfterTakeKept == buffer  \* mistake: the buffer is not emptied
AfterTake == <<>>
WakeUp ==
    /\ loop = "waiting" /\ (waker \/ deadline = "past")
    /\ waker' = FALSE
    /\ IF buffer = <<>>
       THEN deadline' = "none" /\ loop' = LoopTop /\ UNCHANGED <<buffer, writing>>
       ELSE IF deadline = "future"
       THEN loop' = LoopTop /\ UNCHANGED <<deadline, buffer, writing>>
       ELSE /\ deadline' = "future" /\ loop' = "writing"
            /\ writing' = buffer /\ buffer' = AfterTake
    /\ UNCHANGED <<calls, please_stop, comm, flush, asked, wire, got, broken>>

WriteBatch ==
    /\ loop = "writing" /\ comm = "open"
    /\ wire' = Append(wire, writing) /\ writing' = <<>>
    /\ loop' = LoopTop
    /\ UNCHANGED <<calls, buffer, waker, deadline, please_stop, comm, flush, asked, got, broken>>

(* The connection is closed, or a message cannot be serialized: in that case *)
(* it stays open, and send goes on filling the buffer.                       *)
WriteFails ==
    /\ loop = "writing"
    /\ loop' = "stopped" /\ writing' = <<>>
    /\ broken' = IF comm = "open" THEN "batch" ELSE "comm"
    /\ UNCHANGED <<calls, buffer, waker, deadline, please_stop, comm, flush, asked, wire, got>>
-----------------------------------------------------------------------------
(* close: it waits for the loop, writes what is left and closes.             *)
CloseStream ==
    /\ comm # "none" /\ flush = "no"
    /\ please_stop' = TRUE /\ waker' = TRUE
    /\ flush' = "waiting" /\ asked' = calls
    /\ UNCHANGED <<calls, buffer, deadline, loop, writing, comm, wire, got, broken>>

LeftUnflushed == <<>>  \* mistake: what is left is not written
Left == buffer
CloseGoesOn ==
    /\ flush = "waiting" /\ loop = "stopped"
    /\ IF comm = "open" /\ Left # <<>>
       THEN flush' = "writing" /\ writing' = Left /\ buffer' = <<>> /\ UNCHANGED comm
       ELSE flush' = "done" /\ comm' = "closed" /\ UNCHANGED <<writing, buffer>>
    /\ UNCHANGED <<calls, waker, deadline, loop, please_stop, asked, wire, got, broken>>

WriteRest ==
    /\ flush = "writing"
    /\ wire' = IF comm = "open" THEN Append(wire, writing) ELSE wire
    /\ writing' = <<>> /\ comm' = "closed" /\ flush' = "done"
    /\ broken' = IF comm = "open" THEN broken ELSE "comm"
    /\ UNCHANGED <<calls, buffer, waker, deadline, loop, please_stop, asked, got>>

(* abort.                                                                    *)
AbortStream ==
    /\ comm # "none" /\ broken # "comm"
    /\ please_stop' = TRUE /\ waker' = TRUE /\ buffer' = <<>>
    /\ comm' = "closed" /\ wire' = <<>> /\ broken' = "comm"
    /\ UNCHANGED <<calls, deadline, loop, writing, flush, asked, got>>
-----------------------------------------------------------------------------
(* handle_stream reads a batch and calls the handler of each message.        *)
PeerReads ==
    /\ wire # <<>>
    /\ got' = got \o Head(wire)
    /\ wire' = Tail(wire)
    /\ UNCHANGED <<calls, buffer, waker, deadline, loop, writing, please_stop, comm, flush, asked, broken>>

(* After n messages a handler raises, or the next message is close-stream:   *)
(* the rest of the batch is dropped and the connection closed.               *)
PeerStops(n) ==
    /\ wire # <<>> /\ n < Len(Head(wire))
    /\ got' = got \o SubSeq(Head(wire), 1, n)
    /\ wire' = <<>> /\ comm' = "closed" /\ broken' = "comm"
    /\ UNCHANGED <<calls, buffer, waker, deadline, loop, writing, please_stop, flush, asked>>

BatchNext ==
    \/ StartStream \/ SendMessage \/ IntervalEnds \/ WakeUp \/ WriteBatch \/ WriteFails
    \/ CloseStream \/ CloseGoesOn \/ WriteRest \/ AbortStream \/ PeerReads
    \/ \E n \in 0..(MaxMessages - 1) : PeerStops(n)
-----------------------------------------------------------------------------
Numbers(n) == [i \in 1..n |-> i]

(* The peer handles the messages in the order of the calls of send, none     *)
(* twice, across batches and when the stream is given up, and leaves none    *)
(* out unless a batch could not be written; while the stream works, every    *)
(* message is in exactly one place.                                          *)
StreamInOrder ==
    /\ \A i \in 2..Len(got) : got[i - 1] < got[i]
    /\ broken = "no" => got \o FlattenSeq(wire) \o writing \o buffer = Numbers(calls)

(* What was sent before close was called is written before the connection    *)
(* is closed.                                                                *)
FlushedByClose == flush = "done" /\ broken = "no" => Len(got) + Len(FlattenSeq(wire)) >= asked

(* The loop never sleeps on a full buffer with nothing to wake it: send sets *)
(* the event only when no deadline is set, and the loop clears both.         *)
NoLostWakeUp == loop = "waiting" /\ buffer # <<>> => waker \/ deadline # "none"
=============================================================================
