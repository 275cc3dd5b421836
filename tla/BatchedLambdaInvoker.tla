------------------------ MODULE BatchedLambdaInvoker ------------------------
(* How the Scheduler invokes Executors: send() buffers a payload, a          *)
(* coroutine on the Scheduler's event loop sends the buffer off at most once *)
(* per interval, dividing it between itself and a number of processes that   *)
(* each poll a pipe.  Large batches go through Invoker Lambdas, which invoke *)
(* the Executors in turn; AWS runs one again whose handler raises.           *)
(*                                                                           *)
(* The coroutine only yields in waker.wait: all it does between two waits is *)
(* one step.  The processes run at their own pace.                           *)
EXTENDS Integers, Sequences, FiniteSets, SequencesExt

CONSTANTS Payloads,       \* the payloads sent, numbered in this order
          NumInvokers,    \* num_invokers
          Threshold,      \* use_invoker_lambdas_threshold
          PerInvoker,     \* payloads per Invoker Lambda (50 in the code)
          Retries         \* how often AWS runs a failed event again

ASSUME InvokerAssumption ==
    /\ Payloads \subseteq Nat
    /\ NumInvokers \in Nat
    /\ Threshold \in Nat
    /\ PerInvoker \in Nat \ {0}
    /\ Retries \in Nat

Processes == 1..NumInvokers

VARIABLES buffer,      \* self.buffer
          waker,       \* self.waker is set
          deadline,    \* self.next_deadline: "none", "ahead" or "passed"
          loop,        \* _background_send: "waiting", "stopped" (it has returned
                       \* and set self.stopped) or "dead" (it has raised)
          pleaseStop,  \* self.please_stop
          process,     \* process[i]: "up", "dead" or "terminated"
          pipe,        \* pipe[i]: the messages in the pipe of process i
          work,        \* work[i]: what process i has still to invoke
          lambdas,     \* the events of Invoker Lambdas that have not ended
          rerun,       \* the payloads invoked by an Invoker Lambda that failed
                       \* after it and was run again (auxiliary)
          dropped,     \* those an Invoker Lambda had left to invoke when it
                       \* failed for the last time (auxiliary)
          sent,        \* the payloads given to send() (auxiliary)
          invoked      \* invoked[p]: how often an Executor was invoked with p

(* A call of lambda_client.invoke: of an Invoker Lambda or of an Executor.   *)
Call == [many : BOOLEAN, payloads : Seq(Payloads)]

(* An event of an Invoker Lambda, how far its handler has come with it, and  *)
(* how often AWS has run it again.                                           *)
Event == [payloads : Seq(Payloads), done : Nat, attempt : 0..Retries]

local == <<buffer, waker, deadline, loop, pleaseStop>>
remote == <<process, pipe, work>>
events == <<lambdas, rerun, dropped>>
vars == <<local, remote, events, sent, invoked>>

TypeOK ==
    /\ buffer \in Seq(Payloads)
    /\ waker \in BOOLEAN
    /\ deadline \in {"none", "ahead", "passed"}
    /\ loop \in {"waiting", "stopped", "dead"}
    /\ pleaseStop \in BOOLEAN
    /\ process \in [Processes -> {"up", "dead", "terminated"}]
    /\ pipe \in [Processes -> Seq(Seq(Call))]
    /\ work \in [Processes -> Seq(Call)]
    /\ lambdas \subseteq Event
    /\ rerun \subseteq Payloads /\ dropped \subseteq Payloads
    /\ sent \subseteq Payloads
    /\ invoked \in [Payloads -> Nat]

(* start: the coroutine waits for the first payload, the processes are up.   *)
Init ==
    /\ buffer = <<>> /\ waker = FALSE /\ deadline = "none"
    /\ loop = "waiting" /\ pleaseStop = FALSE
    /\ process = [i \in Processes |-> "up"]
    /\ pipe = [i \in Processes |-> <<>>]
    /\ work = [i \in Processes |-> <<>>]
    /\ lambdas = {} /\ rerun = {} /\ dropped = {} /\ sent = {}
    /\ invoked = [p \in Payloads |-> 0]
-----------------------------------------------------------------------------
(* payload[x : x + size] for x in range(0, len(payload), size)               *)
Slices(s, size) ==
    [k \in 1..((Len(s) + size - 1) \div size) |->
        SubSeq(s, (k - 1) * size + 1, IF k * size < Len(s) THEN k * size ELSE Len(s))]

(* One chunk for each process and one for the Scheduler itself: its size is  *)
(* ceil(len(payload) / (num_invokers + 1)).                                  *)
ChunkSize(s) == (Len(s) + NumInvokers) \div (NumInvokers + 1)
Chunks(s) == Slices(s, ChunkSize(s))

(* The calls of lambda_client.invoke for the payloads of s: one for each, or *)
(* one Invoker Lambda for each slice, if the whole batch was large (forcing  *)
(* it, force_use_invoker_lambdas, is a Threshold of 0).                      *)
UseInvokerLambdas(batch) == Len(batch) > Threshold
Calls(s, many) ==
    LET slices == Slices(s, IF many THEN PerInvoker ELSE 1)
    IN  [k \in DOMAIN slices |-> [many |-> many, payloads |-> slices[k]]]

Count(ps) == invoked' = [p \in Payloads |-> IF p \in ps THEN invoked[p] + 1 ELSE invoked[p]]
InvokeAll(calls) ==
    /\ lambdas' = lambdas \cup {[payloads |-> c.payloads, done |-> 0, attempt |-> 0] :
                                   c \in {d \in ToSet(calls) : d.many}}
    /\ Count(UNION {ToSet(c.payloads) : c \in {d \in ToSet(calls) : ~d.many}})
    /\ UNCHANGED <<rerun, dropped>>
-----------------------------------------------------------------------------
(* send *)
WakeLoopNever == waker               \* mistake: the waker is not set
WakeLoop == waker \/ deadline = "none"

Send(p) ==
    /\ p \notin sent /\ \A q \in Payloads : q < p => q \in sent
    /\ sent' = sent \cup {p}
    /\ buffer' = Append(buffer, p)
    /\ waker' = WakeLoop
    /\ UNCHANGED <<deadline, loop, pleaseStop, remote, events, invoked>>

(* self.loop.time() reaches next_deadline.                                   *)
DeadlinePasses ==
    /\ deadline = "ahead"
    /\ deadline' = "passed"
    /\ UNCHANGED <<buffer, waker, loop, pleaseStop, remote, events, sent, invoked>>

(* The head of the while loop of _background_send.                           *)
LoopOrStop == loop' = IF pleaseStop THEN "stopped" ELSE "waiting"

(* _background_send comes out of waker.wait, being woken or by its time-out. *)
Awake == loop = "waiting" /\ (waker \/ deadline = "passed")

(* Nothing to send: wait without a deadline.                                 *)
NothingToSend ==
    /\ Awake
    /\ buffer = <<>>
    /\ waker' = FALSE
    /\ deadline' = "none"
    /\ LoopOrStop
    /\ UNCHANGED <<buffer, pleaseStop, remote, events, sent, invoked>>

(* Send interval not expired yet.                                            *)
TooEarly ==
    /\ Awake
    /\ buffer # <<>>
    /\ deadline = "ahead"
    /\ waker' = FALSE
    /\ LoopOrStop
    /\ UNCHANGED <<buffer, deadline, pleaseStop, remote, events, sent, invoked>>

(* Send the chunks after the first to the processes.                         *)
FillPipesAll(chunks, many) ==  \* mistake: the first chunk is sent as well
    [i \in Processes |->
        IF i <= Len(chunks)
        THEN Append(pipe[i], Calls(chunks[i], many)) ELSE pipe[i]]
FillPipes(chunks, many) ==
    [i \in Processes |->
        IF i + 1 <= Len(chunks)
        THEN Append(pipe[i], Calls(chunks[i + 1], many)) ELSE pipe[i]]

ChunksDue == Awake /\ buffer # <<>> /\ deadline # "ahead"
PipesClosed == \E i \in Processes : process[i] = "terminated"

(* self.loop.time() + self.interval *)
NextDeadline == "ahead"

(* Take the buffer, divide it, and invoke the first chunk.                   *)
SendBatch ==
    /\ ChunksDue
    /\ ~(PipesClosed /\ Len(Chunks(buffer)) > 1)
    /\ waker' = FALSE
    /\ deadline' = NextDeadline
    /\ buffer' = <<>>
    /\ pipe' = FillPipes(Chunks(buffer), UseInvokerLambdas(buffer))
    /\ InvokeAll(Calls(Chunks(buffer)[1], UseInvokerLambdas(buffer)))
    /\ LoopOrStop
    /\ UNCHANGED <<pleaseStop, process, work, sent>>

(* The same, but a call of invoke() raises, or the answer to one that was    *)
(* accepted is lost: the loop is left.                                       *)
SendBatchFails ==
    /\ ChunksDue
    /\ ~(PipesClosed /\ Len(Chunks(buffer)) > 1)
    /\ waker' = FALSE
    /\ deadline' = NextDeadline
    /\ buffer' = <<>>
    /\ pipe' = FillPipes(Chunks(buffer), UseInvokerLambdas(buffer))
    /\ LET calls == Calls(Chunks(buffer)[1], UseInvokerLambdas(buffer))
       IN  \E k \in 0..Len(calls) : InvokeAll(SubSeq(calls, 1, k))
    /\ loop' = "stopped"
    /\ UNCHANGED <<pleaseStop, process, work, sent>>

(* conn.send raises, outside the try, and the coroutine ends.  After close() *)
(* the first send does, as all pipes are closed; a send to a process that    *)
(* has died may, if nobody holds the other end of its pipe any more (its     *)
(* siblings may have inherited it: then the message just stays there).       *)
SendOnBrokenPipe ==
    /\ ChunksDue
    /\ \E i \in Processes :
          /\ process[i] # "up"
          /\ i + 1 <= Len(Chunks(buffer))
          /\ \A j \in 1..(i - 1) : process[j] # "terminated"
          /\ LET filled == FillPipes(Chunks(buffer), UseInvokerLambdas(buffer))
             IN  pipe' = [j \in Processes |-> IF j < i THEN filled[j] ELSE pipe[j]]
    /\ waker' = FALSE
    /\ deadline' = NextDeadline
    /\ buffer' = <<>>
    /\ loop' = "dead"
    /\ UNCHANGED <<pleaseStop, process, work, events, sent, invoked>>

(* close; abort empties the buffer as well.                                  *)
Stop(left) ==
    /\ ~pleaseStop
    /\ pleaseStop' = TRUE
    /\ waker' = TRUE
    /\ buffer' = left
    /\ process' = [i \in Processes |-> "terminated"]
    /\ UNCHANGED <<deadline, loop, pipe, work, events, sent, invoked>>
Close == Stop(buffer)
Abort == Stop(<<>>)
-----------------------------------------------------------------------------
(* invoker_polling_process: take a message from the pipe, ...                *)
Receive(i) ==
    /\ process[i] = "up"
    /\ work[i] = <<>>
    /\ pipe[i] # <<>>
    /\ work' = [work EXCEPT ![i] = Head(pipe[i])]
    /\ pipe' = [pipe EXCEPT ![i] = Tail(@)]
    /\ UNCHANGED <<local, process, events, sent, invoked>>

(* ... and make its calls; an exception, of a call or of recv, is not caught *)
(* (if the call that raises was accepted, that is InvokeNext first).         *)
InvokeNext(i) ==
    /\ process[i] = "up"
    /\ work[i] # <<>>
    /\ InvokeAll(<<Head(work[i])>>)
    /\ work' = [work EXCEPT ![i] = Tail(@)]
    /\ UNCHANGED <<local, process, pipe, sent>>

ProcessFails(i) ==
    /\ process[i] = "up"
    /\ process' = [process EXCEPT ![i] = "dead"]
    /\ UNCHANGED <<local, pipe, work, events, sent, invoked>>

(* The handler of the Invoker Lambda: invoke an Executor for each payload,   *)
(* one after the other.                                                      *)
Becomes(l, after) == lambdas' = (lambdas \ {l}) \cup after

InvokerLambdaInvokes(l) ==
    /\ l.done < Len(l.payloads)
    /\ Becomes(l, {[l EXCEPT !.done = @ + 1]})
    /\ Count({l.payloads[l.done + 1]})
    /\ UNCHANGED <<local, remote, rerun, dropped, sent>>

InvokerLambdaReturns(l) ==
    /\ l.done = Len(l.payloads)
    /\ Becomes(l, {})
    /\ UNCHANGED <<local, remote, rerun, dropped, sent, invoked>>

(* It raises: the payloads cannot be read from Redis, or a call of invoke()  *)
(* fails or its answer is lost.  Nothing is caught, so the event fails, and  *)
(* AWS runs all of it again, a number of times.                              *)
DoneOf(l) == {l.payloads[j] : j \in 1..l.done}
LeftOf(l) == {l.payloads[j] : j \in (l.done + 1)..Len(l.payloads)}

InvokerLambdaFails(l) ==
    /\ IF l.attempt < Retries
       THEN /\ Becomes(l, {[l EXCEPT !.done = 0, !.attempt = @ + 1]})
            /\ rerun' = rerun \cup DoneOf(l)
            /\ dropped' = dropped
       ELSE /\ Becomes(l, {})
            /\ dropped' = dropped \cup LeftOf(l)
            /\ rerun' = rerun
    /\ UNCHANGED <<local, remote, sent, invoked>>

InvokerLambda(l) ==
    InvokerLambdaInvokes(l) \/ InvokerLambdaReturns(l) \/ InvokerLambdaFails(l)

BackgroundSend ==
    NothingToSend \/ TooEarly \/ SendBatch \/ SendBatchFails \/ SendOnBrokenPipe
ProcessStep(i) == Receive(i) \/ InvokeNext(i)

Next ==
    \/ \E p \in Payloads : Send(p)
    \/ DeadlinePasses \/ BackgroundSend \/ Close \/ Abort
    \/ \E i \in Processes : ProcessStep(i) \/ ProcessFails(i)
    \/ \E l \in lambdas : InvokerLambda(l)

Spec == Init /\ [][Next]_vars

(* Time passes, the event loop runs its callbacks, the processes and the     *)
(* Invoker Lambdas run.                                                      *)
FairSpec ==
    /\ Spec
    /\ WF_vars(DeadlinePasses)
    /\ WF_vars(BackgroundSend)
    /\ \A i \in Processes : WF_vars(ProcessStep(i))
    /\ WF_vars(\E l \in lambdas : InvokerLambda(l))
-----------------------------------------------------------------------------
(* The coroutine never sleeps on a full buffer: when it waits without a      *)
(* deadline, either nothing is buffered or it has been woken, although       *)
(* send() avoids setting the waker whenever there is a deadline.             *)
NoLostWakeup ==
    loop = "waiting" /\ buffer # <<>> => waker \/ deadline # "none"

(* Where a payload is on its way: the buffer, the processes and the Invoker  *)
(* Lambdas.  A process has the message it works on and those in its pipe; a  *)
(* spot is a call of a message of a process, and a payload of that call.     *)
Messages(i) == <<work[i]>> \o pipe[i]
Spots(i) ==
    UNION {UNION {{<<i, n, k>>} \X DOMAIN Messages(i)[n][k].payloads : k \in DOMAIN Messages(i)[n]} :
           n \in DOMAIN Messages(i)}
PayloadAt(call, j) == Messages(call[1])[call[2]][call[3]].payloads[j]
Occurrences(p) ==
    Cardinality({j \in DOMAIN buffer : buffer[j] = p})
    + Cardinality({g \in UNION {Spots(i) : i \in Processes} : PayloadAt(g[1], g[2]) = p})
    + Cardinality({l \in lambdas : p \in LeftOf(l)})

(* In the Scheduler or a process, a call of invoke() or conn.send has raised,*)
(* or the invoker was closed.                                                *)
Disturbed == pleaseStop \/ loop # "waiting" \/ \E i \in Processes : process[i] # "up"

(* However the batches are divided, no payload is invoked twice or on its    *)
(* way after it was invoked, unless an Invoker Lambda failed after it had    *)
(* invoked it: then once per attempt.  None gets lost before something fails *)
(* outside of the Invoker Lambdas, but what an Invoker Lambda had left when  *)
(* it failed for the last time.                                              *)
EachInOnePlace ==
    \A p \in sent :
        /\ invoked[p] <= Retries + 1
        /\ p \notin rerun => Occurrences(p) + invoked[p] <= 1
        /\ ~Disturbed /\ p \notin dropped => Occurrences(p) + invoked[p] >= 1

(* Every payload sent gets its Executor unless something fails outside of    *)
(* the Invoker Lambdas, or its Invoker Lambda in every attempt.              *)
SentIsInvoked ==
    \A p \in Payloads : p \in sent ~> invoked[p] > 0 \/ p \in dropped \/ Disturbed
=============================================================================
