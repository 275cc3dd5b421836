---------------------------- MODULE Connections ----------------------------
(* Remote calls: ConnectionPool and PooledRPCCall on the calling side,       *)
(* Server.handle_comm on the other.                                          *)
EXTENDS Naturals, Sequences, FiniteSets, FiniteSetsExt, SequencesExt

CONSTANTS Callers, Addrs,
          Limit,     \* ConnectionPool.limit
          MaxCalls, MaxConns, MaxRemoves  \* bounds

VARIABLES conns,      \* conns[k]: [at, up, requests, answers] of the k-th connection
          available, occupied,
          room,       \* whether the pool's event is set
          removes,    \* how often remove(addr) replaced an address's sets
          made,       \* the number of calls begun
          caller,     \* caller[c]: the call of coroutine c
          stray,      \* an answer was written for a request that wanted none
          refused     \* a connect has failed

connVars == <<conns, available, occupied, room, removes, made, caller, stray, refused>>

Ids == DOMAIN conns
Open(av, oc) == FoldSet(LAMBDA a, n : n + Cardinality(av[a]) + Cardinality(oc[a]), 0, Addrs)
Idle == [pc |-> "idle"]

ConnInit ==
    /\ conns = <<>>
    /\ available = [a \in Addrs |-> {}] /\ occupied = [a \in Addrs |-> {}]
    /\ room = FALSE /\ removes = [a \in Addrs |-> 0] /\ made = 0
    /\ caller = [c \in Callers |-> Idle]
    /\ stray = FALSE /\ refused = FALSE

CloseAll(ks) == [k \in Ids |-> IF k \in ks THEN [conns[k] EXCEPT !.up = FALSE, !.requests = <<>>, !.answers = <<>>]
                               ELSE conns[k]]
-----------------------------------------------------------------------------
(* connect, from the check of the limit on: with no room the idle            *)
(* connections are collected, and the caller waits for the event.            *)
AtLimitNever(n) == FALSE  \* mistake: the limit is not checked
AtLimit(n) == n >= Limit
WaitForRoom(c, call, av) ==
    IF ~AtLimit(Open(av, occupied))
    THEN /\ caller' = [caller EXCEPT ![c] = [call EXCEPT !.pc = "connecting"]]
         /\ available' = av /\ UNCHANGED <<conns, room>>
    ELSE /\ caller' = [caller EXCEPT ![c] = [call EXCEPT !.pc = "waiting"]]
         /\ conns' = CloseAll(UNION {av[a] : a \in Addrs})  \* collect
         /\ available' = [a \in Addrs |-> {}]
         /\ room' = (Open(available', occupied) < Limit)

(* connect: an idle connection to the address is taken if it is still open.  *)
TakenFromNot(a, k) == available  \* mistake: the connection is not popped
TakenFrom(a, k) == [available EXCEPT ![a] = @ \ {k}]
Connect(c, a, reply) ==
    LET call == [pc |-> "calling", addr |-> a, epoch |-> removes[a], conn |-> 0,
                 call |-> made + 1, reply |-> reply, got |-> 0]
    IN  /\ caller[c].pc = "idle" /\ made < MaxCalls
        /\ made' = made + 1
        /\ \/ available[a] = {} /\ WaitForRoom(c, call, available) /\ UNCHANGED occupied
           \/ \E k \in available[a] :
                 IF conns[k].up
                 THEN /\ available' = TakenFrom(a, k)
                      /\ occupied' = [occupied EXCEPT ![a] = @ \cup {k}]
                      /\ caller' = [caller EXCEPT ![c] = [call EXCEPT !.conn = k]]
                      /\ UNCHANGED <<conns, room>>
                 ELSE WaitForRoom(c, call, TakenFrom(a, k)) /\ UNCHANGED occupied
        /\ UNCHANGED <<removes, stray, refused>>

LookAgain(c) ==
    /\ caller[c].pc = "waiting" /\ room
    /\ WaitForRoom(c, caller[c], available)
    /\ UNCHANGED <<occupied, removes, made, stray, refused>>

(* The sets were read before the yield: after remove they are not the        *)
(* pool's any more.                                                          *)
Connected(c) ==
    LET k == Len(conns) + 1   a == caller[c].addr
    IN  /\ caller[c].pc = "connecting" /\ k <= MaxConns
        /\ conns' = Append(conns, [at |-> a, up |-> TRUE, requests |-> <<>>, answers |-> <<>>])
        /\ occupied' = IF caller[c].epoch = removes[a] THEN [occupied EXCEPT ![a] = @ \cup {k}]
                       ELSE occupied
        /\ room' = (room /\ Open(available, occupied') < Limit)
        /\ caller' = [caller EXCEPT ![c].pc = "calling", ![c].conn = k]
        /\ UNCHANGED <<available, removes, made, stray, refused>>

ConnectFails(c) ==
    /\ caller[c].pc = "connecting"
    /\ caller' = [caller EXCEPT ![c] = Idle] /\ refused' = TRUE
    /\ UNCHANGED <<conns, available, occupied, room, removes, made, stray>>
-----------------------------------------------------------------------------
(* send_recv: the request, then, if it wants one, the answer.                *)
Request(c) ==
    LET me == caller[c]
    IN  /\ me.pc = "calling"
        /\ IF conns[me.conn].up
           THEN /\ conns' = [conns EXCEPT ![me.conn].requests = Append(@, [call |-> me.call, reply |-> me.reply])]
                /\ caller' = [caller EXCEPT ![c].pc = IF me.reply THEN "reading" ELSE "done"]
           ELSE caller' = [caller EXCEPT ![c].pc = "done"] /\ UNCHANGED conns
        /\ UNCHANGED <<available, occupied, room, removes, made, stray, refused>>

ReadAnswer(c) ==
    LET me == caller[c]
    IN  /\ me.pc = "reading"
        /\ IF conns[me.conn].up
           THEN /\ conns[me.conn].answers # <<>>
                /\ caller' = [caller EXCEPT ![c].pc = "done", ![c].got = Head(conns[me.conn].answers)]
                /\ conns' = [conns EXCEPT ![me.conn].answers = Tail(@)]
           ELSE caller' = [caller EXCEPT ![c].pc = "done"] /\ UNCHANGED conns
        /\ UNCHANGED <<available, occupied, room, removes, made, stray, refused>>

(* PooledRPCCall's finally: reuse.                                           *)
NoticesNot(n) == FALSE  \* mistake: the waiting coroutines are not woken
Notices(n) == n < Limit
GiveBack(c) ==
    LET me == caller[c]   a == me.addr
        oc == [occupied EXCEPT ![a] = @ \ {me.conn}]
    IN  /\ me.pc = "done"
        /\ caller' = [caller EXCEPT ![c] = Idle]
        /\ occupied' = oc
        /\ IF me.conn \in occupied[a] /\ conns[me.conn].up
           THEN available' = [available EXCEPT ![a] = @ \cup {me.conn}] /\ UNCHANGED room
           ELSE /\ room' = (room \/ (me.conn \in occupied[a] /\ Notices(Open(available, oc))))
                /\ UNCHANGED available
        /\ UNCHANGED <<conns, removes, made, stray, refused>>
-----------------------------------------------------------------------------
(* handle_comm: the requests of a connection in turn.  An exception of the   *)
(* handler is an answer as well.                                             *)
AnsweredAlways(r) == TRUE  \* mistake: also when no answer is wanted
Answered(r) == r.reply
HandleRequest(k) ==
    /\ k \in Ids /\ conns[k].requests # <<>>
    /\ LET r == Head(conns[k].requests)
       IN  conns' = [conns EXCEPT ![k].requests = Tail(@),
                                  ![k].answers = IF Answered(r) THEN Append(@, r.call) ELSE @]
    /\ UNCHANGED <<available, occupied, room, removes, made, caller, stray, refused>>

(* A message that cannot be deserialized is answered whether or not it wants *)
(* an answer.                                                                *)
ReadFails(k) ==
    /\ k \in Ids /\ conns[k].requests # <<>>
    /\ LET r == Head(conns[k].requests)
       IN  /\ conns' = [conns EXCEPT ![k].requests = Tail(@), ![k].answers = Append(@, r.call)]
           /\ stray' = (stray \/ ~r.reply)
    /\ UNCHANGED <<available, occupied, room, removes, made, caller, refused>>

(* The connection is lost, or the server ends handle_comm and closes it.     *)
PeerCloses(k) ==
    /\ k \in Ids /\ conns[k].up
    /\ conns' = CloseAll({k})
    /\ UNCHANGED <<available, occupied, room, removes, made, caller, stray, refused>>

(* ConnectionPool.remove, when the Scheduler removes a worker.               *)
RemoveAddr(a) ==
    /\ \A b \in Addrs : removes[b] < MaxRemoves
    /\ removes' = [removes EXCEPT ![a] = @ + 1]
    /\ conns' = CloseAll(available[a] \cup occupied[a])
    /\ available' = [available EXCEPT ![a] = {}]
    /\ occupied' = [occupied EXCEPT ![a] = {}]
    /\ room' = (room \/ Open(available', occupied') < Limit)
    /\ UNCHANGED <<made, caller, stray, refused>>

ConnNext ==
    \/ \E c \in Callers :
          \/ \E a \in Addrs, reply \in BOOLEAN : Connect(c, a, reply)
          \/ LookAgain(c) \/ Connected(c) \/ ConnectFails(c) \/ Request(c) \/ ReadAnswer(c) \/ GiveBack(c)
    \/ \E k \in Ids : HandleRequest(k) \/ ReadFails(k) \/ PeerCloses(k)
    \/ \E a \in Addrs : RemoveAddr(a)
-----------------------------------------------------------------------------
(* A connection serves one call at a time, and an idle one serves none.      *)
OneCallEach ==
    \A c \in Callers : caller[c].pc \in {"calling", "reading", "done"} =>
        /\ \A a \in Addrs : caller[c].conn \notin available[a]
        /\ \A d \in Callers \ {c} : caller[d].pc \in {"calling", "reading", "done"}
                                        => caller[c].conn # caller[d].conn

(* A caller reads the answer to its own request, unless a message that       *)
(* wanted no answer got one.                                                 *)
AnswersMatch == ~stray => \A c \in Callers :
    caller[c].pc = "done" => caller[c].got \in {0, caller[c].call}

(* Nobody waits while there is room that no one is about to take and the     *)
(* event is not set, unless a connect that had made room failed.             *)
RoomNoticed == ~refused /\ (\A c \in Callers : caller[c].pc # "connecting") =>
    \A c \in Callers : caller[c].pc = "waiting" /\ ~room => Open(available, occupied) >= Limit

(* The pool grows past its limit only by connections made at the same time:  *)
(* those whose callers checked the limit before.                             *)
PoolBounded == Open(available, occupied) < Limit + Cardinality(Callers)
=============================================================================
