--------------------------- MODULE SharedFutures ---------------------------
(* Futures shared between clients: a Queue (queues.py), a Variable           *)
(* (variable.py) and a dataset (publish.py), each one of them, and what of   *)
(* client_desires_keys and client_releases_keys keeps a key alive.  Calls    *)
(* are RPCs, one at a time for each client, on other connections than its    *)
(* stream.                                                                   *)
EXTENDS Naturals, Sequences, SequencesExt

CONSTANTS Sharers,    \* the clients
          Shared,     \* the keys of futures; the first client has them all
          First,      \* that client
          NoKey,      \* no key
          Blameless,  \* keys whose task may be erred without blame (ErredHasBlame of SchedulerTasks)
          MaxSize,    \* maxsize of the queue
          MaxShares   \* bound: the operations clients make

VARIABLES want,       \* who_wants: pairs of a client, "queue", "variable" or "dataset" and a key
          gone,       \* the keys forgotten because nobody wanted them
          mine,       \* mine[c]: the keys client c has futures of
          upward,     \* upward[c]: the stream of c to the Scheduler
          answer,     \* answer[c]: what is on its way to c
          queued,     \* queues[name]._queue
          putters,    \* keys whose put waits for room
          counted,    \* future_refcount
          handles,    \* client_refcount[name]; the queue exists if not 0
          known,      \* the queue is among self.clients
          value,      \* variables[name], or NoKey
          tokens,     \* tokens[k]: the number of tokens in waiting[k, name]
          releasing,  \* coroutines of release and delete that wait for tokens
          cond,       \* waiting_conditions[name] exists
          dataset,    \* datasets[name], or NoKey
          shares,     \* operations made
          gaps        \* what has happened that loses track of a key

sharedVars == <<want, gone, mine, upward, answer, queued, putters, counted, handles, known, value, tokens,
                releasing, cond, dataset, shares, gaps>>
queueVars == <<queued, putters, counted, handles, known>>
variableVars == <<value, tokens, releasing, cond>>

NoAnswer == [from |-> "none", keys |-> <<>>]

SharedInit ==
    /\ want = {First} \X Shared /\ gone = {}
    /\ mine = [c \in Sharers |-> IF c = First THEN Shared ELSE {}]
    /\ upward = [c \in Sharers |-> <<>>] /\ answer = [c \in Sharers |-> NoAnswer]
    /\ queued = <<>> /\ putters = <<>> /\ counted = [k \in Shared |-> 0] /\ handles = 1 /\ known = FALSE
    /\ value = NoKey /\ tokens = [k \in Shared |-> 0] /\ releasing = <<>> /\ cond = FALSE
    /\ dataset = NoKey /\ shares = 0 /\ gaps = {}

(* client_desires_keys and client_releases_keys: a key nobody wants any more *)
(* is forgotten.                                                             *)
Desire(who, k) == want' = want \cup {<<who, k>>} /\ UNCHANGED gone
Drop(pairs) ==
    /\ want' = want \ pairs
    /\ gone' = gone \cup {k \in Shared : (\E w \in want \cap pairs : w[2] = k)
                                         /\ ~\E w \in want \ pairs : w[2] = k}
Share(c) == shares < MaxShares /\ answer[c] = NoAnswer /\ shares' = shares + 1
Tell(c, ms) == upward' = [upward EXCEPT ![c] = @ \o ms]
-----------------------------------------------------------------------------
(* Queue.put: the queue wants the key at once, the record may have to wait.  *)
QueuePut(c, k) ==
    /\ Share(c) /\ k \in mine[c] /\ handles > 0
    /\ counted' = [counted EXCEPT ![k] = @ + 1]
    /\ Desire("queue", k) /\ known' = TRUE
    /\ IF Len(queued) < MaxSize THEN queued' = Append(queued, k) /\ UNCHANGED putters
       ELSE putters' = Append(putters, k) /\ UNCHANGED queued
    /\ UNCHANGED <<mine, upward, answer, handles, variableVars, dataset, gaps>>

(* client_desires_keys, called by put of the queue, set of the variable and  *)
(* put of the dataset, raises for a task that is erred without blame, after  *)
(* it has recorded the want; nothing else is done.                           *)
PutFails(c, k, who) ==
    /\ Share(c) /\ k \in mine[c] \cap Blameless
    /\ who = "queue" => handles > 0
    /\ who = "dataset" => dataset = NoKey
    /\ Desire(who, k)
    /\ IF who = "queue" THEN counted' = [counted EXCEPT ![k] = @ + 1] /\ known' = TRUE
       ELSE UNCHANGED <<counted, known>>
    /\ gaps' = gaps \cup {"put failed"}
    /\ UNCHANGED <<mine, upward, answer, queued, putters, handles, variableVars, dataset>>

(* The put times out: the key stays counted.                                 *)
PutExpires ==
    /\ putters # <<>>
    /\ putters' = Tail(putters)
    /\ gaps' = gaps \cup {"put expired"}
    /\ UNCHANGED <<want, gone, mine, upward, answer, queued, counted, handles, known, variableVars, dataset, shares>>

(* Queue.get, of one record or of a batch; then who waits can put.           *)
Pop(n) ==
    LET all == queued \o putters
        size == Min({MaxSize, Len(all) - n})
    IN  /\ queued' = SubSeq(all, n + 1, n + size)
        /\ putters' = SubSeq(all, n + size + 1, Len(all))
Records(n) == SubSeq(queued \o putters, 1, n)
QueueGet(c, n) ==
    /\ Share(c)
    /\ answer' = [answer EXCEPT ![c] = [from |-> "queue", keys |-> Records(n)]]
    /\ Pop(n)
    /\ UNCHANGED <<want, gone, mine, upward, counted, handles, known, variableVars, dataset, gaps>>

(* process reads the exception of the task to blame, after all records are   *)
(* popped; of a task that is erred without blame it raises: the client gets  *)
(* an error, the records are lost, and their keys stay counted and wanted.   *)
QueueGetFails(c, n) ==
    /\ Share(c)
    /\ ToSet(Records(n)) \cap Blameless # {}
    /\ Pop(n)
    /\ gaps' = gaps \cup {"get failed"}
    /\ UNCHANGED <<want, gone, mine, upward, answer, counted, handles, known, variableVars, dataset>>

(* _get of Queue and Variable and get_dataset: a Future of each key, which   *)
(* informs the Scheduler, and only then is the shared reference given back.  *)
GiveBackFirst(from, k) == <<[op |-> from, key |-> k], [op |-> "desire", key |-> k]>>  \* mistake
Inform(from, k) == <<[op |-> "desire", key |-> k]>>
                   \o (IF from = "dataset" THEN <<>> ELSE <<[op |-> from, key |-> k]>>)
Received(c) ==
    /\ answer[c] # NoAnswer
    /\ mine' = [mine EXCEPT ![c] = @ \cup ToSet(answer[c].keys)]
    /\ Tell(c, FlattenSeq([i \in DOMAIN answer[c].keys |-> Inform(answer[c].from, answer[c].keys[i])]))
    /\ answer' = [answer EXCEPT ![c] = NoAnswer]
    /\ UNCHANGED <<want, gone, queueVars, variableVars, dataset, shares, gaps>>

(* A client lets go of a future; closes the queue; deletes the variable.     *)
LetGo(c, k) ==
    /\ k \in mine[c] /\ answer[c] = NoAnswer
    /\ mine' = [mine EXCEPT ![c] = @ \ {k}]
    /\ Tell(c, <<[op |-> "release", key |-> k]>>)
    /\ UNCHANGED <<want, gone, answer, queueVars, variableVars, dataset, shares, gaps>>
CloseOrDelete(c, op) ==
    /\ Share(c) /\ op \in {"close", "delete"}
    /\ Tell(c, <<[op |-> op, key |-> NoKey]>>)
    /\ UNCHANGED <<want, gone, mine, answer, queueVars, variableVars, dataset, gaps>>

(* queue_create, for one more Queue object.                                  *)
CreateQueue(c) ==
    /\ Share(c)
    /\ handles' = handles + 1
    /\ UNCHANGED <<want, gone, mine, upward, answer, queued, putters, counted, known, variableVars, dataset, gaps>>
-----------------------------------------------------------------------------
(* handle_stream: the next message of a client.                              *)
NextUp(c, op) ==
    /\ upward[c] # <<>> /\ Head(upward[c]).op = op
    /\ upward' = [upward EXCEPT ![c] = Tail(@)]

HandleDesire(c) ==
    /\ NextUp(c, "desire")
    /\ Desire(c, Head(upward[c]).key)
    /\ UNCHANGED <<mine, answer, queueVars, variableVars, dataset, shares, gaps>>
HandleRelease(c) ==
    /\ NextUp(c, "release")
    /\ Drop({<<c, Head(upward[c]).key>>})
    /\ UNCHANGED <<mine, answer, queueVars, variableVars, dataset, shares, gaps>>

(* QueueExtension.future_release *)
LastCountedSecond(k) == counted[k] = 2  \* mistake: the last one stays
LastCounted(k) == counted[k] = 1
QueueFutureRelease(c) ==
    /\ NextUp(c, "queue")
    /\ LET k == Head(upward[c]).key
       IN  /\ counted' = [counted EXCEPT ![k] = @ - 1]
           /\ IF LastCounted(k) THEN Drop({<<"queue", k>>}) ELSE UNCHANGED <<want, gone>>
    /\ UNCHANGED <<mine, answer, queued, putters, handles, known, variableVars, dataset, shares, gaps>>

(* QueueExtension.release: the last one releases the futures that are in the *)
(* queue, and forgets to count them.                                         *)
QueueRelease(c) ==
    /\ handles = 1 => known
    /\ NextUp(c, "close")
    /\ handles' = IF handles = 0 THEN 0 ELSE handles - 1
    /\ IF handles = 1
       THEN /\ Drop({"queue"} \X ToSet(queued))
            /\ queued' = <<>> /\ putters' = <<>>
            /\ gaps' = gaps \cup {"queue closed"}
       ELSE UNCHANGED <<want, gone, queued, putters, gaps>>
    /\ UNCHANGED <<mine, answer, counted, known, variableVars, dataset, shares>>

(* A handler that raises closes the stream, and the client starts afresh.    *)
StreamFails(c) ==
    /\ Drop({c} \X Shared)
    /\ upward' = [upward EXCEPT ![c] = <<>>] /\ mine' = [mine EXCEPT ![c] = {}]
    /\ gaps' = gaps \cup {"stream closed"}
    /\ UNCHANGED <<answer, queued, putters, counted, known, variableVars, dataset, shares>>

(* If there never was a future in the queue, client_releases_keys does not   *)
(* know it and raises.                                                       *)
QueueReleaseFails(c) ==
    /\ handles = 1 /\ ~known /\ handles' = 0
    /\ upward[c] # <<>> /\ Head(upward[c]).op = "close"
    /\ StreamFails(c)

(* client_desires_keys raises for a client's own want, too.                  *)
HandleDesireFails(c) ==
    /\ upward[c] # <<>> /\ Head(upward[c]).op = "desire" /\ Head(upward[c]).key \in Blameless
    /\ StreamFails(c) /\ UNCHANGED handles
-----------------------------------------------------------------------------
(* Variable.set: the old value is released when no token is out for it.      *)
VariableSet(c, k) ==
    /\ Share(c) /\ k \in mine[c]
    /\ value' = k
    /\ LET leaves == value \notin {NoKey, k}
           waits == leaves /\ tokens[value] > 0
           now == IF leaves /\ ~waits THEN {<<"variable", value>>} ELSE {}
       IN  /\ want' = (want \cup {<<"variable", k>>}) \ now
           /\ gone' = gone \cup {j \in Shared : now # {} /\ j = value /\ ~\E w \in want \ now : w[2] = j}
           /\ releasing' = IF waits THEN Append(releasing, [key |-> value, deletes |-> FALSE, awake |-> FALSE])
                           ELSE releasing
           /\ cond' = (cond \/ waits)
           /\ gaps' = IF \E r \in ToSet(releasing) : r.key = k THEN gaps \cup {"set back"} ELSE gaps
    /\ UNCHANGED <<mine, upward, answer, queueVars, tokens, dataset>>

(* Variable.get: a token keeps the key until it is given back.  Of a task    *)
(* erred without blame it raises before there is a token: nothing changes.   *)
NoTokens == tokens  \* mistake: the token is not kept
NewToken == [tokens EXCEPT ![value] = @ + 1]
VariableGet(c) ==
    /\ Share(c) /\ value # NoKey
    /\ answer' = [answer EXCEPT ![c] = [from |-> "variable", keys |-> <<value>>]]
    /\ tokens' = NewToken
    /\ UNCHANGED <<want, gone, mine, upward, queueVars, value, releasing, cond, dataset, gaps>>

(* VariableExtension.future_release *)
VariableFutureRelease(c) ==
    /\ NextUp(c, "variable")
    /\ LET k == Head(upward[c]).key
       IN  /\ tokens' = [tokens EXCEPT ![k] = IF @ = 0 THEN 0 ELSE @ - 1]
           /\ IF tokens'[k] = 0
              THEN /\ releasing' = [i \in DOMAIN releasing |-> [releasing[i] EXCEPT !.awake = TRUE]]
                   /\ cond' = TRUE
              ELSE UNCHANGED <<releasing, cond>>
    /\ UNCHANGED <<want, gone, mine, answer, queueVars, value, dataset, shares, gaps>>

(* VariableExtension.delete once the value is released: it expects that the  *)
(* condition exists, and only then deletes the variable.  A coroutine that   *)
(* still waits for the old condition waits for ever.                         *)
Deleted(rest) ==
    /\ value' = IF cond THEN NoKey ELSE value
    /\ cond' = FALSE
    /\ releasing' = IF cond THEN SelectSeq(rest, LAMBDA r : r.awake) ELSE rest
    /\ gaps' = gaps \cup {"deleted"}
VariableDelete(c) ==
    /\ NextUp(c, "delete")
    /\ IF value # NoKey /\ tokens[value] > 0
       THEN /\ releasing' = Append(releasing, [key |-> value, deletes |-> TRUE, awake |-> FALSE])
            /\ cond' = TRUE /\ UNCHANGED <<want, gone, value, gaps>>
       ELSE Drop({<<"variable", value>>}) /\ Deleted(releasing)
    /\ UNCHANGED <<mine, answer, queueVars, tokens, dataset, shares>>

(* release, after its condition was notified.                                *)
ReleaseGoesOn(i) ==
    /\ i \in DOMAIN releasing /\ releasing[i].awake
    /\ LET r == releasing[i]
           rest == RemoveAt(releasing, i)
       IN  IF tokens[r.key] > 0
           THEN /\ releasing' = [releasing EXCEPT ![i].awake = FALSE]
                /\ cond' = TRUE /\ UNCHANGED <<want, gone, value, gaps>>
           ELSE /\ Drop({<<"variable", r.key>>})
                /\ IF r.deletes THEN Deleted(rest)
                   ELSE releasing' = rest /\ UNCHANGED <<value, cond, gaps>>
    /\ UNCHANGED <<mine, upward, answer, queueVars, tokens, dataset, shares>>
-----------------------------------------------------------------------------
(* PublishExtension: put, delete and get.                                    *)
Publish(c, k) ==
    /\ Share(c) /\ k \in mine[c] /\ dataset = NoKey
    /\ dataset' = k
    /\ Desire("dataset", k)
    /\ UNCHANGED <<mine, upward, answer, queueVars, variableVars, gaps>>
Unpublish(c) ==
    /\ Share(c) /\ dataset # NoKey
    /\ dataset' = NoKey
    /\ Drop({<<"dataset", dataset>>})
    /\ gaps' = gaps \cup {"unpublished"}
    /\ UNCHANGED <<mine, upward, answer, queueVars, variableVars>>
GetDataset(c) ==
    /\ Share(c) /\ dataset # NoKey
    /\ answer' = [answer EXCEPT ![c] = [from |-> "dataset", keys |-> <<dataset>>]]
    /\ UNCHANGED <<want, gone, mine, upward, queueVars, variableVars, dataset, gaps>>

SharedNext ==
    \/ \E c \in Sharers :
          \/ \E k \in Shared : QueuePut(c, k) \/ LetGo(c, k) \/ VariableSet(c, k) \/ Publish(c, k)
                            \/ \E who \in {"queue", "variable", "dataset"} : PutFails(c, k, who)
          \/ \E n \in 1..Len(queued \o putters) : QueueGet(c, n) \/ QueueGetFails(c, n)
          \/ \E op \in {"close", "delete"} : CloseOrDelete(c, op)
          \/ Received(c) \/ CreateQueue(c) \/ HandleDesire(c) \/ HandleRelease(c)
          \/ QueueFutureRelease(c) \/ QueueRelease(c) \/ QueueReleaseFails(c)
          \/ HandleDesireFails(c) \/ VariableGet(c) \/ VariableFutureRelease(c)
          \/ VariableDelete(c) \/ Unpublish(c) \/ GetDataset(c)
    \/ PutExpires
    \/ \E i \in DOMAIN releasing : ReleaseGoesOn(i)
-----------------------------------------------------------------------------
Answers(from) == UNION {IF answer[c].from = from THEN ToSet(answer[c].keys)
                        ELSE {} : c \in Sharers}

(* A future that is handed over by the queue or the variable is not          *)
(* forgotten on the way: it is wanted while it is in the queue or the        *)
(* variable, and until the client that gets it wants it itself.  Closing a   *)
(* queue does forget futures that have just been taken out of it; a variable *)
(* that is deleted, or set back to a value that is being released, loses it; *)
(* and a dataset protects nobody who has just got it.                        *)
HandedOverAlive ==
    gaps \cap {"queue closed", "set back", "deleted", "unpublished"} = {} =>
        gone \cap (ToSet(queued) \cup ToSet(putters) \cup {value}
                   \cup Answers("queue") \cup Answers("variable")) = {}

(* And nothing is held for ever: when nothing is on its way, the queue wants *)
(* what is in it and the variable its value.  A put that expires or raises,  *)
(* and a get that raises, do leave a key that is wanted for ever.            *)
HeldOnlyIfShared ==
    ("stream closed" \notin gaps /\ \A c \in Sharers : upward[c] = <<>> /\ answer[c] = NoAnswer) =>
        \A k \in Shared :
            /\ gaps \cap {"queue closed", "put expired", "put failed", "get failed"} = {} /\ <<"queue", k>> \in want
                => k \in ToSet(queued) \cup ToSet(putters)
            /\ gaps \cap {"deleted", "put failed"} = {} /\ <<"variable", k>> \in want /\ k # value
                => \E i \in DOMAIN releasing : releasing[i].key = k /\ releasing[i].awake
=============================================================================
