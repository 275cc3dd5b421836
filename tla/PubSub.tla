------------------------------- MODULE PubSub -------------------------------
(* Publish/Subscribe between workers and clients, for one topic: the         *)
(* extensions of the Scheduler, the workers and the client, and the classes  *)
(* Pub and Sub.  Pubs and Subs are made and dropped by user threads; their   *)
(* callbacks run in the event loop of the worker or client.                  *)
EXTENDS Naturals, Sequences, FiniteSets

CONSTANTS PubWorkers, SubWorkers, SubClients,
          MaxPubs, MaxSubs, MaxPuts  \* bounds: the Pubs and Subs made, and the calls of put

SubEnds == SubWorkers \cup SubClients
Ends == PubWorkers \cup SubEnds

VARIABLES publishers, subscribers, client_subscribers,  \* of the Scheduler's extension
          pub,       \* pub[w]: [at, subs, news] of the Pub of worker w; news: messages overtook each other
          flag,      \* publish_to_scheduler of worker w
          reply,     \* the answer of add_publisher on its way to w, or None
          up,        \* up[e]: the stream of e to the Scheduler
          down,      \* down[w]: the Scheduler's stream to a publishing worker
          sub,       \* sub[e]: [live, new, entry, cleanups, raced] of the Subs of e
          lost,      \* the ends whose stream was closed by an exception
          departed,      \* the clients that have disconnected
          pubs, subs, puts \* counters

None == [subs |-> {}, flag |-> FALSE, none |-> TRUE]
psVars == <<publishers, subscribers, client_subscribers, pub, flag, reply, up, down, sub, lost, departed,
            pubs, subs, puts>>
schedPart == <<publishers, subscribers, client_subscribers>>
pubPart == <<pub, flag, reply, pubs>>

PubSubInit ==
    /\ publishers = {} /\ subscribers = {} /\ client_subscribers = {}
    /\ pub = [w \in PubWorkers |-> [at |-> "none", subs |-> {}, news |-> FALSE]]
    /\ flag = [w \in PubWorkers |-> FALSE]
    /\ reply = [w \in PubWorkers |-> None]
    /\ up = [e \in Ends |-> <<>>] /\ down = [w \in PubWorkers |-> <<>>]
    /\ sub = [e \in SubEnds |-> [live |-> 0, new |-> "none", entry |-> FALSE, cleanups |-> 0, raced |-> FALSE]]
    /\ lost = {} /\ departed = {} /\ pubs = 0 /\ subs = 0 /\ puts = 0

(* worker_send of the Scheduler to the publishers.                           *)
TellPublishers(ws, m) == [w \in PubWorkers |-> IF w \in ws \ lost THEN Append(down[w], m) ELSE down[w]]
-----------------------------------------------------------------------------
(* Pub.__init__ and _start up to the remote call; the Pub is registered with *)
(* the worker's extension.                                                   *)
NewPub(w) ==
    /\ pub[w].at = "none" /\ pubs < MaxPubs /\ w \notin lost
    /\ pubs' = pubs + 1
    /\ pub' = [pub EXCEPT ![w] = [at |-> "asking", subs |-> {},
                                    news |-> up[w] # <<>> \/ down[w] # <<>>]]
    /\ UNCHANGED <<schedPart, flag, reply, up, down, sub, lost, departed, subs, puts>>

AddPublisher(w) ==  \* the Scheduler's handler; its answer is on a connection of its own
    /\ pub[w].at = "asking"
    /\ pub' = [pub EXCEPT ![w].at = "asked"]
    /\ publishers' = publishers \cup {w}
    /\ reply' = [reply EXCEPT ![w] =
           [subs |-> subscribers, flag |-> client_subscribers # {}, none |-> FALSE]]
    /\ UNCHANGED <<subscribers, client_subscribers, flag, up, down, sub, lost, departed, pubs, subs, puts>>

UpdateReplaces(old, new) == new  \* mistake: what was learnt meanwhile is forgotten
Update(old, new) == old \cup new
PubStarts(w) ==
    /\ pub[w].at = "asked"
    /\ pub' = [pub EXCEPT ![w].at = "started", ![w].subs = Update(@, reply[w].subs)]
    /\ flag' = [flag EXCEPT ![w] = reply[w].flag]
    /\ reply' = [reply EXCEPT ![w] = None]
    /\ UNCHANGED <<schedPart, up, down, sub, lost, departed, pubs, subs, puts>>

(* _put of a Pub that has started.                                           *)
Put(w) ==
    /\ pub[w].at = "started" /\ puts < MaxPuts /\ flag[w] /\ w \notin lost
    /\ puts' = puts + 1
    /\ up' = [up EXCEPT ![w] = Append(@, "msg")]
    /\ UNCHANGED <<schedPart, pubPart, down, sub, lost, departed, subs>>

(* The Pub is collected, and the cleanup of its worker finds none.           *)
DropPub(w) ==
    /\ pub[w].at = "started" /\ w \notin lost
    /\ pub' = [pub EXCEPT ![w] = [at |-> "none", subs |-> {}, news |-> FALSE]]
    /\ flag' = [flag EXCEPT ![w] = FALSE]
    /\ up' = [up EXCEPT ![w] = Append(@, "remove-publisher")]
    /\ UNCHANGED <<schedPart, reply, down, sub, lost, departed, pubs, subs, puts>>
-----------------------------------------------------------------------------
(* Sub.__init__ looks up the set of the topic's Subs; its callbacks add the  *)
(* Sub and send the message.  A cleanup between them leaves it in a set that *)
(* is not the extension's any more.                                          *)
NewSub(e) ==
    /\ sub[e].new = "none" /\ subs < MaxSubs /\ e \notin lost \cup departed
    /\ sub' = [sub EXCEPT ![e].new = "kept", ![e].entry = TRUE]
    /\ subs' = subs + 1
    /\ UNCHANGED <<schedPart, pubPart, up, down, lost, departed, puts>>

AddSub(e) ==
    /\ sub[e].new # "none" /\ e \notin lost \cup departed
    /\ sub' = [sub EXCEPT ![e].new = "none", ![e].live = IF sub[e].new = "kept" THEN @ + 1 ELSE @]
    /\ up' = [up EXCEPT ![e] = Append(@, "add-subscriber")]
    /\ UNCHANGED <<schedPart, pubPart, down, lost, departed, subs, puts>>

DropSub(e) ==
    /\ sub[e].live > 0
    /\ sub' = [sub EXCEPT ![e].live = @ - 1, ![e].cleanups = @ + 1]
    /\ UNCHANGED <<schedPart, pubPart, up, down, lost, departed, subs, puts>>

(* cleanup: with no Sub left the Scheduler is told; only the worker's        *)
(* extension then deletes the entry.                                         *)
DeletesEntryNot(e) == FALSE  \* mistake: nor does the worker's
DeletesEntry(e) == e \in SubWorkers
Cleanup(e) ==
    LET empty == sub[e].live = 0 /\ sub[e].entry
    IN  /\ sub[e].cleanups > 0 /\ e \notin lost \cup departed
        /\ up' = IF empty THEN [up EXCEPT ![e] = Append(@, "remove-subscriber")] ELSE up
        /\ sub' = [sub EXCEPT ![e].cleanups = @ - 1,
                              ![e].entry = @ /\ ~(empty /\ DeletesEntry(e)),
                              ![e].new = IF empty /\ DeletesEntry(e) /\ @ = "kept" THEN "detached" ELSE @,
                              ![e].raced = @ \/ (empty /\ sub[e].new = "kept")]
        /\ UNCHANGED <<schedPart, pubPart, down, lost, departed, subs, puts>>

ClientLeaves(c) ==
    /\ c \in SubClients \ (departed \cup lost)
    /\ departed' = departed \cup {c}
    /\ up' = [up EXCEPT ![c] = <<>>]
    /\ UNCHANGED <<schedPart, pubPart, down, sub, lost, subs, puts>>
-----------------------------------------------------------------------------
(* The Scheduler reads the next message of a stream.  remove_subscriber of   *)
(* one that is not there raises, which closes the stream.                    *)
AddSubscriber(e) ==
    IF e \in SubWorkers
    THEN /\ subscribers' = subscribers \cup {e}
         /\ down' = TellPublishers(publishers, [op |-> "add", who |-> e])
         /\ UNCHANGED <<publishers, client_subscribers, lost>>
    ELSE /\ client_subscribers' = client_subscribers \cup {e}
         /\ down' = TellPublishers(publishers, [op |-> "publish", who |-> TRUE])
         /\ UNCHANGED <<publishers, subscribers, lost>>

RemoveSubscriber(e) ==
    IF e \in subscribers
    THEN /\ subscribers' = subscribers \ {e}
         /\ down' = TellPublishers(publishers, [op |-> "remove", who |-> e])
         /\ UNCHANGED <<publishers, client_subscribers, lost>>
    ELSE IF e \in client_subscribers
    THEN /\ client_subscribers' = client_subscribers \ {e}
         /\ down' = IF client_subscribers' = {} THEN TellPublishers(publishers, [op |-> "publish", who |-> FALSE]) ELSE down
         /\ UNCHANGED <<publishers, subscribers, lost>>
    ELSE lost' = lost \cup {e} /\ UNCHANGED <<schedPart, down>>

(* handle_message passes a message on to the clients, and removes those that *)
(* have departed.                                                            *)
PassOn ==
    LET left == client_subscribers \ departed
    IN  /\ client_subscribers' = left
        /\ down' = IF left = {} /\ client_subscribers # {}
                   THEN TellPublishers(publishers, [op |-> "publish", who |-> FALSE]) ELSE down
        /\ UNCHANGED <<publishers, subscribers, lost>>

SchedulerReads(e) ==
    /\ up[e] # <<>> /\ e \notin lost
    /\ up' = [up EXCEPT ![e] = Tail(@)]
    /\ CASE Head(up[e]) = "add-subscriber" -> AddSubscriber(e)
         [] Head(up[e]) = "remove-subscriber" -> RemoveSubscriber(e)
         [] Head(up[e]) = "remove-publisher" ->
                publishers' = publishers \ {e} /\ UNCHANGED <<subscribers, client_subscribers, down, lost>>
         [] Head(up[e]) = "msg" -> PassOn
    /\ UNCHANGED <<pubPart, sub, departed, subs, puts>>

(* A publishing worker reads the next message of the Scheduler, perhaps      *)
(* before the answer of add_publisher.                                       *)
WorkerReads(w) ==
    LET m == Head(down[w])
        there == pub[w].at # "none"
    IN  /\ down[w] # <<>> /\ w \notin lost
        /\ down' = [down EXCEPT ![w] = Tail(@)]
        /\ pub' = [pub EXCEPT ![w].subs = IF ~there THEN @ ELSE IF m.op = "add" THEN @ \cup {m.who}
                                          ELSE IF m.op = "remove" THEN @ \ {m.who} ELSE @,
                              ![w].news = @ \/ (pub[w].at = "asked" /\ m.op # "add")]
        /\ flag' = IF m.op = "publish" THEN [flag EXCEPT ![w] = m.who] ELSE flag
        /\ lost' = IF there /\ m.op = "remove" /\ m.who \notin pub[w].subs THEN lost \cup {w} ELSE lost
        /\ UNCHANGED <<schedPart, reply, pubs, up, sub, departed, subs, puts>>

PubSubNext ==
    \/ \E w \in PubWorkers : NewPub(w) \/ AddPublisher(w) \/ PubStarts(w) \/ Put(w) \/ DropPub(w) \/ WorkerReads(w)
    \/ \E e \in SubEnds : NewSub(e) \/ AddSub(e) \/ DropSub(e) \/ Cleanup(e)
    \/ \E e \in Ends : SchedulerReads(e)
    \/ \E c \in SubClients : ClientLeaves(c)
-----------------------------------------------------------------------------
(* When all messages have arrived a Pub knows the Scheduler's subscribers    *)
(* and whether clients want its messages, unless news of a removal or of the *)
(* clients overtook the answer of add_publisher, or it was made while        *)
(* messages of an older Pub of its worker were still on their way.           *)
PubsKnowSubs ==
    \A w \in PubWorkers :
        pub[w].at = "started" /\ down[w] = <<>> /\ up[w] = <<>> /\ w \notin lost /\ ~pub[w].news
            => pub[w].subs = subscribers /\ flag[w] = (client_subscribers # {})

(* A worker never tells the Scheduler to remove a subscriber that is not     *)
(* there, which would close its stream, and with all messages read it is a   *)
(* subscriber exactly when it has Subs, unless a cleanup ran between the     *)
(* construction of a Sub and its callbacks.                                  *)
SubWorkersKnown ==
    \A e \in SubWorkers : ~sub[e].raced =>
        /\ e \notin lost
        /\ up[e] = <<>> /\ sub[e].cleanups = 0 => (e \in subscribers <=> sub[e].live > 0)
=============================================================================
