-------------------------- MODULE ConnectionManager --------------------------
(***************************************************************************)
(* internal/message/connection_manager.go with the goroutines that use it: *)
(* one per ConnectMessages stream (message_server.go) and one per request  *)
(* handler that calls Publish.  A stream is one call of ConnectMessages,   *)
(* so a client that reconnects is another element of Streams; a channel is *)
(* made by exactly one Subscribe, so it is named by its stream.            *)
(*                                                                         *)
(* The mutex is Go's sync.RWMutex: a Lock first announces its writer,      *)
(* which blocks new readers, then waits for the readers that are inside;   *)
(* Unlock admits the readers that queued up meanwhile.                     *)
(***************************************************************************)
EXTENDS Naturals, Sequences, SequencesExt

CONSTANTS Users,        \* user ids, the keys of the clients map
          Streams,      \* ConnectMessages calls, each with its channel
          Publishers,   \* request goroutines that publish
          UserOf,       \* the authenticated user of a stream
          Capacity,     \* buffer of a channel, 100 in the code
          MaxSeq,       \* bound: message numbers saturate here
          NoProc        \* no goroutine holds or waits for the write lock

ASSUME ConnectionAssumption ==
    /\ UserOf \in [Streams -> Users]
    /\ Streams \cap Publishers = {}
    /\ NoProc \notin Streams \cup Publishers
    /\ Capacity \in Nat \ {0}
    /\ MaxSeq \in Nat \ {0}

VARIABLES
    writer,     \* mu: the goroutine inside Lock..Unlock, or announced
    readers,    \* mu: goroutines inside RLock..RUnlock
    waiting,    \* mu: goroutines blocked in RLock behind the writer
    clients,    \* m.clients: for each user the list of its channels
    chan,       \* channel of a stream: not made, open or closed
    buf,        \* messages queued in the channel
    held,       \* message a handler took from its channel and is sending
    last,       \* number of the latest message of each publisher that
                \* stream.Send accepted, 0 before the first
    cancelled,  \* streams whose context is done
    call,       \* the message of a goroutine's latest Publish call
    rest,       \* channels its range loop has still to visit
    pc          \* where each goroutine is

mutex == <<writer, readers, waiting>>
streamVars == <<held, last, cancelled>>
vars == <<mutex, clients, chan, buf, streamVars, call, rest, pc>>

Procs == Streams \cup Publishers
Messages == [to : Users, from : Publishers, seq : 1..MaxSeq]
NoCall == [to |-> NoProc, from |-> NoProc, seq |-> 0]

StreamPC == {"new", "subscribing", "loop", "sending",
             "leaving", "unsubscribing", "returned"}
PublisherPC == {"idle", "rlock", "range"}

TypeOK ==
    /\ writer \in Streams \cup {NoProc}
    /\ readers \in SUBSET Publishers
    /\ waiting \in SUBSET Publishers
    /\ clients \in [Users -> Seq(Streams)]
    /\ chan \in [Streams -> {"none", "open", "closed"}]
    /\ buf \in [Streams -> Seq(Messages)]
    /\ \A s \in Streams : Len(buf[s]) <= Capacity
    /\ held \in [Streams -> Seq(Messages)]
    /\ \A s \in Streams : Len(held[s]) <= 1
    /\ last \in [Streams -> [Publishers -> 0..MaxSeq]]
    /\ cancelled \in SUBSET Streams
    /\ call \in [Publishers -> Messages \cup {NoCall}]
    /\ rest \in [Publishers -> Seq(Streams)]
    /\ pc \in [Procs -> StreamPC \cup PublisherPC]
    /\ \A s \in Streams : pc[s] \in StreamPC
    /\ \A p \in Publishers : pc[p] \in PublisherPC

Init ==
    /\ writer = NoProc
    /\ readers = {}
    /\ waiting = {}
    /\ clients = [u \in Users |-> <<>>]
    /\ chan = [s \in Streams |-> "none"]
    /\ buf = [s \in Streams |-> <<>>]
    /\ held = [s \in Streams |-> <<>>]
    /\ last = [s \in Streams |-> [p \in Publishers |-> 0]]
    /\ cancelled = {}
    /\ call = [p \in Publishers |-> NoCall]
    /\ rest = [p \in Publishers |-> <<>>]
    /\ pc = [q \in Procs |-> IF q \in Streams THEN "new" ELSE "idle"]

Goto(q, label) == pc' = [pc EXCEPT ![q] = label]

-----------------------------------------------------------------------------
(* sync.RWMutex                                                            *)

Announce(s) ==
    /\ writer = NoProc
    /\ writer' = s
    /\ UNCHANGED <<readers, waiting>>

\* Mutant: Lock does not wait for the readers inside.
IgnoresReaders(s) == writer = s

HoldsLock(s) == writer = s /\ readers = {}

Unlock ==
    /\ writer' = NoProc
    /\ readers' = waiting
    /\ waiting' = {}

RLock(p) ==
    /\ IF writer = NoProc
         THEN readers' = readers \cup {p} /\ UNCHANGED waiting
         ELSE waiting' = waiting \cup {p} /\ UNCHANGED readers
    /\ UNCHANGED writer

RUnlock(p) ==
    /\ readers' = readers \ {p}
    /\ UNCHANGED <<writer, waiting>>

-----------------------------------------------------------------------------
(* ConnectMessages, one goroutine per stream                               *)

\* The handler reaches m.mu.Lock of its Subscribe.
LockForSubscribe(s) ==
    /\ pc[s] = "new"
    /\ Announce(s)
    /\ Goto(s, "subscribing")
    /\ UNCHANGED <<clients, chan, buf, streamVars, call, rest>>

Subscribe(s) ==
    /\ pc[s] = "subscribing"
    /\ HoldsLock(s)
    /\ clients' = [clients EXCEPT ![UserOf[s]] = Append(@, s)]
    /\ chan' = [chan EXCEPT ![s] = "open"]
    /\ Unlock
    /\ Goto(s, "loop")
    /\ UNCHANGED <<buf, streamVars, call, rest>>

\* case msg := <-ch of the select
Receive(s) ==
    /\ pc[s] = "loop"
    /\ buf[s] # <<>>
    /\ held' = [held EXCEPT ![s] = <<Head(buf[s])>>]
    /\ buf' = [buf EXCEPT ![s] = Tail(@)]
    /\ Goto(s, "sending")
    /\ UNCHANGED <<mutex, clients, chan, last, cancelled, call, rest>>

\* stream.Send returns nil; a slow client may delay it for ever
SendAccepted(s) ==
    /\ pc[s] = "sending"
    /\ last' = [last EXCEPT ![s][Head(held[s]).from] = Head(held[s]).seq]
    /\ held' = [held EXCEPT ![s] = <<>>]
    /\ Goto(s, "loop")
    /\ UNCHANGED <<mutex, clients, chan, buf, cancelled, call, rest>>

\* Mutant: the message whose Send failed is put back behind the others.
SendFailedRequeues(s) ==
    /\ pc[s] = "sending"
    /\ held' = [held EXCEPT ![s] = <<>>]
    /\ buf' = [buf EXCEPT ![s] = @ \o held[s]]
    /\ Goto(s, "loop")
    /\ UNCHANGED <<mutex, clients, chan, last, cancelled, call, rest>>

\* stream.Send returns an error: the message in hand is lost
SendFailed(s) ==
    /\ pc[s] = "sending"
    /\ held' = [held EXCEPT ![s] = <<>>]
    /\ Goto(s, "leaving")
    /\ UNCHANGED <<mutex, clients, chan, buf, last, cancelled, call, rest>>

\* The client goes away or the server stops: the context is done.
Cancel(s) ==
    /\ pc[s] \in StreamPC \ {"new", "returned"}
    /\ s \notin cancelled
    /\ cancelled' = cancelled \cup {s}
    /\ UNCHANGED <<mutex, clients, chan, buf, held, last, call, rest, pc>>

\* Mutant: the handler drains its channel before it heeds the context.
DrainsFirst(s) ==
    /\ pc[s] = "loop"
    /\ s \in cancelled
    /\ buf[s] = <<>>
    /\ Goto(s, "leaving")
    /\ UNCHANGED <<mutex, clients, chan, buf, streamVars, call, rest>>

\* case <-stream.Context().Done() of the select
ContextDone(s) ==
    /\ pc[s] = "loop"
    /\ s \in cancelled
    /\ Goto(s, "leaving")
    /\ UNCHANGED <<mutex, clients, chan, buf, streamVars, call, rest>>

LockForUnsubscribe(s) ==
    /\ pc[s] = "leaving"
    /\ Announce(s)
    /\ Goto(s, "unsubscribing")
    /\ UNCHANGED <<clients, chan, buf, streamVars, call, rest>>

Unsubscribe(s) ==
    /\ pc[s] = "unsubscribing"
    /\ HoldsLock(s)
    /\ IF s \in ToSet(clients[UserOf[s]])
         THEN /\ clients' = [clients EXCEPT ![UserOf[s]] = RemoveFirst(@, s)]
              /\ chan' = [chan EXCEPT ![s] = "closed"]
         ELSE UNCHANGED <<clients, chan>>
    /\ Unlock
    /\ Goto(s, "returned")
    /\ UNCHANGED <<buf, streamVars, call, rest>>

-----------------------------------------------------------------------------
(* Publish, called by request goroutines                                   *)

\* Messages are numbered per goroutine; the bound makes the later ones alike.
Following(n) == IF n < MaxSeq THEN n + 1 ELSE n
Precedes(m, n) == m < n \/ n = MaxSeq

PublishCall(p, u) ==
    /\ pc[p] = "idle"
    /\ call' = [call EXCEPT ![p] = [to |-> u, from |-> p, seq |-> Following(@.seq)]]
    /\ RLock(p)
    /\ Goto(p, "rlock")
    /\ UNCHANGED <<clients, chan, buf, streamVars, rest>>

\* range evaluates m.clients[userID] once
PublishRange(p) ==
    /\ pc[p] = "rlock"
    /\ p \in readers
    /\ rest' = [rest EXCEPT ![p] = clients[call[p].to]]
    /\ Goto(p, "range")
    /\ UNCHANGED <<mutex, clients, chan, buf, streamVars, call>>

OfferAs(p, next, sent) ==
    /\ pc[p] = "range"
    /\ rest[p] # <<>>
    /\ rest' = [rest EXCEPT ![p] = next]
    /\ buf' = IF sent THEN [buf EXCEPT ![Head(rest[p])] = Append(@, call[p])]
                       ELSE buf
    /\ UNCHANGED <<mutex, clients, chan, streamVars, call, pc>>
Full(s) == Len(buf[s]) >= Capacity

\* Mutants: the loop breaks off at a full channel; a full channel blocks the
\* sender.
OfferGivesUp(p) ==
    LET full == Full(Head(rest[p]))
    IN OfferAs(p, IF full THEN <<>> ELSE Tail(rest[p]), ~full)
OfferWaits(p) ==
    LET full == Full(Head(rest[p]))
    IN OfferAs(p, IF full THEN rest[p] ELSE Tail(rest[p]), ~full)

\* select { case ch <- msg: default: }: a full channel drops the message
Offer(p) ==
    /\ pc[p] = "range"
    /\ rest[p] # <<>>
    /\ LET s == Head(rest[p])
       IN buf' = IF Len(buf[s]) < Capacity
                   THEN [buf EXCEPT ![s] = Append(@, call[p])]
                   ELSE buf
    /\ rest' = [rest EXCEPT ![p] = Tail(@)]
    /\ UNCHANGED <<mutex, clients, chan, streamVars, call, pc>>

PublishReturn(p) ==
    /\ pc[p] = "range"
    /\ rest[p] = <<>>
    /\ RUnlock(p)
    /\ Goto(p, "idle")
    /\ UNCHANGED <<clients, chan, buf, streamVars, call, rest>>

-----------------------------------------------------------------------------
Handler(s) ==
    \/ LockForSubscribe(s) \/ Subscribe(s)
    \/ Receive(s) \/ SendAccepted(s) \/ SendFailed(s)
    \/ Cancel(s) \/ ContextDone(s)
    \/ LockForUnsubscribe(s) \/ Unsubscribe(s)

Publisher(p) ==
    \/ \E u \in Users : PublishCall(p, u)
    \/ PublishRange(p) \/ Offer(p) \/ PublishReturn(p)

Next ==
    \/ \E s \in Streams : Handler(s)
    \/ \E p \in Publishers : Publisher(p)

Spec == Init /\ [][Next]_vars

\* The Go scheduler runs every runnable goroutine.  Lock is handed over in
\* turn (sync.Mutex starvation mode) and select chooses among its ready
\* cases at random, hence strong fairness; a Send returns once its stream is
\* cancelled, but nothing makes a connected client read.
Fairness ==
    /\ \A s \in Streams :
         /\ WF_vars(Subscribe(s))
         /\ SF_vars(ContextDone(s))
         /\ WF_vars(s \in cancelled /\ SendFailed(s))
         /\ SF_vars(LockForUnsubscribe(s)) /\ WF_vars(Unsubscribe(s))
    /\ \A p \in Publishers :
         WF_vars(PublishRange(p) \/ Offer(p) \/ PublishReturn(p))

FairSpec == Spec /\ Fairness

-----------------------------------------------------------------------------
Registered(s) == s \in ToSet(clients[UserOf[s]])

\* Go panics, and the server process ends, when a goroutine sends on a closed
\* channel.  Publish keeps sending to the list it read (connection_manager.go
\* 83-88) while streams come and go; none of the channels it has still to
\* visit may have been closed by Unsubscribe.
NoSendOnClosedChannel ==
    \A p \in Publishers :
        pc[p] = "range" => \A s \in ToSet(rest[p]) : chan[s] = "open"

\* A channel is in the clients map, under its own user and once, exactly from
\* Subscribe to Unsubscribe, and closed exactly after it: no stream is left
\* without messages, and no ended stream is left in the map.
RegisteredWhileConnected ==
    /\ \A u \in Users : IsInjective(clients[u])
    /\ \A s \in Streams :
         /\ Registered(s) <=> chan[s] = "open"
         /\ Registered(s) <=> pc[s] \in {"loop", "sending", "leaving",
                                         "unsubscribing"}
         /\ chan[s] = "closed" <=> pc[s] = "returned"
         /\ \A u \in Users \ {UserOf[s]} : s \notin ToSet(clients[u])

\* What one goroutine publishes reaches a stream in the order of its calls
\* and at most once each, through buffering, drops and failed sends.
InOrderAtMostOnce ==
    \A s \in Streams :
        LET seen == held[s] \o buf[s]
        IN /\ \A i \in DOMAIN seen :
                Precedes(last[s][seen[i].from], seen[i].seq)
           /\ \A i, j \in DOMAIN seen :
                i < j /\ seen[i].from = seen[j].from
                    => Precedes(seen[i].seq, seen[j].seq)

\* A stream carries only messages published to its own user.
OwnMessagesOnly ==
    \A s \in Streams :
        \A m \in ToSet(held[s]) \cup ToSet(buf[s]) : m.to = UserOf[s]

\* Publish always returns, whatever the streams do: a client that stops
\* reading, and so fills its channel, never blocks the sender of a message.
PublishReturns == \A p \in Publishers : pc[p] = "rlock" ~> pc[p] = "idle"

\* A cancelled ConnectMessages call gets out of its select or its Send, takes
\* the write lock against the publishers and returns.
CancelledStreamReturns ==
    \A s \in Streams : s \in cancelled ~> pc[s] = "returned"

-----------------------------------------------------------------------------
\* The manager as its users see it: MessageFeed without locks or lists.
Feed == INSTANCE MessageFeed WITH
    live <- {s \in Streams : chan[s] = "open"},
    queue <- buf,
    msg <- [p \in Publishers |-> IF pc[p] = "range" THEN call[p] ELSE NoCall],
    owed <- [p \in Publishers |-> ToSet(rest[p])],
    NoMsg <- NoCall

\* The locks and the list handling implement MessageFeed: each Publish offers
\* its message once to every stream of the user that was subscribed when it
\* started, and no stream leaves while a message is owed to it.
ImplementsFeed == Feed!Spec
=============================================================================
