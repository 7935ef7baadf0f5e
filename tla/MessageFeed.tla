----------------------------- MODULE MessageFeed -----------------------------
(***************************************************************************)
(* What the ConnectionManager promises the message service: a publication  *)
(* is offered once to each stream of its addressee that was live when it   *)
(* started; it is lost for a stream only when that stream's queue is full. *)
(***************************************************************************)
EXTENDS Naturals, Sequences

CONSTANTS Users, Streams, Publishers, UserOf, Capacity, Messages, NoMsg

VARIABLES
    live,       \* streams that are subscribed
    queue,      \* for each stream the messages it has still to take
    msg,        \* the message each publisher is publishing, or NoMsg
    owed        \* the streams it has still to offer it to

vars == <<live, queue, msg, owed>>

Init ==
    /\ live = {}
    /\ queue = [s \in Streams |-> <<>>]
    /\ msg = [p \in Publishers |-> NoMsg]
    /\ owed = [p \in Publishers |-> {}]

Join(s) ==
    /\ s \notin live
    /\ queue[s] = <<>>
    /\ live' = live \cup {s}
    /\ UNCHANGED <<queue, msg, owed>>

Leave(s) ==
    /\ s \in live
    /\ \A p \in Publishers : s \notin owed[p]
    /\ live' = live \ {s}
    /\ UNCHANGED <<queue, msg, owed>>

Start(p, m) ==
    /\ msg[p] = NoMsg
    /\ msg' = [msg EXCEPT ![p] = m]
    /\ owed' = [owed EXCEPT ![p] = {s \in live : UserOf[s] = m.to}]
    /\ UNCHANGED <<live, queue>>

OfferTo(p, s) ==
    /\ s \in owed[p]
    /\ owed' = [owed EXCEPT ![p] = @ \ {s}]
    /\ queue' = IF Len(queue[s]) < Capacity
                  THEN [queue EXCEPT ![s] = Append(@, msg[p])]
                  ELSE queue
    /\ UNCHANGED <<live, msg>>

Finish(p) ==
    /\ msg[p] # NoMsg
    /\ owed[p] = {}
    /\ msg' = [msg EXCEPT ![p] = NoMsg]
    /\ UNCHANGED <<live, queue, owed>>

Take(s) ==
    /\ s \in live
    /\ queue[s] # <<>>
    /\ queue' = [queue EXCEPT ![s] = Tail(@)]
    /\ UNCHANGED <<live, msg, owed>>

Next ==
    \/ \E s \in Streams : Join(s) \/ Leave(s) \/ Take(s)
    \/ \E p \in Publishers :
         \/ \E m \in Messages : Start(p, m)
         \/ \E s \in Streams : OfferTo(p, s)
         \/ Finish(p)

Spec == Init /\ [][Next]_vars
=============================================================================
