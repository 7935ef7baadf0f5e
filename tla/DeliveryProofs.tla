--------------------------- MODULE DeliveryProofs ---------------------------
(* Proofs about the two ends of a message's way: ConnectionManager, for any *)
(* users, streams and publishers, and ChatView, for any chats, messages and *)
(* versions.                                                               *)
EXTENDS ConnectionManager, ChatView, SequenceTheorems, TLAPS

\* The tail of a list behind a position, as list[i+1:] in Unsubscribe.
LEMMA SuffixProperties ==
    ASSUME NEW S, NEW q \in Seq(S), NEW j \in 1..Len(q)
    PROVE  /\ SubSeq(q, j + 1, Len(q)) \in Seq(S)
           /\ Len(SubSeq(q, j + 1, Len(q))) = Len(q) - j
           /\ \A i \in 1..(Len(q) - j) : SubSeq(q, j + 1, Len(q))[i] = q[j + i]
<1>1. CASE j = Len(q)
  <2>1. SubSeq(q, j + 1, Len(q)) = <<>>
    BY <1>1, SubSeqEmpty
  <2> QED BY <1>1, <2>1
<1>2. CASE j < Len(q)
  <2> DEFINE m == j + 1
  <2>1. m \in Nat /\ m >= 1 /\ m <= Len(q)
    BY <1>2
  <2> HIDE DEF m
  <2>2. SubSeq(q, m, Len(q)) \in Seq(S)
    BY <2>1
  <2>3. Len(SubSeq(q, m, Len(q))) = Len(q) - m + 1
    BY <2>1
  <2>4. \A i \in 1..(Len(q) - m + 1) : SubSeq(q, m, Len(q))[i] = q[m + i - 1]
    BY <2>1
  <2> QED BY <1>2, <2>2, <2>3, <2>4 DEF m
<1> QED BY <1>1, <1>2

\* Removing the first occurrence of an element of a list without duplicates
\* leaves a list without duplicates of the other elements: what the loop of
\* Unsubscribe does to m.clients[userID].
LEMMA RemoveFirstProperties ==
    ASSUME NEW S, NEW q \in Seq(S), IsInjective(q), NEW e \in ToSet(q)
    PROVE  /\ RemoveFirst(q, e) \in Seq(S)
           /\ IsInjective(RemoveFirst(q, e))
           /\ ToSet(RemoveFirst(q, e)) = ToSet(q) \ {e}
<1> DEFINE I == {i \in 1..Len(q) : q[i] = e}
           k == CHOOSE x \in I : \A y \in I : x =< y
           r == RemoveFirst(q, e)
<1>1. DOMAIN q = 1..Len(q) /\ Len(q) \in Nat
  OBVIOUS
<1>2. PICK j \in 1..Len(q) : q[j] = e
  BY <1>1 DEF ToSet
<1>3. I = {j}
  BY <1>1, <1>2 DEF IsInjective
<1>4. k = j
  BY <1>3
<1>5. r = SubSeq(q, 1, j - 1) \o SubSeq(q, j + 1, Len(q))
  BY <1>2, <1>3, <1>4 DEF RemoveFirst, RemoveAt, SelectInSeq, Min
<1>6. /\ r \in Seq(S)
      /\ Len(r) = Len(q) - 1
      /\ \A i \in 1..Len(r) : r[i] = IF i < j THEN q[i] ELSE q[i + 1]
  <2> DEFINE a == SubSeq(q, 1, j - 1)
             b == SubSeq(q, j + 1, Len(q))
  <2>1. /\ a \in Seq(S)
        /\ Len(a) = j - 1
        /\ \A i \in 1..(j - 1) : a[i] = q[i]
    BY <1>1, <1>2
  <2>3. /\ b \in Seq(S)
        /\ Len(b) = Len(q) - j
        /\ \A i \in 1..Len(q) - j : b[i] = q[j + i]
    BY <1>1, <1>2, SuffixProperties
  <2>4. r = a \o b
    BY <1>5
  <2> HIDE DEF a, b, r
  <2>5. /\ r \in Seq(S)
        /\ Len(r) = Len(a) + Len(b)
        /\ \A i \in 1..Len(a) + Len(b) :
             r[i] = IF i <= Len(a) THEN a[i] ELSE b[i - Len(a)]
    BY <2>1, <2>3, <2>4, ConcatProperties
  <2>6. Len(r) = Len(q) - 1
    BY <1>1, <1>2, <2>1, <2>3, <2>5
  <2>7. ASSUME NEW i \in 1..Len(r)
        PROVE  r[i] = IF i < j THEN q[i] ELSE q[i + 1]
    <3>1. CASE i < j
      BY <1>1, <1>2, <2>1, <2>3, <2>5, <2>6, <3>1
    <3>2. CASE i >= j
      <4>1. r[i] = b[i - (j - 1)] /\ i - (j - 1) \in 1..(Len(q) - j)
        BY <1>1, <1>2, <2>1, <2>3, <2>5, <2>6, <3>2
      <4> QED BY <1>1, <1>2, <2>3, <3>2, <4>1
    <3> QED BY <1>1, <1>2, <2>6, <3>1, <3>2
  <2> QED BY <2>5, <2>6, <2>7
<1> HIDE DEF I, k, r
<1>7. ASSUME NEW i \in 1..Len(r)
      PROVE  LET n == IF i < j THEN i ELSE i + 1
             IN n \in 1..Len(q) /\ n # j /\ r[i] = q[n]
  BY <1>1, <1>2, <1>6
<1>8. DOMAIN r = 1..Len(r)
  BY <1>6
<1>9. IsInjective(r)
  <2> SUFFICES ASSUME NEW x \in 1..Len(r), NEW y \in 1..Len(r), r[x] = r[y]
               PROVE  x = y
      BY <1>8 DEF IsInjective
  <2> DEFINE place(i) == IF i < j THEN i ELSE i + 1
  <2>1. /\ place(x) \in 1..Len(q) /\ r[x] = q[place(x)]
        /\ place(y) \in 1..Len(q) /\ r[y] = q[place(y)]
    BY <1>7
  <2>2. place(x) = place(y)
    <3> HIDE DEF place
    <3> QED BY <1>1, <2>1 DEF IsInjective
  <2> QED BY <2>2
<1>10. ToSet(r) = ToSet(q) \ {e}
  <2>1. ASSUME NEW i \in 1..Len(r) PROVE r[i] \in ToSet(q) \ {e}
    <3>1. PICK n \in 1..Len(q) : n # j /\ r[i] = q[n]
      BY <1>7
    <3>2. q[n] # e
      BY <1>1, <1>2, <3>1 DEF IsInjective
    <3>3. q[n] \in ToSet(q)
      BY <1>1 DEF ToSet
    <3> QED BY <3>1, <3>2, <3>3
  <2>2. ASSUME NEW i \in 1..Len(q), q[i] # e PROVE q[i] \in ToSet(r)
    <3>1. CASE i < j
      BY <1>1, <1>2, <1>6, <3>1 DEF ToSet
    <3>2. CASE i > j
      <4>1. i - 1 \in 1..Len(r) /\ r[i - 1] = q[i]
        BY <1>1, <1>2, <1>6, <3>2
      <4> QED BY <1>8, <4>1 DEF ToSet
    <3> QED BY <1>1, <1>2, <2>2, <3>1, <3>2
  <2> QED BY <1>1, <1>8, <2>1, <2>2 DEF ToSet
<1> QED BY <1>6, <1>9, <1>10 DEF r

\* Append as used by Subscribe and by the channel buffers.
LEMMA AppendSet ==
    ASSUME NEW S, NEW q \in Seq(S), NEW e \in S
    PROVE  /\ Append(q, e) \in Seq(S)
           /\ Len(Append(q, e)) = Len(q) + 1
           /\ ToSet(Append(q, e)) = ToSet(q) \cup {e}
           /\ IsInjective(q) /\ e \notin ToSet(q) => IsInjective(Append(q, e))
<1>1. /\ Append(q, e) \in Seq(S)
      /\ Len(Append(q, e)) = Len(q) + 1
      /\ \A i \in 1..Len(q) : Append(q, e)[i] = q[i]
      /\ Append(q, e)[Len(q) + 1] = e
  OBVIOUS
<1>2. DOMAIN Append(q, e) = 1..Len(q) + 1 /\ DOMAIN q = 1..Len(q)
  BY <1>1
<1>3. ToSet(Append(q, e)) = ToSet(q) \cup {e}
  BY <1>1, <1>2 DEF ToSet
<1>4. ASSUME IsInjective(q), e \notin ToSet(q) PROVE IsInjective(Append(q, e))
  BY <1>1, <1>2, <1>4 DEF IsInjective, ToSet
<1> QED BY <1>1, <1>3, <1>4

\* Head and Tail as used by a receive and by the range loop of Publish.
LEMMA HeadTailSet ==
    ASSUME NEW S, NEW q \in Seq(S), q # <<>>
    PROVE  /\ Head(q) \in ToSet(q) /\ Head(q) \in S
           /\ Tail(q) \in Seq(S)
           /\ Len(Tail(q)) = Len(q) - 1
           /\ ToSet(q) = {Head(q)} \cup ToSet(Tail(q))
           /\ IsInjective(q) => /\ Head(q) \notin ToSet(Tail(q))
                                /\ IsInjective(Tail(q))
<1>1. /\ Len(q) \in Nat \ {0} /\ DOMAIN q = 1..Len(q) /\ Head(q) = q[1]
      /\ Tail(q) \in Seq(S) /\ Len(Tail(q)) = Len(q) - 1
      /\ DOMAIN Tail(q) = 1..Len(q) - 1
      /\ \A i \in 1..Len(q) - 1 : Tail(q)[i] = q[i + 1]
  OBVIOUS
<1>2. ToSet(q) = {Head(q)} \cup ToSet(Tail(q))
  <2>1. ASSUME NEW i \in 1..Len(q) PROVE q[i] \in {Head(q)} \cup ToSet(Tail(q))
    <3>1. CASE i = 1
      BY <1>1, <3>1
    <3>2. CASE i > 1
      <4>1. i - 1 \in 1..Len(q) - 1 /\ Tail(q)[i - 1] = q[i]
        BY <1>1, <3>2
      <4> QED BY <1>1, <4>1 DEF ToSet
    <3> QED BY <1>1, <3>1, <3>2
  <2>2. ASSUME NEW i \in 1..Len(q) - 1 PROVE Tail(q)[i] \in ToSet(q)
    BY <1>1 DEF ToSet
  <2>3. Head(q) \in ToSet(q)
    BY <1>1 DEF ToSet
  <2> QED BY <1>1, <2>1, <2>2, <2>3 DEF ToSet
<1>3. ASSUME IsInjective(q)
      PROVE  Head(q) \notin ToSet(Tail(q)) /\ IsInjective(Tail(q))
  BY <1>1, <1>3 DEF IsInjective, ToSet
<1> QED BY <1>1, <1>2, <1>3

\* A message or channel is in the set of a sequence when it stands at some
\* position, which is how the range loop and the buffers are read below.
LEMMA SetOfSeq ==
    ASSUME NEW S, NEW q \in Seq(S)
    PROVE  ToSet(q) \subseteq S /\ (ToSet(q) = {} <=> q = <<>>)
BY DEF ToSet

\* The empty buffer and the one message in hand, as sets.
LEMMA SmallSets == ToSet(<<>>) = {} /\ \A x : ToSet(<<x>>) = {x}
BY DEF ToSet

-----------------------------------------------------------------------------
(* The inductive invariant                                                 *)

\* The lock is where the program counters say it is: the writer is the one
\* goroutine between Lock and Unlock, readers and waiting are the publishers
\* inside Publish, and a range loop runs only under the read lock.
LockInv ==
    /\ \A s \in Streams : pc[s] \in {"subscribing", "unsubscribing"}
                            <=> writer = s
    /\ \A p \in Publishers :
         /\ pc[p] = "idle" <=> p \notin readers \cup waiting
         /\ pc[p] = "range" => p \in readers
    /\ readers \cap waiting = {}
    /\ writer = NoProc => waiting = {}

\* A call in progress has a message, its loop visits streams of the addressee,
\* a handler in Send has one message in hand, and a channel that was never made
\* holds nothing.
ProgressInv ==
    /\ \A p \in Publishers :
         /\ pc[p] # "idle" => call[p] \in Messages
         /\ pc[p] # "range" => rest[p] = <<>>
         /\ \A s \in ToSet(rest[p]) : UserOf[s] = call[p].to
         /\ IsInjective(rest[p])
    /\ \A s \in Streams :
         /\ pc[s] = "sending" <=> held[s] # <<>>
         /\ chan[s] = "none" => buf[s] = <<>>

Inv ==
    /\ TypeOK
    /\ LockInv
    /\ ProgressInv
    /\ RegisteredWhileConnected
    /\ NoSendOnClosedChannel
    /\ OwnMessagesOnly

\* Before the first ConnectMessages and Publish calls the invariant holds.
LEMMA InvInit == Init => Inv
<1> SUFFICES ASSUME Init PROVE Inv
  OBVIOUS
<1> USE ConnectionAssumption DEF Init
<1>1. TypeOK
  BY DEF TypeOK, Procs, StreamPC, PublisherPC
<1>2. LockInv /\ ProgressInv /\ NoSendOnClosedChannel /\ OwnMessagesOnly
  BY DEF LockInv, ProgressInv, NoSendOnClosedChannel, OwnMessagesOnly,
         Procs, ToSet, IsInjective
<1>3. RegisteredWhileConnected
  BY DEF RegisteredWhileConnected, Registered, IsInjective, Procs, ToSet
<1> QED BY <1>1, <1>2, <1>3 DEF Inv

\* Every step of the stream handlers and of the publishers preserves Inv.
LEMMA InvNext == Inv /\ [Next]_vars => Inv'
<1> SUFFICES ASSUME Inv, [Next]_vars PROVE Inv'
  OBVIOUS
<1> USE ConnectionAssumption DEF Inv
<1>1. ASSUME NEW s \in Streams, LockForSubscribe(s) PROVE Inv'
  <2> USE <1>1 DEF LockForSubscribe, Announce, Goto, streamVars
  <2>1. TypeOK'
    BY DEF TypeOK, Procs, StreamPC, PublisherPC
  <2>2. LockInv'
    BY DEF LockInv, TypeOK, Procs
  <2>3. ProgressInv'
    BY DEF ProgressInv, TypeOK, Procs
  <2>4. RegisteredWhileConnected'
    BY DEF RegisteredWhileConnected, Registered, TypeOK, Procs
  <2>5. NoSendOnClosedChannel'
    BY DEF NoSendOnClosedChannel, TypeOK, Procs
  <2>6. OwnMessagesOnly'
    BY DEF OwnMessagesOnly, TypeOK, Procs
  <2> QED BY <2>1, <2>2, <2>3, <2>4, <2>5, <2>6
<1>2. ASSUME NEW s \in Streams, Subscribe(s) PROVE Inv'
  <2> USE <1>2 DEF Subscribe, HoldsLock, Unlock, Goto, streamVars
  <2>1. TypeOK'
    BY DEF TypeOK, Procs, StreamPC, PublisherPC
  <2>2. LockInv'
    BY DEF LockInv, TypeOK, Procs
  <2>3. ProgressInv'
    BY DEF ProgressInv, TypeOK, Procs
  <2>4. RegisteredWhileConnected'
    <3> DEFINE w == UserOf[s]
    <3>1. w \in Users /\ clients[w] \in Seq(Streams) /\ s \notin ToSet(clients[w])
      BY DEF TypeOK, RegisteredWhileConnected, Registered
    <3>2. /\ IsInjective(Append(clients[w], s))
          /\ ToSet(Append(clients[w], s)) = ToSet(clients[w]) \cup {s}
      BY <3>1, AppendSet DEF RegisteredWhileConnected
    <3>3. clients' = [clients EXCEPT ![w] = Append(clients[w], s)]
      BY <3>1 DEF TypeOK
    <3>4. \A t \in Streams \ {s} : Registered(t)' <=> Registered(t)
      BY <3>1, <3>2, <3>3 DEF Registered, TypeOK
    <3>5. Registered(s)'
      BY <3>1, <3>2, <3>3 DEF Registered, TypeOK
    <3>6. \A u \in Users : IsInjective(clients'[u])
      BY <3>1, <3>2, <3>3 DEF RegisteredWhileConnected, TypeOK
    <3>7. \A t \in Streams : \A u \in Users \ {UserOf[t]} :
              t \notin ToSet(clients'[u])
      BY <3>1, <3>2, <3>3 DEF RegisteredWhileConnected, TypeOK
    <3> QED BY <3>4, <3>5, <3>6, <3>7
            DEF RegisteredWhileConnected, TypeOK, Procs
  <2>5. NoSendOnClosedChannel'
    BY DEF NoSendOnClosedChannel, TypeOK, Procs
  <2>6. OwnMessagesOnly'
    BY DEF OwnMessagesOnly, TypeOK, Procs
  <2> QED BY <2>1, <2>2, <2>3, <2>4, <2>5, <2>6
<1>3. ASSUME NEW s \in Streams, Receive(s) PROVE Inv'
  <2> USE <1>3 DEF Receive, mutex, Goto
  <2>1. TypeOK'
    BY DEF TypeOK, Procs, StreamPC, PublisherPC
  <2>2. LockInv'
    BY DEF LockInv, TypeOK, Procs
  <2>3. ProgressInv'
    BY DEF ProgressInv, TypeOK, Procs
  <2>4. RegisteredWhileConnected'
    BY DEF RegisteredWhileConnected, Registered, TypeOK, Procs
  <2>5. NoSendOnClosedChannel'
    BY DEF NoSendOnClosedChannel, TypeOK, Procs
  <2>6. OwnMessagesOnly'
    <3>1. buf[s] \in Seq(Messages)
      BY DEF TypeOK
    <3>2. /\ Head(buf[s]) \in ToSet(buf[s])
          /\ ToSet(Tail(buf[s])) \subseteq ToSet(buf[s])
      BY <3>1, HeadTailSet
    <3> QED BY <3>2, SmallSets DEF OwnMessagesOnly, TypeOK
  <2> QED BY <2>1, <2>2, <2>3, <2>4, <2>5, <2>6
<1>4. ASSUME NEW s \in Streams, SendAccepted(s) PROVE Inv'
  <2> USE <1>4 DEF SendAccepted, mutex, Goto
  <2>1. TypeOK'
    <3>1. held[s] \in Seq(Messages) /\ held[s] # <<>>
      BY DEF TypeOK, ProgressInv
    <3>2. Head(held[s]) \in Messages
      BY <3>1, HeadTailSet
    <3>3. last' \in [Streams -> [Publishers -> 0..MaxSeq]]
      BY <3>2 DEF TypeOK, Messages
    <3>4. held' \in [Streams -> Seq(Messages)] /\ \A t \in Streams : Len(held'[t]) <= 1
      BY DEF TypeOK
    <3>5. /\ pc' \in [Procs -> StreamPC \cup PublisherPC]
          /\ \A t \in Streams : pc'[t] \in StreamPC
          /\ \A p \in Publishers : pc'[p] \in PublisherPC
      BY DEF TypeOK, Procs, StreamPC, PublisherPC
    <3> QED BY <3>3, <3>4, <3>5 DEF TypeOK
  <2>2. LockInv'
    BY DEF LockInv, TypeOK, Procs
  <2>3. ProgressInv'
    BY DEF ProgressInv, TypeOK, Procs
  <2>4. RegisteredWhileConnected'
    BY DEF RegisteredWhileConnected, Registered, TypeOK, Procs
  <2>5. NoSendOnClosedChannel'
    BY DEF NoSendOnClosedChannel, TypeOK, Procs
  <2>6. OwnMessagesOnly'
    BY SmallSets DEF OwnMessagesOnly, TypeOK
  <2> QED BY <2>1, <2>2, <2>3, <2>4, <2>5, <2>6
<1>5. ASSUME NEW s \in Streams, SendFailed(s) PROVE Inv'
  <2> USE <1>5 DEF SendFailed, mutex, Goto
  <2>1. TypeOK'
    BY DEF TypeOK, Procs, StreamPC, PublisherPC
  <2>2. LockInv'
    BY DEF LockInv, TypeOK, Procs
  <2>3. ProgressInv'
    BY DEF ProgressInv, TypeOK, Procs
  <2>4. RegisteredWhileConnected'
    BY DEF RegisteredWhileConnected, Registered, TypeOK, Procs
  <2>5. NoSendOnClosedChannel'
    BY DEF NoSendOnClosedChannel, TypeOK, Procs
  <2>6. OwnMessagesOnly'
    BY SmallSets DEF OwnMessagesOnly, TypeOK
  <2> QED BY <2>1, <2>2, <2>3, <2>4, <2>5, <2>6
<1>6. ASSUME NEW s \in Streams, Cancel(s) PROVE Inv'
  <2> USE <1>6 DEF Cancel, mutex, Goto
  <2>1. TypeOK'
    BY DEF TypeOK, Procs, StreamPC, PublisherPC
  <2>2. LockInv'
    BY DEF LockInv, TypeOK, Procs
  <2>3. ProgressInv'
    BY DEF ProgressInv, TypeOK, Procs
  <2>4. RegisteredWhileConnected'
    BY DEF RegisteredWhileConnected, Registered, TypeOK, Procs
  <2>5. NoSendOnClosedChannel'
    BY DEF NoSendOnClosedChannel, TypeOK, Procs
  <2>6. OwnMessagesOnly'
    BY DEF OwnMessagesOnly, TypeOK, Procs
  <2> QED BY <2>1, <2>2, <2>3, <2>4, <2>5, <2>6
<1>7. ASSUME NEW s \in Streams, ContextDone(s) PROVE Inv'
  <2> USE <1>7 DEF ContextDone, mutex, streamVars, Goto
  <2>1. TypeOK'
    BY DEF TypeOK, Procs, StreamPC, PublisherPC
  <2>2. LockInv'
    BY DEF LockInv, TypeOK, Procs
  <2>3. ProgressInv'
    BY DEF ProgressInv, TypeOK, Procs
  <2>4. RegisteredWhileConnected'
    BY DEF RegisteredWhileConnected, Registered, TypeOK, Procs
  <2>5. NoSendOnClosedChannel'
    BY DEF NoSendOnClosedChannel, TypeOK, Procs
  <2>6. OwnMessagesOnly'
    BY DEF OwnMessagesOnly, TypeOK, Procs
  <2> QED BY <2>1, <2>2, <2>3, <2>4, <2>5, <2>6
<1>8. ASSUME NEW s \in Streams, LockForUnsubscribe(s) PROVE Inv'
  <2> USE <1>8 DEF LockForUnsubscribe, Announce, Goto, streamVars
  <2>1. TypeOK'
    BY DEF TypeOK, Procs, StreamPC, PublisherPC
  <2>2. LockInv'
    BY DEF LockInv, TypeOK, Procs
  <2>3. ProgressInv'
    BY DEF ProgressInv, TypeOK, Procs
  <2>4. RegisteredWhileConnected'
    BY DEF RegisteredWhileConnected, Registered, TypeOK, Procs
  <2>5. NoSendOnClosedChannel'
    BY DEF NoSendOnClosedChannel, TypeOK, Procs
  <2>6. OwnMessagesOnly'
    BY DEF OwnMessagesOnly, TypeOK, Procs
  <2> QED BY <2>1, <2>2, <2>3, <2>4, <2>5, <2>6
<1>9. ASSUME NEW s \in Streams, Unsubscribe(s) PROVE Inv'
  <2> USE <1>9 DEF Unsubscribe, HoldsLock, Unlock, Goto, streamVars
  <2> DEFINE w == UserOf[s]
  <2>a. /\ w \in Users /\ clients[w] \in Seq(Streams)
        /\ IsInjective(clients[w]) /\ s \in ToSet(clients[w])
    BY DEF TypeOK, RegisteredWhileConnected, Registered
  <2>b. /\ RemoveFirst(clients[w], s) \in Seq(Streams)
        /\ IsInjective(RemoveFirst(clients[w], s))
        /\ ToSet(RemoveFirst(clients[w], s)) = ToSet(clients[w]) \ {s}
    BY <2>a, RemoveFirstProperties
  <2>c. clients' = [clients EXCEPT ![w] = RemoveFirst(clients[w], s)]
    BY <2>a DEF TypeOK
  <2>1. TypeOK'
    <3>1. clients' \in [Users -> Seq(Streams)]
      BY <2>a, <2>b, <2>c DEF TypeOK
    <3>2. chan' \in [Streams -> {"none", "open", "closed"}]
      BY DEF TypeOK
    <3>3. /\ pc' \in [Procs -> StreamPC \cup PublisherPC]
          /\ \A x \in Streams : pc'[x] \in StreamPC
          /\ \A p \in Publishers : pc'[p] \in PublisherPC
      BY DEF TypeOK, Procs, StreamPC, PublisherPC
    <3>4. /\ writer' \in Streams \cup {NoProc}
          /\ readers' \in SUBSET Publishers
          /\ waiting' \in SUBSET Publishers
      BY DEF TypeOK
    <3> QED BY <3>1, <3>2, <3>3, <3>4 DEF TypeOK
  <2>2. LockInv'
    BY DEF LockInv, TypeOK, Procs
  <2>3. ProgressInv'
    BY DEF ProgressInv, TypeOK, Procs
  <2>4. RegisteredWhileConnected'
    <3>1. \A t \in Streams \ {s} : Registered(t)' <=> Registered(t)
      BY <2>a, <2>b, <2>c DEF Registered, TypeOK
    <3>2. ~Registered(s)'
      BY <2>a, <2>b, <2>c DEF Registered, TypeOK
    <3>3. \A u \in Users : IsInjective(clients'[u])
      BY <2>a, <2>b, <2>c DEF RegisteredWhileConnected, TypeOK
    <3>4. \A t \in Streams : \A u \in Users \ {UserOf[t]} :
              t \notin ToSet(clients'[u])
      BY <2>a, <2>b, <2>c DEF RegisteredWhileConnected, TypeOK
    <3> QED BY <2>a, <3>1, <3>2, <3>3, <3>4
            DEF RegisteredWhileConnected, TypeOK, Procs
  <2>5. NoSendOnClosedChannel'
    <3>1. \A p \in Publishers : pc[p] # "range"
      BY DEF LockInv
    <3> QED BY <3>1 DEF NoSendOnClosedChannel, TypeOK, Procs
  <2>6. OwnMessagesOnly'
    BY DEF OwnMessagesOnly, TypeOK, Procs
  <2> QED BY <2>1, <2>2, <2>3, <2>4, <2>5, <2>6
<1>10. ASSUME NEW p \in Publishers, NEW u \in Users, PublishCall(p, u) PROVE Inv'
  <2> USE <1>10 DEF PublishCall, RLock, Goto, streamVars
  <2>1. TypeOK'
    <3>1. /\ call[p].seq \in 0..MaxSeq
          /\ [to |-> u, from |-> p, seq |-> Following(call[p].seq)] \in Messages
      BY DEF TypeOK, Messages, NoCall, Following
    <3>2. call' \in [Publishers -> Messages \cup {NoCall}]
      BY <3>1 DEF TypeOK
    <3> QED BY <3>2 DEF TypeOK, Procs, StreamPC, PublisherPC
  <2>2. LockInv'
    BY DEF LockInv, TypeOK, Procs
  <2>3. ProgressInv'
    <3>1. [to |-> u, from |-> p, seq |-> Following(call[p].seq)] \in Messages
      BY DEF TypeOK, Messages, NoCall, Following
    <3>2. rest[p] = <<>> /\ ToSet(rest[p]) = {}
      BY SmallSets DEF ProgressInv
    <3>3. \A q \in Publishers : pc'[q] # "idle" => call'[q] \in Messages
      BY <3>1 DEF ProgressInv, TypeOK, Procs
    <3> QED BY <3>2, <3>3 DEF ProgressInv, TypeOK, Procs
  <2>4. RegisteredWhileConnected'
    BY DEF RegisteredWhileConnected, Registered, TypeOK, Procs
  <2>5. NoSendOnClosedChannel'
    BY DEF NoSendOnClosedChannel, TypeOK, Procs
  <2>6. OwnMessagesOnly'
    BY DEF OwnMessagesOnly, TypeOK, Procs
  <2> QED BY <2>1, <2>2, <2>3, <2>4, <2>5, <2>6
<1>11. ASSUME NEW p \in Publishers, PublishRange(p) PROVE Inv'
  <2> USE <1>11 DEF PublishRange, mutex, Goto, streamVars
  <2>1. TypeOK'
    <3>1. call[p].to \in Users
      BY DEF ProgressInv, Messages
    <3> QED BY <3>1 DEF TypeOK, Procs, StreamPC, PublisherPC
  <2>2. LockInv'
    BY DEF LockInv, TypeOK, Procs
  <2>3. ProgressInv'
    <3>1. call[p].to \in Users
      BY DEF ProgressInv, Messages
    <3>2. \A t \in ToSet(clients[call[p].to]) : UserOf[t] = call[p].to
      BY <3>1, SetOfSeq DEF RegisteredWhileConnected, TypeOK
    <3>3. IsInjective(clients[call[p].to])
      BY <3>1 DEF RegisteredWhileConnected
    <3> QED BY <3>2, <3>3 DEF ProgressInv, TypeOK, Procs
  <2>4. RegisteredWhileConnected'
    BY DEF RegisteredWhileConnected, Registered, TypeOK, Procs
  <2>5. NoSendOnClosedChannel'
    <3>1. call[p].to \in Users
      BY DEF ProgressInv, Messages
    <3>2. \A t \in ToSet(clients[call[p].to]) : chan[t] = "open"
      BY <3>1, SetOfSeq DEF RegisteredWhileConnected, Registered, TypeOK
    <3> QED BY <3>2 DEF NoSendOnClosedChannel, TypeOK, Procs
  <2>6. OwnMessagesOnly'
    BY DEF OwnMessagesOnly, TypeOK, Procs
  <2> QED BY <2>1, <2>2, <2>3, <2>4, <2>5, <2>6
<1>12. ASSUME NEW p \in Publishers, Offer(p) PROVE Inv'
  <2> USE <1>12 DEF Offer, mutex, streamVars
  <2> DEFINE t == Head(rest[p])
  <2>r. rest[p] \in Seq(Streams) /\ rest[p] # <<>> /\ IsInjective(rest[p])
    BY DEF TypeOK, ProgressInv
  <2>a. /\ t \in Streams /\ t \in ToSet(rest[p])
        /\ Tail(rest[p]) \in Seq(Streams)
        /\ ToSet(rest[p]) = {t} \cup ToSet(Tail(rest[p]))
        /\ t \notin ToSet(Tail(rest[p])) /\ IsInjective(Tail(rest[p]))
    BY <2>r, HeadTailSet
  <2>b. call[p] \in Messages /\ call[p].to = UserOf[t]
    BY <2>a DEF ProgressInv
  <2>c. /\ buf[t] \in Seq(Messages) /\ Len(buf[t]) \in Nat
        /\ Append(buf[t], call[p]) \in Seq(Messages)
        /\ Len(Append(buf[t], call[p])) = Len(buf[t]) + 1
        /\ ToSet(Append(buf[t], call[p])) = ToSet(buf[t]) \cup {call[p]}
    <3>1. buf[t] \in Seq(Messages)
      BY <2>a DEF TypeOK
    <3> HIDE DEF t
    <3> QED BY <2>b, <3>1, AppendSet
  <2>d. \/ buf' = buf
        \/ /\ Len(buf[t]) < Capacity
           /\ buf' = [buf EXCEPT ![t] = Append(buf[t], call[p])]
    BY <2>a DEF TypeOK
  <2> HIDE DEF t
  <2>1. TypeOK'
    <3>1. rest' \in [Publishers -> Seq(Streams)]
      BY <2>a DEF TypeOK
    <3>2. /\ buf' \in [Streams -> Seq(Messages)]
          /\ \A s \in Streams : Len(buf'[s]) <= Capacity
      <4>1. CASE buf' = buf
        BY <4>1 DEF TypeOK
      <4>2. CASE /\ Len(buf[t]) < Capacity
                 /\ buf' = [buf EXCEPT ![t] = Append(buf[t], call[p])]
        <5>1. Len(buf[t]) + 1 <= Capacity
          BY <2>c, <4>2
        <5>2. buf \in [Streams -> Seq(Messages)]
              /\ \A s \in Streams : Len(buf[s]) <= Capacity
          BY DEF TypeOK
        <5>3. \A s \in Streams :
                buf'[s] = IF s = t THEN Append(buf[t], call[p]) ELSE buf[s]
          BY <4>2, <5>2
        <5> QED BY <2>a, <2>c, <4>2, <5>1, <5>2, <5>3
      <4> QED BY <2>d, <4>1, <4>2
    <3> QED BY <3>1, <3>2 DEF TypeOK, Procs, StreamPC, PublisherPC
  <2>2. LockInv'
    BY DEF LockInv, TypeOK, Procs
  <2>3. ProgressInv'
    <3>1. chan[t] = "open"
      BY <2>a DEF NoSendOnClosedChannel
    <3>2. \A x \in Streams : chan[x] = "none" => buf'[x] = buf[x]
      BY <2>a, <2>d, <3>1 DEF TypeOK
    <3> QED BY <2>a, <3>2 DEF ProgressInv, TypeOK, Procs
  <2>4. RegisteredWhileConnected'
    BY DEF RegisteredWhileConnected, Registered, TypeOK, Procs
  <2>5. NoSendOnClosedChannel'
    BY <2>a DEF NoSendOnClosedChannel, TypeOK, Procs
  <2>6. OwnMessagesOnly'
    BY <2>a, <2>b, <2>c, <2>d DEF OwnMessagesOnly, TypeOK
  <2> QED BY <2>1, <2>2, <2>3, <2>4, <2>5, <2>6
<1>13. ASSUME NEW p \in Publishers, PublishReturn(p) PROVE Inv'
  <2> USE <1>13 DEF PublishReturn, RUnlock, Goto, streamVars
  <2>1. TypeOK'
    BY DEF TypeOK, Procs, StreamPC, PublisherPC
  <2>2. LockInv'
    BY DEF LockInv, TypeOK, Procs
  <2>3. ProgressInv'
    BY DEF ProgressInv, TypeOK, Procs
  <2>4. RegisteredWhileConnected'
    BY DEF RegisteredWhileConnected, Registered, TypeOK, Procs
  <2>5. NoSendOnClosedChannel'
    BY DEF NoSendOnClosedChannel, TypeOK, Procs
  <2>6. OwnMessagesOnly'
    BY DEF OwnMessagesOnly, TypeOK, Procs
  <2> QED BY <2>1, <2>2, <2>3, <2>4, <2>5, <2>6
<1>14. CASE UNCHANGED vars
  BY <1>14 DEF vars, mutex, streamVars, TypeOK, LockInv, ProgressInv,
     RegisteredWhileConnected, Registered, NoSendOnClosedChannel, OwnMessagesOnly
<1> QED BY <1>1, <1>2, <1>3, <1>4, <1>5, <1>6, <1>7, <1>8, <1>9, <1>10, <1>11,
           <1>12, <1>13, <1>14 DEF Next, Handler, Publisher

\* The whole of Inv holds in every reachable state.
THEOREM Invariance == Spec => []Inv
  BY InvInit, InvNext, PTL DEF Spec

\* Types, and the buffers never hold more than their capacity.
THEOREM TypeCorrect == Spec => []TypeOK
<1>1. Inv => TypeOK
  BY DEF Inv
<1> QED BY <1>1, Invariance, PTL

\* However streams come and go, no Publish ever sends on a closed channel.
THEOREM NoPanic == Spec => []NoSendOnClosedChannel
<1>1. Inv => NoSendOnClosedChannel
  BY DEF Inv
<1> QED BY <1>1, Invariance, PTL

\* The clients map lists exactly the connected streams, each once.
THEOREM RegistryCorrect == Spec => []RegisteredWhileConnected
<1>1. Inv => RegisteredWhileConnected
  BY DEF Inv
<1> QED BY <1>1, Invariance, PTL

\* No stream ever holds a message addressed to another user.
THEOREM Isolation == Spec => []OwnMessagesOnly
<1>1. Inv => OwnMessagesOnly
  BY DEF Inv
<1> QED BY <1>1, Invariance, PTL

-----------------------------------------------------------------------------
(* Order within a stream                                                   *)

\* Numbers of the messages of p that stream s was sent, has in hand or queues
Reached(p, s) ==
    {last[s][p]} \cup
    {m.seq : m \in {x \in ToSet(held[s]) \cup ToSet(buf[s]) : x.from = p}}

\* What was sent precedes what is queued, the queue is in order, and the
\* message in hand stands between the two.
InOrder(s) ==
    /\ \A i \in DOMAIN buf[s] : Precedes(last[s][buf[s][i].from], buf[s][i].seq)
    /\ \A i, j \in DOMAIN buf[s] :
         i < j /\ buf[s][i].from = buf[s][j].from => Precedes(buf[s][i].seq, buf[s][j].seq)
    /\ held[s] # <<>> =>
         /\ Precedes(last[s][held[s][1].from], held[s][1].seq)
         /\ \A i \in DOMAIN buf[s] :
              buf[s][i].from = held[s][1].from => Precedes(held[s][1].seq, buf[s][i].seq)

\* The streams a Publish has still to offer its message to
Owes(p, s) == pc[p] = "rlock" \/ s \in ToSet(rest[p])

\* No stream is ahead of the latest call of a publisher, and one that is owed
\* the message has none that is as late.
OrderInv ==
    /\ \A s \in Streams : InOrder(s)
    /\ \A p \in Publishers : \A s \in Streams : \A n \in Reached(p, s) :
         /\ n <= call[p].seq
         /\ Owes(p, s) => Precedes(n, call[p].seq)
    /\ \A p \in Publishers : call[p] \in Messages => call[p].from = p

LEMMA OrderTypes ==
    ASSUME TypeOK, NEW p \in Publishers
    PROVE  /\ call[p].seq \in 0..MaxSeq
           /\ \A s \in Streams : Reached(p, s) \subseteq 0..MaxSeq
<1>1. call[p].seq \in 0..MaxSeq
  BY ConnectionAssumption DEF TypeOK, Messages, NoCall
<1>2. ASSUME NEW s \in Streams PROVE Reached(p, s) \subseteq 0..MaxSeq
  <2>1. last[s][p] \in 0..MaxSeq
    BY DEF TypeOK
  <2>2. ToSet(held[s]) \subseteq Messages /\ ToSet(buf[s]) \subseteq Messages
    BY SetOfSeq DEF TypeOK
  <2> QED BY <2>1, <2>2 DEF Reached, Messages
<1> QED BY <1>1, <1>2

\* A step that leaves the line of every stream but s alone, sends s nothing
\* new and starts no Publish.
LEMMA LineStep ==
    ASSUME OrderInv, NEW s \in Streams, InOrder(s)', UNCHANGED call,
           \A p \in Publishers : Reached(p, s)' \subseteq Reached(p, s),
           \A t \in Streams \ {s} :
             buf'[t] = buf[t] /\ held'[t] = held[t] /\ last'[t] = last[t],
           \A p \in Publishers : \A t \in Streams : Owes(p, t)' => Owes(p, t)
    PROVE  OrderInv'
<1>1. ASSUME NEW t \in Streams \ {s}
      PROVE  InOrder(t)' /\ \A p \in Publishers : Reached(p, t)' = Reached(p, t)
  <2>1. InOrder(t)
    BY DEF OrderInv
  <2> QED BY <2>1 DEF InOrder, Reached
<1>2. \A t \in Streams : InOrder(t)'
  BY <1>1
<1>3. \A p \in Publishers : \A t \in Streams : Reached(p, t)' \subseteq Reached(p, t)
  BY <1>1
<1> QED BY <1>2, <1>3 DEF OrderInv

\* The line of each stream after a step that leaves them all alone
LEMMA QuietStep ==
    ASSUME OrderInv, UNCHANGED <<buf, held, last, call>>,
           \A p \in Publishers : \A t \in Streams : Owes(p, t)' => Owes(p, t)
    PROVE  OrderInv'
<1>1. ASSUME NEW t \in Streams
      PROVE  InOrder(t)' /\ \A p \in Publishers : Reached(p, t)' = Reached(p, t)
  <2>1. InOrder(t)
    BY DEF OrderInv
  <2> QED BY <2>1 DEF InOrder, Reached
<1> QED BY <1>1 DEF OrderInv

LEMMA ReceiveOrder ==
    ASSUME Inv, OrderInv, NEW s \in Streams, Receive(s)
    PROVE  OrderInv'
<1>1. /\ pc[s] = "loop" /\ buf[s] # <<>> /\ pc' = [pc EXCEPT ![s] = "sending"]
      /\ held' = [held EXCEPT ![s] = <<Head(buf[s])>>]
      /\ buf' = [buf EXCEPT ![s] = Tail(buf[s])]
      /\ UNCHANGED <<last, call, rest>>
  BY DEF Receive, Goto
<1>2. /\ buf \in [Streams -> Seq(Messages)] /\ held \in [Streams -> Seq(Messages)]
      /\ held[s] = <<>>
  BY <1>1 DEF Inv, TypeOK, ProgressInv
<1>3. /\ buf'[s] = Tail(buf[s]) /\ held'[s] = <<Head(buf[s])>>
      /\ \A t \in Streams \ {s} : buf'[t] = buf[t] /\ held'[t] = held[t]
  BY <1>1, <1>2
<1>4. /\ Len(buf[s]) \in Nat \ {0} /\ DOMAIN buf[s] = 1..Len(buf[s])
      /\ DOMAIN buf'[s] = 1..(Len(buf[s]) - 1)
      /\ \A i \in 1..(Len(buf[s]) - 1) : buf'[s][i] = buf[s][i + 1]
      /\ held'[s][1] = buf[s][1]
  BY <1>1, <1>2, <1>3
<1>5. InOrder(s)'
  <2>1. InOrder(s)
    BY DEF OrderInv
  <2>2. \A i \in DOMAIN buf'[s] : i + 1 \in DOMAIN buf[s] /\ 1 < i + 1 /\ 1 \in DOMAIN buf[s]
    BY <1>4
  <2>3. \A i \in DOMAIN buf'[s] : \A j \in DOMAIN buf'[s] : i < j => i + 1 < j + 1
    BY <1>4
  <2>4. last' = last /\ 1 \in DOMAIN buf[s]
    BY <1>1, <1>4
  <2> QED BY <1>4, <2>1, <2>2, <2>3, <2>4 DEF InOrder
<1>6. ASSUME NEW p \in Publishers PROVE Reached(p, s)' = Reached(p, s)
  <2>1. ToSet(buf[s]) = {Head(buf[s])} \cup ToSet(Tail(buf[s]))
    BY <1>1, <1>2, HeadTailSet
  <2>2. ToSet(held'[s]) = {Head(buf[s])} /\ ToSet(held[s]) = {}
    BY <1>2, <1>3, SmallSets
  <2> QED BY <1>1, <1>3, <2>1, <2>2 DEF Reached
<1>7. \A p \in Publishers : \A t \in Streams : Owes(p, t)' => Owes(p, t)
  BY <1>1, ConnectionAssumption DEF Owes, Inv, TypeOK, Procs
<1> QED BY <1>1, <1>3, <1>5, <1>6, <1>7, LineStep

LEMMA SendOrder ==
    ASSUME Inv, OrderInv, NEW s \in Streams, SendAccepted(s) \/ SendFailed(s)
    PROVE  OrderInv'
<1> DEFINE m == held[s][1]
<1>1. /\ pc[s] = "sending" /\ held' = [held EXCEPT ![s] = <<>>]
      /\ UNCHANGED <<buf, call, rest>>
      /\ last' = last \/ last' = [last EXCEPT ![s][Head(held[s]).from] = Head(held[s]).seq]
      /\ \A p \in Publishers : pc'[p] = pc[p]
  BY ConnectionAssumption DEF SendAccepted, SendFailed, Goto, Inv, TypeOK, Procs
<1>2. /\ held \in [Streams -> Seq(Messages)] /\ buf \in [Streams -> Seq(Messages)]
      /\ last \in [Streams -> [Publishers -> 0..MaxSeq]] /\ held[s] # <<>>
  BY <1>1 DEF Inv, TypeOK, ProgressInv
<1>3. Head(held[s]) = m /\ m \in Messages /\ m \in ToSet(held[s])
  BY <1>2, HeadTailSet
<1>4. /\ held'[s] = <<>> /\ buf'[s] = buf[s]
      /\ \A p \in Publishers : \/ last'[s][p] = last[s][p]
                               \/ p = m.from /\ last'[s][p] = m.seq
      /\ \A t \in Streams \ {s} : buf'[t] = buf[t] /\ held'[t] = held[t] /\ last'[t] = last[t]
  BY <1>1, <1>2, <1>3 DEF Messages
<1>5. \A i \in DOMAIN buf[s] : buf[s][i] \in Messages
  BY <1>2
<1>6. InOrder(s)'
  <2>1. InOrder(s)
    BY DEF OrderInv
  <2> HIDE DEF m
  <2>2. ASSUME NEW i \in DOMAIN buf[s]
        PROVE  Precedes(last'[s][buf[s][i].from], buf[s][i].seq)
    <3>1. buf[s][i].from \in Publishers
      BY <1>5 DEF Messages
    <3>2. Precedes(last[s][buf[s][i].from], buf[s][i].seq)
      BY <2>1 DEF InOrder
    <3>3. buf[s][i].from = m.from => Precedes(m.seq, buf[s][i].seq)
      BY <1>2, <2>1 DEF InOrder, m
    <3> QED BY <1>4, <3>1, <3>2, <3>3
  <2> QED BY <1>4, <2>1, <2>2 DEF InOrder
<1>7. ASSUME NEW p \in Publishers PROVE Reached(p, s)' \subseteq Reached(p, s)
  <2>1. last'[s][p] \in Reached(p, s)
    <3>1. m.from = p => m.seq \in Reached(p, s)
      BY <1>3 DEF Reached
    <3> QED BY <1>4, <3>1 DEF Reached
  <2>2. ToSet(held'[s]) = {}
    BY <1>4, SmallSets
  <2> QED BY <1>4, <2>1, <2>2 DEF Reached
<1>8. \A p \in Publishers : \A t \in Streams : Owes(p, t)' => Owes(p, t)
  BY <1>1 DEF Owes
<1> QED BY <1>1, <1>4, <1>6, <1>7, <1>8, LineStep

\* The offered message goes behind those of the publisher's earlier calls.
LEMMA OfferOrder ==
    ASSUME Inv, OrderInv, NEW p \in Publishers, Offer(p)
    PROVE  OrderInv'
<1>1. /\ pc[p] = "range" /\ rest[p] \in Seq(Streams) /\ rest[p] # <<>> /\ IsInjective(rest[p])
      /\ call[p] \in Messages /\ call[p].from = p
  BY DEF Offer, Inv, TypeOK, ProgressInv, OrderInv
<1>0. PICK t \in Streams : t = Head(rest[p])
  BY <1>1, HeadTailSet
<1> DEFINE q == buf[t]
<1>2. /\ t \in ToSet(rest[p])
      /\ ToSet(rest[p]) = {t} \cup ToSet(Tail(rest[p])) /\ t \notin ToSet(Tail(rest[p]))
  BY <1>0, <1>1, HeadTailSet
<1>3. UNCHANGED <<held, last, call, pc>>
  BY DEF Offer, streamVars
<1>4. rest' = [rest EXCEPT ![p] = Tail(rest[p])] /\ rest \in [Publishers -> Seq(Streams)]
  BY DEF Offer, Inv, TypeOK
<1>5. buf \in [Streams -> Seq(Messages)] /\ q \in Seq(Messages)
  BY DEF Inv, TypeOK
<1>6. buf' = buf \/ buf' = [buf EXCEPT ![t] = Append(q, call[p])]
  BY <1>0, <1>5 DEF Offer
<1>7. /\ \A r \in Publishers : \A s \in Streams : Owes(r, s)' => Owes(r, s)
      /\ ~Owes(p, t)' /\ Owes(p, t)
  BY <1>1, <1>2, <1>3, <1>4 DEF Owes
<1>8. CASE buf' = buf
  BY <1>3, <1>7, <1>8, QuietStep
<1>9. CASE buf' = [buf EXCEPT ![t] = Append(q, call[p])]
  <2>1. /\ buf'[t] = Append(q, call[p])
        /\ \A s \in Streams \ {t} : buf'[s] = buf[s]
    BY <1>2, <1>5, <1>9
  <2>2. /\ Len(q) \in Nat /\ DOMAIN q = 1..Len(q) /\ DOMAIN buf'[t] = 1..(Len(q) + 1)
        /\ \A i \in 1..Len(q) : buf'[t][i] = q[i]
        /\ buf'[t][Len(q) + 1] = call[p]
        /\ ToSet(buf'[t]) = ToSet(q) \cup {call[p]}
    BY <1>1, <1>5, <2>1, AppendSet
  <2>3. \A n \in Reached(p, t) : Precedes(n, call[p].seq)
    BY <1>2, <1>7 DEF OrderInv
  <2>4. /\ Precedes(last[t][p], call[p].seq)
        /\ \A x \in ToSet(held[t]) \cup ToSet(q) : x.from = p => Precedes(x.seq, call[p].seq)
    BY <2>3 DEF Reached
  <2>5. InOrder(t)'
    <3>1. InOrder(t)
      BY <1>2 DEF OrderInv
    <3>2. \A i \in DOMAIN q : q[i] \in ToSet(q)
      BY DEF ToSet
    <3>3. held[t] # <<>> => held[t][1] \in ToSet(held[t])
      <4>1. held[t] \in Seq(Messages)
        BY <1>2 DEF Inv, TypeOK
      <4> QED BY <4>1, HeadTailSet
    <3>4. \A i \in DOMAIN buf'[t] :
            \/ i \in DOMAIN q /\ buf'[t][i] = q[i]
            \/ i = Len(q) + 1 /\ buf'[t][i] = call[p]
      BY <2>2
    <3>5. ASSUME NEW i \in DOMAIN buf'[t]
          PROVE  Precedes(last[t][buf'[t][i].from], buf'[t][i].seq)
      BY <1>1, <2>4, <3>1, <3>4 DEF InOrder
    <3>6. ASSUME NEW i \in DOMAIN buf'[t], NEW j \in DOMAIN buf'[t], i < j,
                 buf'[t][i].from = buf'[t][j].from
          PROVE  Precedes(buf'[t][i].seq, buf'[t][j].seq)
      <4>1. CASE j \in DOMAIN q
        <5>1. i \in DOMAIN q
          BY <2>2, <3>6, <4>1
        <5> QED BY <2>2, <3>1, <3>6, <4>1, <5>1 DEF InOrder
      <4>2. CASE j = Len(q) + 1
        <5>1. i \in DOMAIN q /\ buf'[t][i] = q[i] /\ buf'[t][j] = call[p]
          BY <2>2, <3>6, <4>2
        <5> QED BY <1>1, <2>4, <3>2, <3>6, <5>1
      <4> QED BY <3>4, <4>1, <4>2
    <3>7. ASSUME held[t] # <<>>, NEW i \in DOMAIN buf'[t], buf'[t][i].from = held[t][1].from
          PROVE  Precedes(held[t][1].seq, buf'[t][i].seq)
      BY <1>1, <2>4, <3>1, <3>3, <3>4, <3>7 DEF InOrder
    <3>8. held[t] # <<>> => Precedes(last[t][held[t][1].from], held[t][1].seq)
      BY <3>1 DEF InOrder
    <3> QED BY <1>3, <3>5, <3>6, <3>7, <3>8 DEF InOrder
  <2>6. ASSUME NEW s \in Streams, s # t
        PROVE  InOrder(s)' /\ \A r \in Publishers : Reached(r, s)' = Reached(r, s)
    <3>1. InOrder(s)
      BY DEF OrderInv
    <3> QED BY <1>3, <2>1, <2>6, <3>1 DEF InOrder, Reached
  <2>7. /\ \A r \in Publishers \ {p} : Reached(r, t)' = Reached(r, t)
        /\ Reached(p, t)' = Reached(p, t) \cup {call[p].seq}
    BY <1>1, <1>3, <2>2 DEF Reached
  <2>8. call[p].seq <= call[p].seq
    BY <1>1 DEF Messages
  <2> QED BY <1>2, <1>3, <1>7, <2>5, <2>6, <2>7, <2>8 DEF OrderInv
<1> QED BY <1>6, <1>8, <1>9

\* A new call has a number that all the earlier ones precede.
LEMMA CallOrder ==
    ASSUME Inv, OrderInv, NEW p \in Publishers, NEW u \in Users, PublishCall(p, u)
    PROVE  OrderInv'
<1>1. /\ UNCHANGED <<held, last, buf, rest>>
      /\ call' = [call EXCEPT ![p] = [to |-> u, from |-> p, seq |-> Following(call[p].seq)]]
      /\ \A r \in Publishers \ {p} : pc'[r] = pc[r]
  BY DEF PublishCall, streamVars, Goto, Inv, TypeOK, Procs
<1>2. /\ call'[p].seq = Following(call[p].seq)
      /\ \A r \in Publishers \ {p} : call'[r] = call[r]
  BY <1>1 DEF Inv, TypeOK
<1>3. ASSUME NEW s \in Streams
      PROVE  InOrder(s)' /\ \A r \in Publishers : Reached(r, s)' = Reached(r, s)
  <2>1. InOrder(s)
    BY DEF OrderInv
  <2> QED BY <1>1, <2>1 DEF InOrder, Reached
<1>4. ASSUME NEW s \in Streams, NEW n \in Reached(p, s)
      PROVE  n <= Following(call[p].seq) /\ Precedes(n, Following(call[p].seq))
  <2>1. n \in 0..MaxSeq /\ call[p].seq \in 0..MaxSeq
    BY OrderTypes DEF Inv
  <2>2. n <= call[p].seq
    BY DEF OrderInv
  <2> QED BY <2>1, <2>2, ConnectionAssumption DEF Following, Precedes
<1>5. ASSUME NEW r \in Publishers, r # p, NEW s \in Streams
      PROVE  Owes(r, s)' <=> Owes(r, s)
  BY <1>1, <1>5 DEF Owes
<1>6. \A r \in Publishers : call'[r] \in Messages => call'[r].from = r
  <2>1. call'[p].from = p
    BY <1>1 DEF Inv, TypeOK
  <2> QED BY <1>2, <2>1 DEF OrderInv
<1> QED BY <1>2, <1>3, <1>4, <1>5, <1>6 DEF OrderInv

LEMMA OrderNext == Inv /\ OrderInv /\ [Next]_vars => OrderInv'
<1> SUFFICES ASSUME Inv, OrderInv, [Next]_vars PROVE OrderInv'
  OBVIOUS
<1>1. ASSUME NEW s \in Streams, Handler(s) PROVE OrderInv'
  <2>1. CASE Receive(s) \/ SendAccepted(s) \/ SendFailed(s)
    BY <2>1, ReceiveOrder, SendOrder
  <2>2. CASE \/ LockForSubscribe(s) \/ Subscribe(s) \/ Cancel(s) \/ ContextDone(s)
             \/ LockForUnsubscribe(s) \/ Unsubscribe(s)
    <3>1. /\ UNCHANGED <<buf, held, last, call, rest>>
          /\ \A p \in Publishers : pc'[p] = pc[p]
      BY <2>2, ConnectionAssumption
         DEF LockForSubscribe, Subscribe, Cancel, ContextDone, LockForUnsubscribe, Unsubscribe,
             Goto, streamVars, Inv, TypeOK, Procs
    <3>2. \A p \in Publishers : \A t \in Streams : Owes(p, t)' => Owes(p, t)
      BY <3>1 DEF Owes
    <3> QED BY <3>1, <3>2, QuietStep
  <2> QED BY <1>1, <2>1, <2>2 DEF Handler
<1>2. ASSUME NEW p \in Publishers, PublishRange(p) PROVE OrderInv'
  <2>1. /\ pc[p] = "rlock" /\ UNCHANGED <<buf, held, last, call>>
        /\ \A r \in Publishers \ {p} : pc'[r] = pc[r] /\ rest'[r] = rest[r]
    BY <1>2 DEF PublishRange, Goto, streamVars, Inv, TypeOK, Procs
  <2>2. \A r \in Publishers : \A t \in Streams : Owes(r, t)' => Owes(r, t)
    BY <2>1 DEF Owes
  <2> QED BY <2>1, <2>2, QuietStep
<1>3. ASSUME NEW p \in Publishers, PublishReturn(p) PROVE OrderInv'
  <2>1. /\ UNCHANGED <<buf, held, last, call, rest>> /\ pc'[p] = "idle"
        /\ \A r \in Publishers \ {p} : pc'[r] = pc[r]
    BY <1>3 DEF PublishReturn, Goto, streamVars, Inv, TypeOK, Procs
  <2>2. \A r \in Publishers : \A t \in Streams : Owes(r, t)' => Owes(r, t)
    BY <2>1 DEF Owes
  <2> QED BY <2>1, <2>2, QuietStep
<1>4. ASSUME NEW p \in Publishers, Publisher(p) PROVE OrderInv'
  BY <1>2, <1>3, <1>4, CallOrder, OfferOrder DEF Publisher
<1>5. CASE UNCHANGED vars
  <2>1. UNCHANGED <<buf, held, last, call, rest, pc>>
    BY <1>5 DEF vars, streamVars
  <2>2. \A r \in Publishers : \A t \in Streams : Owes(r, t)' => Owes(r, t)
    BY <2>1 DEF Owes
  <2> QED BY <2>1, <2>2, QuietStep
<1> QED BY <1>1, <1>4, <1>5 DEF Next

LEMMA OrderInit == Init => OrderInv
<1> SUFFICES ASSUME Init PROVE OrderInv
  OBVIOUS
<1>1. ASSUME NEW s \in Streams PROVE InOrder(s)
  BY DEF Init, InOrder
<1>2. ASSUME NEW p \in Publishers, NEW s \in Streams
      PROVE  Reached(p, s) = {0} /\ call[p].seq = 0 /\ ~Owes(p, s)
  <2>1. p \in Procs /\ p \notin Streams
    BY ConnectionAssumption DEF Procs
  <2> QED BY <2>1, SmallSets DEF Init, Reached, NoCall, Owes
<1>3. \A p \in Publishers : call[p] \notin Messages
  BY DEF Init, NoCall, Messages
<1> QED BY <1>1, <1>2, <1>3 DEF OrderInv

\* The message in hand stands before those in the queue.
LEMMA OneBefore ==
    ASSUME NEW S, NEW h \in Seq(S), NEW q \in Seq(S), h # <<>>, Len(h) <= 1
    PROVE  /\ DOMAIN (h \o q) = 1..(Len(q) + 1)
           /\ (h \o q)[1] = h[1]
           /\ \A i \in 2..(Len(q) + 1) : (h \o q)[i] = q[i - 1]
<1>1. Len(h) = 1 /\ Len(q) \in Nat
  <2> DEFINE n == Len(h)
  <2>1. n \in Nat \ {0} /\ n <= 1
    BY EmptySeq
  <2>2. Len(q) \in Nat
    BY LenProperties
  <2> HIDE DEF n
  <2>3. n = 1
    BY <2>1
  <2> QED BY <2>2, <2>3 DEF n
<1>2. /\ h \o q \in Seq(S) /\ Len(h \o q) = Len(h) + Len(q)
      /\ \A i \in 1..Len(h) + Len(q) :
           (h \o q)[i] = IF i <= Len(h) THEN h[i] ELSE q[i - Len(h)]
  BY ConcatProperties
<1>3. DOMAIN (h \o q) = 1..Len(h \o q)
  BY <1>2, LenProperties
<1> DEFINE r == h \o q
<1> HIDE DEF r
<1>4. Len(h) + Len(q) = Len(q) + 1
  BY <1>1
<1>5. /\ \A i \in 1..(Len(q) + 1) : r[i] = IF i <= 1 THEN h[i] ELSE q[i - 1]
      /\ DOMAIN r = 1..(Len(q) + 1)
  BY <1>1, <1>2, <1>3, <1>4 DEF r
<1>6. r[1] = h[1] /\ \A i \in 2..(Len(q) + 1) : r[i] = q[i - 1]
  BY <1>1, <1>5
<1> QED BY <1>5, <1>6 DEF r

\* What one goroutine publishes reaches a stream in the order of its calls
\* and at most once each, whatever is buffered, dropped or lost in a failed
\* Send (connection_manager.go 79-90, message_server.go ConnectMessages).
THEOREM Order == Spec => []InOrderAtMostOnce
<1>1. Inv /\ OrderInv => InOrderAtMostOnce
  <2> SUFFICES ASSUME Inv, OrderInv, NEW s \in Streams
               PROVE  LET seen == held[s] \o buf[s]
                      IN /\ \A i \in DOMAIN seen :
                              Precedes(last[s][seen[i].from], seen[i].seq)
                         /\ \A i, j \in DOMAIN seen :
                              i < j /\ seen[i].from = seen[j].from
                                  => Precedes(seen[i].seq, seen[j].seq)
    BY DEF InOrderAtMostOnce
  <2> DEFINE seen == held[s] \o buf[s]
  <2>1. InOrder(s)
    BY DEF OrderInv
  <2>2. /\ held[s] \in Seq(Messages) /\ buf[s] \in Seq(Messages)
        /\ Len(held[s]) \in Nat /\ Len(held[s]) <= 1
    BY DEF Inv, TypeOK
  <2>3. CASE held[s] = <<>>
    <3>1. seen = buf[s]
      BY <2>2, <2>3
    <3> QED BY <2>1, <3>1 DEF InOrder
  <2>4. CASE held[s] # <<>>
    <3>1. Len(buf[s]) \in Nat /\ DOMAIN buf[s] = 1..Len(buf[s])
      BY <2>2, LenProperties
    <3>2. /\ DOMAIN seen = 1..(Len(buf[s]) + 1)
          /\ seen[1] = held[s][1]
          /\ \A i \in 2..(Len(buf[s]) + 1) : seen[i] = buf[s][i - 1]
      <4> DEFINE h == held[s]
                 q == buf[s]
      <4>1. h \in Seq(Messages) /\ q \in Seq(Messages) /\ h # <<>> /\ Len(h) <= 1
        BY <2>2, <2>4
      <4> HIDE DEF h, q
      <4>2. /\ DOMAIN (h \o q) = 1..(Len(q) + 1)
            /\ (h \o q)[1] = h[1]
            /\ \A i \in 2..(Len(q) + 1) : (h \o q)[i] = q[i - 1]
        BY <4>1, OneBefore
      <4> QED BY <4>2 DEF h, q
    <3> HIDE DEF seen
    <3>3. ASSUME NEW i \in DOMAIN seen
          PROVE  i = 1 \/ (i \in 2..(Len(buf[s]) + 1) /\ i - 1 \in DOMAIN buf[s])
      BY <3>1, <3>2
    <3>4. \A i \in DOMAIN seen : Precedes(last[s][seen[i].from], seen[i].seq)
      BY <2>1, <2>4, <3>2, <3>3 DEF InOrder
    <3>5. ASSUME NEW i \in DOMAIN seen, NEW j \in DOMAIN seen, i < j,
                 seen[i].from = seen[j].from
          PROVE  Precedes(seen[i].seq, seen[j].seq)
      <4>1. j - 1 \in DOMAIN buf[s] /\ seen[j] = buf[s][j - 1]
        BY <3>1, <3>2, <3>5
      <4>2. CASE i = 1
        BY <2>1, <2>4, <3>2, <3>5, <4>1, <4>2 DEF InOrder
      <4>3. CASE i # 1
        <5>1. i - 1 \in DOMAIN buf[s] /\ seen[i] = buf[s][i - 1] /\ i - 1 < j - 1
          BY <3>1, <3>2, <3>5, <4>3
        <5> QED BY <2>1, <3>5, <4>1, <5>1 DEF InOrder
      <4> QED BY <4>2, <4>3
    <3> QED BY <3>4, <3>5 DEF seen
  <2> QED BY <2>3, <2>4
<1> QED BY <1>1, OrderInit, OrderNext, Invariance, PTL DEF Spec

-----------------------------------------------------------------------------
(* The manager implements MessageFeed                                      *)

\* The list of a user holds exactly its live streams.
LEMMA ListOfLive ==
    ASSUME Inv, NEW u \in Users
    PROVE  ToSet(clients[u]) = {s \in {t \in Streams : chan[t] = "open"} :
                                    UserOf[s] = u}
<1>1. ToSet(clients[u]) \subseteq Streams
  BY SetOfSeq DEF Inv, TypeOK
<1> QED BY <1>1, ConnectionAssumption
        DEF Inv, RegisteredWhileConnected, Registered

\* A new manager, with its empty clients map, is an empty feed.
LEMMA FeedInit == Init => Feed!Init
BY ConnectionAssumption, SmallSets DEF Init, Feed!Init, Procs

\* Every step of the manager is a step of the feed or leaves it unchanged.
LEMMA FeedStep == Inv /\ Inv' /\ [Next]_vars => [Feed!Next]_(Feed!vars)
<1> SUFFICES ASSUME Inv, Inv', [Next]_vars PROVE [Feed!Next]_(Feed!vars)
  OBVIOUS
<1> USE ConnectionAssumption
<1> DEFINE opened == {s \in Streams : chan[s] = "open"}
           msg == [p \in Publishers |-> IF pc[p] = "range" THEN call[p] ELSE NoCall]
           owed == [p \in Publishers |-> ToSet(rest[p])]
<1>1. ASSUME NEW s \in Streams, LockForSubscribe(s) PROVE UNCHANGED Feed!vars
  <2>1. UNCHANGED msg
    BY <1>1 DEF LockForSubscribe, Goto, Inv, TypeOK, Procs
  <2> QED BY <1>1, <2>1 DEF LockForSubscribe, Feed!vars
<1>2. ASSUME NEW s \in Streams, Subscribe(s) PROVE Feed!Join(s)
  <2> USE <1>2 DEF Subscribe, Goto
  <2>1. UNCHANGED msg
    BY DEF Inv, TypeOK, Procs
  <2>2. chan[s] = "none" /\ buf[s] = <<>>
    <3>1. chan[s] \in {"none", "open", "closed"}
      BY DEF Inv, TypeOK
    <3>2. chan[s] # "open" /\ chan[s] # "closed"
      BY DEF Inv, RegisteredWhileConnected
    <3> QED BY <3>1, <3>2 DEF Inv, ProgressInv
  <2>3. opened' = opened \cup {s}
    BY DEF Inv, TypeOK
  <2> QED BY <2>1, <2>2, <2>3 DEF Feed!Join
<1>3. ASSUME NEW s \in Streams, Receive(s) PROVE Feed!Take(s)
  <2> USE <1>3 DEF Receive, Goto
  <2>1. UNCHANGED msg
    BY DEF Inv, TypeOK, Procs
  <2>2. chan[s] = "open"
    BY DEF Inv, RegisteredWhileConnected
  <2> QED BY <2>1, <2>2 DEF Feed!Take
<1>4. ASSUME NEW s \in Streams,
             SendAccepted(s) \/ SendFailed(s) \/ Cancel(s) \/ ContextDone(s)
             \/ LockForUnsubscribe(s)
      PROVE  UNCHANGED Feed!vars
  <2> USE <1>4 DEF SendAccepted, SendFailed, Cancel, ContextDone,
                   LockForUnsubscribe, Goto, streamVars
  <2>1. UNCHANGED msg
    BY DEF Inv, TypeOK, Procs
  <2> QED BY <2>1 DEF Feed!vars
<1>5. ASSUME NEW s \in Streams, Unsubscribe(s) PROVE Feed!Leave(s)
  <2> USE <1>5 DEF Unsubscribe, HoldsLock, Goto
  <2>1. UNCHANGED msg
    BY DEF Inv, TypeOK, Procs
  <2>2. s \in ToSet(clients[UserOf[s]]) /\ chan[s] = "open"
    BY DEF Inv, RegisteredWhileConnected, Registered
  <2>3. opened' = opened \ {s}
    BY <2>2 DEF Inv, TypeOK
  <2>4. \A p \in Publishers : rest[p] = <<>>
    BY DEF Inv, LockInv, ProgressInv
  <2> QED BY <2>1, <2>2, <2>3, <2>4, SmallSets DEF Feed!Leave
<1>6. ASSUME NEW p \in Publishers, NEW u \in Users, PublishCall(p, u)
      PROVE  UNCHANGED Feed!vars
  <2> USE <1>6 DEF PublishCall, Goto
  <2>1. UNCHANGED msg
    BY DEF Inv, TypeOK, Procs
  <2> QED BY <2>1 DEF Feed!vars
<1>7. ASSUME NEW p \in Publishers, PublishRange(p)
      PROVE  Feed!Start(p, call[p])
  <2> USE <1>7 DEF PublishRange, Goto
  <2>1. call[p] \in Messages /\ call[p].to \in Users
    BY DEF Inv, ProgressInv, Messages
  <2>2. msg[p] = NoCall /\ msg' = [msg EXCEPT ![p] = call[p]]
    BY DEF Inv, TypeOK, Procs
  <2>3. rest' = [rest EXCEPT ![p] = clients[call[p].to]]
    OBVIOUS
  <2>4. owed' = [owed EXCEPT ![p] = {s \in opened : UserOf[s] = call[p].to}]
    <3>1. ToSet(clients[call[p].to]) = {s \in opened : UserOf[s] = call[p].to}
      BY <2>1, ListOfLive DEF Inv
    <3>2. rest \in [Publishers -> Seq(Streams)]
      BY DEF Inv, TypeOK
    <3> QED BY <2>3, <3>1, <3>2
  <2> QED BY <2>1, <2>2, <2>4 DEF Feed!Start
<1>8. ASSUME NEW p \in Publishers, Offer(p)
      PROVE  Feed!OfferTo(p, Head(rest[p]))
  <2> USE <1>8 DEF Offer
  <2> DEFINE t == Head(rest[p])
  <2>0. rest[p] \in Seq(Streams) /\ rest[p] # <<>> /\ IsInjective(rest[p])
    BY DEF Inv, TypeOK, ProgressInv
  <2>1. /\ t \in Streams /\ t \in ToSet(rest[p])
        /\ ToSet(rest[p]) = {t} \cup ToSet(Tail(rest[p]))
        /\ t \notin ToSet(Tail(rest[p]))
    BY <2>0, HeadTailSet
  <2>2. owed' = [owed EXCEPT ![p] = @ \ {t}]
    <3>1. rest' = [rest EXCEPT ![p] = Tail(rest[p])]
      BY DEF Inv, TypeOK
    <3>2. ToSet(Tail(rest[p])) = ToSet(rest[p]) \ {t}
      BY <2>1
    <3>3. rest \in [Publishers -> Seq(Streams)]
      BY DEF Inv, TypeOK
    <3> HIDE DEF t
    <3> QED BY <3>1, <3>2, <3>3
  <2>3. msg[p] = call[p] /\ UNCHANGED msg
    OBVIOUS
  <2> QED BY <2>1, <2>2, <2>3 DEF Feed!OfferTo
<1>9. ASSUME NEW p \in Publishers, PublishReturn(p) PROVE Feed!Finish(p)
  <2> USE <1>9 DEF PublishReturn, Goto
  <2>1. call[p] # NoCall
    BY DEF Inv, ProgressInv, Messages, NoCall
  <2>2. msg' = [msg EXCEPT ![p] = NoCall]
    BY DEF Inv, TypeOK, Procs
  <2> QED BY <2>1, <2>2, SmallSets DEF Feed!Finish
<1>10. CASE UNCHANGED vars
  BY <1>10 DEF vars, Feed!vars
<1>11. \A p \in Publishers : call[p] \in Messages \cup {NoCall}
  BY DEF Inv, TypeOK
<1>12. \A p \in Publishers : PublishRange(p) => call[p] \in Messages
  BY DEF PublishRange, Inv, ProgressInv
<1>13. ASSUME NEW p \in Publishers, Offer(p) PROVE Head(rest[p]) \in Streams
  <2>1. rest[p] \in Seq(Streams) /\ rest[p] # <<>>
    BY <1>13 DEF Offer, Inv, TypeOK
  <2> QED BY <2>1, HeadTailSet
<1>14. ASSUME NEW s \in Streams, Handler(s) PROVE [Feed!Next]_(Feed!vars)
  BY <1>1, <1>2, <1>3, <1>4, <1>5, <1>14 DEF Handler, Feed!Next
<1>15. ASSUME NEW p \in Publishers, Publisher(p)
       PROVE  [Feed!Next]_(Feed!vars)
  <2>1. CASE \E u \in Users : PublishCall(p, u)
    BY <1>6, <2>1
  <2>2. CASE PublishRange(p)
    <3>1. call[p] \in Messages /\ Feed!Start(p, call[p])
      BY <1>7, <1>12, <2>2
    <3>2. \E m \in Messages : Feed!Start(p, m)
      BY <3>1 DEF Feed!Start
    <3> QED BY <3>2 DEF Feed!Next
  <2>3. CASE Offer(p)
    BY <1>8, <1>13, <2>3 DEF Feed!Next
  <2>4. CASE PublishReturn(p)
    BY <1>9, <2>4 DEF Feed!Next
  <2> QED BY <1>15, <2>1, <2>2, <2>3, <2>4 DEF Publisher
<1> QED BY <1>10, <1>14, <1>15 DEF Next

\* Subscribe, Unsubscribe and Publish with their lock and lists implement the
\* broadcast of MessageFeed: no message skips or visits twice a stream that
\* was connected when its Publish began.
THEOREM Refinement == Spec => ImplementsFeed
<1>1. Inv /\ Inv' /\ [Next]_vars => [Feed!Next]_(Feed!vars)
  BY FeedStep
<1> QED BY <1>1, FeedInit, Invariance, PTL DEF Spec, ImplementsFeed, Feed!Spec
-----------------------------------------------------------------------------
(* ChatView, for any chats, messages, versions and bounds.  First the      *)
(* inductive invariant and its parts.                                      *)

\* What a list shows of a message is something that was once in its row.
TrueEntry(m, e) ==
    /\ e.version > 0 /\ e.version <= row[m].version
    /\ e.blank <=> row[m].deleted /\ e.version = row[m].version
    /\ e.flag => e.blank

TrueList(l) ==
    \A m \in MessageIds : Len(l[m]) <= 1 /\ \A i \in DOMAIN l[m] : TrueEntry(m, l[m][i])

\* An event tells of a version of another user's message.
TrueEvent(e) ==
    /\ e.msg \notin Own
    /\ e.version > 0 /\ e.version <= row[e.msg].version
    /\ e.blank <=> row[e.msg].deleted /\ e.version = row[e.msg].version

ListsInv ==
    /\ TrueList(screen)
    /\ fetch # None => TrueList(fetch.list)

EventsInv ==
    /\ \A e \in due : TrueEvent(e)
    /\ \A i \in DOMAIN channel : TrueEvent(channel[i])

\* Only own messages are posted; what was deleted had been sent.
PostsInv ==
    \A m \in MessageIds :
        /\ row[m].deleted => row[m].version > 0
        /\ posts[m] # None => m \in Own
        /\ posts[m] # None /\ posts[m].phase = "sent" => row[m].version < MaxVersion[m]
        /\ posts[m] # None /\ posts[m].phase = "ok" /\ posts[m].kind = "delete"
              => row[m].deleted

\* The list of the open chat holds nothing else unless it is crossed.
ChatInv ==
    /\ ScreenIsOpenChat
    /\ fetch # None => fetch.chat = open \/ crossed
    /\ fetch # None => \A m \in MessageIds : fetch.list[m] # <<>> => ChatOf[m] = fetch.chat
    /\ crossed => excused = MessageIds

\* A version the client was not told of is on its way.
Coming(m) ==
    \/ \E e \in due : e.msg = m /\ e.version = row[m].version
    \/ \E i \in DOMAIN channel : channel[i].msg = m /\ channel[i].version = row[m].version
    \/ posts[m] # None /\ posts[m].phase = "ok"

ToldInv == \A m \in MessageIds : heard[m] < row[m].version => Coming(m)

\* What the client was told of is on the list, unless a fetch will decide it.
Current(m) ==
    \/ \E i \in DOMAIN screen[m] : screen[m][i].version >= heard[m]
    \/ screen[m] = <<>> /\ row[m].deleted /\ m \in Own

ScreenInv ==
    fetch = None =>
        \A m \in MessageIds \ excused : ChatOf[m] = open /\ heard[m] > 0 => Current(m)

\* A run is late when one that started after it has ended.
Overtaking == \A i, j \in DOMAIN runs : i < j /\ runs[j].late => runs[i].late

\* The last run has the list l; when all are late, so has what is drawn.
RunsHave(l) ==
    /\ runs # <<>> /\ ~runs[Len(runs)].late => runs[Len(runs)].copy = l
    /\ ~overtaken /\ (\A i \in DOMAIN runs : runs[i].late) => drawn = l

RunsInv ==
    /\ loading => fetch # None /\ runs = <<>>
    /\ Overtaking
    /\ ~loading => RunsHave(screen)

ViewInv ==
    /\ ViewTypeOK /\ ListsInv /\ EventsInv /\ PostsInv /\ ChatInv
    /\ ToldInv /\ ScreenInv /\ RunsInv

-----------------------------------------------------------------------------
(* What the operators return                                               *)

LEMMA NoMessagesList ==
    /\ NoMessages \in Lists /\ TrueList(NoMessages)
    /\ \A m \in MessageIds : NoMessages[m] = <<>>
  BY DEF NoMessages, Lists, TrueList

LEMMA AskedFetch ==
    ASSUME NEW chat \in Chats
    PROVE  /\ Asked(chat) \in Fetches /\ Asked(chat) # None
           /\ Asked(chat).chat = chat /\ Asked(chat).list = NoMessages
<1>1. Asked(chat) \in Fetches
  BY NoMessagesList DEF Asked, Fetches
<1> QED BY <1>1, ViewAssumption DEF Asked

\* The answer of GetMessages has a row of its chat at most once.
LEMMA ListedRows ==
    ASSUME row \in [MessageIds -> [version : Nat, deleted : BOOLEAN]],
           NEW chat \in Chats, NEW read \in SUBSET Rows(chat)
    PROVE  /\ Listed(read) \in Lists /\ TrueList(Listed(read))
           /\ \A m \in MessageIds : Listed(read)[m] # <<>> => ChatOf[m] = chat
<1> DEFINE entry(m) == [version |-> row[m].version, blank |-> row[m].deleted,
                        flag |-> row[m].deleted]
<1>1. \A m \in MessageIds : entry(m) \in Entries
  BY DEF Entries
<1>2. \A m \in MessageIds : Listed(read)[m] = IF m \in read THEN <<entry(m)>> ELSE <<>>
  BY DEF Listed
<1>3. \A m \in read : ChatOf[m] = chat /\ row[m].version > 0 /\ TrueEntry(m, entry(m))
  BY DEF Rows, TrueEntry
<1>4. Listed(read) = [m \in MessageIds |-> IF m \in read THEN <<entry(m)>> ELSE <<>>]
  BY DEF Listed
<1> HIDE DEF entry
<1>5. Listed(read) \in Lists
  BY <1>1, <1>4 DEF Lists
<1>6. TrueList(Listed(read))
  <2>1. ASSUME NEW m \in MessageIds
        PROVE  /\ Len(Listed(read)[m]) <= 1
               /\ \A i \in DOMAIN Listed(read)[m] : TrueEntry(m, Listed(read)[m][i])
    <3>1. CASE m \in read
      <4>1. Listed(read)[m] = <<entry(m)>>
        BY <1>2, <3>1
      <4> QED BY <1>3, <3>1, <4>1
    <3>2. CASE m \notin read
      <4>1. Listed(read)[m] = <<>>
        BY <1>2, <3>2
      <4> QED BY <4>1
    <3> QED BY <3>1, <3>2
  <2> QED BY <2>1 DEF TrueList
<1> QED BY <1>2, <1>3, <1>5, <1>6

\* The list of a message that is there once, and each entry replaced.
LEMMA OneEntry ==
    ASSUME NEW S, NEW q \in Seq(S), q # <<>>, Len(q) <= 1
    PROVE  /\ Len(q) = 1 /\ DOMAIN q = {1}
           /\ \A x : [i \in DOMAIN q |-> x] = <<x>>
<1>1. Len(q) \in Nat \ {0}
  BY EmptySeq, Zenon
<1>2. Len(q) = 1
  <2> DEFINE n == Len(q)
  <2>1. n \in Nat \ {0} /\ n <= 1
    BY <1>1
  <2> HIDE DEF n
  <2>2. n = 1
    BY <2>1
  <2> QED BY <2>2 DEF n
<1>3. DOMAIN q = 1..Len(q)
  OBVIOUS
<1>4. DOMAIN q = {1}
  BY <1>2, <1>3
<1>5. ASSUME NEW x PROVE [i \in {1} |-> x] = <<x>>
  OBVIOUS
<1> QED BY <1>2, <1>4, <1>5

\* A list that has a message once at most has it once when an event was merged.
LEMMA MergeEvent ==
    ASSUME screen \in Lists, NEW e \in Events, Len(screen[e.msg]) <= 1
    PROVE  /\ Merge(e.msg, Decode(e)) = [screen EXCEPT ![e.msg] = <<Decode(e)>>]
           /\ Merge(e.msg, Decode(e)) \in Lists
<1>1. e.msg \in MessageIds /\ screen[e.msg] \in Seq(Entries)
  BY DEF Events, Lists
<1>2. Decode(e) \in Entries /\ ~Decode(e).flag
  BY DEF Decode, Events, Entries
<1>3. Merge(e.msg, Decode(e)) = [screen EXCEPT ![e.msg] = <<Decode(e)>>]
  <2>1. CASE screen[e.msg] = <<>>
    BY <1>2, <2>1 DEF Merge
  <2>2. CASE screen[e.msg] # <<>>
    <3>1. [i \in DOMAIN screen[e.msg] |-> Decode(e)] = <<Decode(e)>>
      BY <1>1, <2>2, OneEntry
    <3> QED BY <1>2, <2>2, <3>1 DEF Merge
  <2> QED BY <2>1, <2>2
<1>4. [screen EXCEPT ![e.msg] = <<Decode(e)>>] \in Lists
  <2> HIDE DEF Entries
  <2>1. <<Decode(e)>> \in Seq(Entries)
    BY <1>2
  <2> QED BY <1>1, <2>1 DEF Lists
<1> QED BY <1>3, <1>4

\* A function on an initial segment of the numbers is a sequence.
LEMMA IsSeq ==
    ASSUME NEW S, NEW n \in Nat, NEW f \in [1..n -> S]
    PROVE  f \in Seq(S) /\ Len(f) = n
  BY SMT

Runs == [copy : Lists, late : BOOLEAN]

LEMMA AllLateRuns ==
    ASSUME NEW rs \in Seq(Runs)
    PROVE  /\ AllLate(rs) \in Seq(Runs) /\ Len(AllLate(rs)) = Len(rs)
           /\ \A i \in DOMAIN AllLate(rs) : AllLate(rs)[i].late
<1>1. \A i \in DOMAIN rs : rs[i] \in Runs
  BY ElementOfSeq
<1>2. \A r \in Runs : [r EXCEPT !.late = TRUE] \in Runs /\ [r EXCEPT !.late = TRUE].late
  BY DEF Runs
<1>3. /\ DOMAIN AllLate(rs) = DOMAIN rs
      /\ \A i \in DOMAIN rs : AllLate(rs)[i] = [rs[i] EXCEPT !.late = TRUE]
  BY DEF AllLate
<1>4. AllLate(rs) \in [1..Len(rs) -> Runs]
  BY <1>1, <1>2 DEF AllLate
<1>5. AllLate(rs) \in Seq(Runs) /\ Len(AllLate(rs)) = Len(rs)
  BY <1>4, IsSeq
<1>6. DOMAIN AllLate(rs) = 1..Len(rs)
  BY <1>4
<1>7. ASSUME NEW i \in DOMAIN AllLate(rs) PROVE AllLate(rs)[i].late
  <2>1. i \in DOMAIN rs /\ rs[i] \in Runs
    BY <1>1, <1>3
  <2> QED BY <1>2, <1>3, <2>1, Zenon
<1> QED BY <1>5, <1>7

\* Decryptions that end: those before became late, those behind move up.
LEMMA RunsWithout ==
    ASSUME NEW rs \in Seq(Runs), NEW k \in DOMAIN rs
    PROVE  LET left == AllLate(SubSeq(rs, 1, k - 1)) \o SubSeq(rs, k + 1, Len(rs))
           IN /\ left \in Seq(Runs) /\ Len(left) = Len(rs) - 1
              /\ \A i \in 1..(k - 1) : left[i].late
              /\ \A i \in k..(Len(rs) - 1) : left[i] = rs[i + 1]
<1> DEFINE before == SubSeq(rs, 1, k - 1)
           overtook == AllLate(before)
           behind == SubSeq(rs, k + 1, Len(rs))
           left == overtook \o behind
<1>1. Len(rs) \in Nat /\ k \in 1..Len(rs) /\ k \in Nat /\ 1 <= k /\ k <= Len(rs)
  OBVIOUS
<1>2. before \in Seq(Runs) /\ Len(before) = k - 1
  BY <1>1
<1>3. /\ behind \in Seq(Runs) /\ Len(behind) = Len(rs) - k
      /\ \A i \in 1..(Len(rs) - k) : behind[i] = rs[k + i]
  BY <1>1, SuffixProperties
<1> HIDE DEF before, behind
<1>4. /\ overtook \in Seq(Runs) /\ Len(overtook) = k - 1
      /\ \A i \in DOMAIN overtook : overtook[i].late
  BY <1>2, AllLateRuns
<1> HIDE DEF overtook
<1>5. /\ left \in Seq(Runs) /\ Len(left) = Len(overtook) + Len(behind)
      /\ \A i \in 1..(Len(overtook) + Len(behind)) :
           left[i] = IF i <= Len(overtook) THEN overtook[i] ELSE behind[i - Len(overtook)]
  BY <1>3, <1>4, ConcatProperties, Zenon
<1> HIDE DEF left
<1>6. Len(left) = Len(rs) - 1
  BY <1>1, <1>3, <1>4, <1>5
<1>7. ASSUME NEW i \in 1..(k - 1) PROVE left[i].late
  <2>0. i \in 1..(Len(overtook) + Len(behind)) /\ i <= Len(overtook)
    BY <1>1, <1>3, <1>4
  <2>1. left[i] = overtook[i]
    BY <1>5, <2>0
  <2>2. i \in DOMAIN overtook
    BY <1>1, <1>4
  <2> QED BY <1>4, <2>1, <2>2
<1>8. ASSUME NEW i \in k..(Len(rs) - 1) PROVE left[i] = rs[i + 1]
  <2>1. left[i] = behind[i - (k - 1)] /\ i - (k - 1) \in 1..(Len(rs) - k)
    <3>1. i \in 1..(Len(overtook) + Len(behind)) /\ ~(i <= Len(overtook))
      BY <1>1, <1>3, <1>4
    <3>2. i - Len(overtook) = i - (k - 1)
      BY <1>4
    <3>3. left[i] = behind[i - Len(overtook)]
      BY <1>5, <3>1
    <3>4. i - (k - 1) \in 1..(Len(rs) - k)
      BY <1>1
    <3> QED BY <3>2, <3>3, <3>4
  <2>2. k + (i - (k - 1)) = i + 1
    BY <1>1
  <2> QED BY <1>3, <2>1, <2>2
<1> QED BY <1>5, <1>6, <1>7, <1>8 DEF left, overtook, before, behind

RunsTypeOK ==
    /\ loading \in BOOLEAN /\ overtaken \in BOOLEAN /\ drawn \in Lists
    /\ Len(runs) <= MaxRuns /\ runs \in Seq(Runs)

LEMMA TypeOfRuns == ViewTypeOK => RunsTypeOK
  BY DEF ViewTypeOK, RunsTypeOK, Runs

\* Decrypt: the last run, or what is drawn at once, has the list.
LEMMA DecryptRuns ==
    ASSUME RunsTypeOK, Overtaking, NEW l \in Lists, Decrypt(l), loading' \in BOOLEAN
    PROVE  RunsTypeOK' /\ Overtaking' /\ RunsHave(l)'
<1>1. runs \in Seq(Runs) /\ Len(runs) \in Nat /\ Len(runs) <= MaxRuns /\ MaxRuns \in Nat
  BY ViewAssumption DEF RunsTypeOK
<1>2. CASE l = NoMessages
  <2>1. drawn' = l /\ runs' = AllLate(runs) /\ overtaken' = FALSE
    BY <1>2 DEF Decrypt
  <2>2. /\ runs' \in Seq(Runs) /\ Len(runs') = Len(runs)
        /\ \A i \in DOMAIN runs' : runs'[i].late
    BY <1>1, <2>1, AllLateRuns
  <2>3. runs' # <<>> => Len(runs') \in DOMAIN runs'
    BY <2>2, EmptySeq
  <2> QED BY <1>1, <2>1, <2>2, <2>3 DEF RunsTypeOK, Overtaking, RunsHave
<1>3. CASE l # NoMessages
  <2> DEFINE r == [copy |-> l, late |-> FALSE]
  <2>1. Len(runs) < MaxRuns /\ runs' = Append(runs, r) /\ UNCHANGED <<drawn, overtaken>>
    BY <1>3 DEF Decrypt
  <2>2. r \in Runs /\ ~r.late /\ r.copy = l
    BY DEF Runs
  <2> HIDE DEF r
  <2>3. /\ runs' \in Seq(Runs) /\ Len(runs') = Len(runs) + 1
        /\ runs'[Len(runs) + 1] = r /\ \A i \in 1..Len(runs) : runs'[i] = runs[i]
    BY <1>1, <2>1, <2>2, AppendProperties
  <2>4. DOMAIN runs' = 1..(Len(runs) + 1) /\ DOMAIN runs = 1..Len(runs)
    BY <1>1, <2>3
  <2>5. Overtaking'
    <3> SUFFICES ASSUME NEW i \in DOMAIN runs', NEW j \in DOMAIN runs', i < j, runs'[j].late
                 PROVE  runs'[i].late
      BY DEF Overtaking
    <3>1. j # Len(runs) + 1
      BY <2>2, <2>3
    <3>2. i \in DOMAIN runs /\ j \in DOMAIN runs
      BY <1>1, <2>4, <3>1
    <3> QED BY <2>3, <2>4, <3>2 DEF Overtaking
  <2>6. RunsHave(l)'
    BY <1>1, <2>2, <2>3, <2>4 DEF RunsHave
  <2>7. RunsTypeOK'
    BY <1>1, <2>1, <2>3 DEF RunsTypeOK
  <2> QED BY <2>5, <2>6, <2>7
<1> QED BY <1>2, <1>3

\* setMessages: a list that is shown is decrypted.
LEMMA SetMessagesRuns ==
    ASSUME RunsTypeOK, RunsInv, NEW l \in Lists, SetMessages(l), UNCHANGED fetch
    PROVE  RunsTypeOK' /\ RunsInv'
<1>1. CASE loading
  BY <1>1 DEF SetMessages, RunsTypeOK, RunsInv, Overtaking
<1>2. CASE ~loading
  <2>1. Decrypt(l) /\ loading' = FALSE /\ screen' = l
    BY <1>2 DEF SetMessages
  <2>2. RunsTypeOK' /\ Overtaking' /\ RunsHave(l)'
    BY <2>1, DecryptRuns DEF RunsInv
  <2> QED BY <2>1, <2>2 DEF RunsInv, RunsHave
<1> QED BY <1>1, <1>2

\* setLoading(false): a list that was not shown is decrypted.
LEMMA StopLoadingRuns ==
    ASSUME RunsTypeOK, RunsInv, screen \in Lists, StopLoading(screen), UNCHANGED screen
    PROVE  RunsTypeOK' /\ RunsInv'
<1>1. loading' = FALSE
  BY DEF StopLoading
<1>2. CASE loading
  <2>1. RunsTypeOK' /\ Overtaking' /\ \A l \in Lists : l = screen => RunsHave(l)'
    <3>1. Decrypt(screen)
      BY <1>2 DEF StopLoading
    <3> QED BY <1>1, <3>1, DecryptRuns DEF RunsInv
  <2> QED BY <1>1, <2>1 DEF RunsInv, RunsHave
<1>3. CASE ~loading
  BY <1>1, <1>3 DEF StopLoading, RunsTypeOK, RunsInv, Overtaking, RunsHave
<1> QED BY <1>2, <1>3

\* Another chat: MessageList begins anew.
LEMMA RemountRuns ==
    ASSUME RunsTypeOK, RunsInv, Remount, screen' = NoMessages, fetch' # None
    PROVE  RunsTypeOK' /\ RunsInv'
<1>1. drawn' = NoMessages /\ overtaken' = FALSE /\ drawn' \in Lists
  BY NoMessagesList DEF Remount
<1>2. CASE runs' = <<>> /\ loading' = (fetch = None)
  <2>1. loading' \in BOOLEAN
    BY <1>2
  <2>2. runs' \in Seq(Runs) /\ Len(runs') = 0 /\ 0 <= MaxRuns /\ DOMAIN runs' = {}
    BY <1>2, ViewAssumption
  <2>3. RunsTypeOK'
    BY <1>1, <2>1, <2>2 DEF RunsTypeOK
  <2>4. Overtaking'
    BY <2>2 DEF Overtaking
  <2>5. RunsHave(screen)'
    BY <1>1, <1>2 DEF RunsHave
  <2> QED BY <1>2, <2>3, <2>4, <2>5 DEF RunsInv
<1>3. CASE runs' = AllLate(runs) /\ loading' = FALSE
  <2>1. /\ runs' \in Seq(Runs) /\ Len(runs') = Len(runs)
        /\ \A i \in DOMAIN runs' : runs'[i].late
    BY <1>3, AllLateRuns DEF RunsTypeOK
  <2>2. runs' # <<>> => Len(runs') \in DOMAIN runs'
    BY <2>1, EmptySeq
  <2> QED BY <1>1, <1>3, <2>1, <2>2 DEF RunsTypeOK, RunsInv, Overtaking, RunsHave
<1> QED BY <1>2, <1>3 DEF Remount

\* The end of a run: unless it was the last, the last one stays the last.
LEMMA FinishRuns ==
    ASSUME RunsTypeOK, RunsInv, NEW k, FinishDecryption(k)
    PROVE  RunsTypeOK' /\ RunsInv'
<1>1. /\ k \in DOMAIN runs /\ drawn' = runs[k].copy /\ overtaken' = runs[k].late
      /\ UNCHANGED <<screen, fetch, loading>>
      /\ runs' = AllLate(SubSeq(runs, 1, k - 1)) \o SubSeq(runs, k + 1, Len(runs))
  BY DEF FinishDecryption
<1>2. runs \in Seq(Runs) /\ Len(runs) \in Nat /\ DOMAIN runs = 1..Len(runs)
  BY DEF RunsTypeOK
<1>3. /\ runs' \in Seq(Runs) /\ Len(runs') = Len(runs) - 1
      /\ \A i \in 1..(k - 1) : runs'[i].late
      /\ \A i \in k..(Len(runs) - 1) : runs'[i] = runs[i + 1]
  BY <1>1, <1>2, RunsWithout
<1>4. DOMAIN runs' = 1..(Len(runs) - 1) /\ k \in 1..Len(runs)
  <2>1. DOMAIN runs' = 1..Len(runs')
    BY <1>3
  <2> QED BY <1>1, <1>2, <1>3, <2>1
<1>5. RunsTypeOK'
  <2>1. runs[k] \in Runs
    BY <1>1, <1>2
  <2>2. drawn' \in Lists /\ overtaken' \in BOOLEAN
    BY <1>1, <2>1 DEF Runs
  <2>3. Len(runs') <= MaxRuns
    BY <1>2, <1>3, ViewAssumption DEF RunsTypeOK
  <2> QED BY <1>1, <1>3, <2>2, <2>3 DEF RunsTypeOK
<1>6. ~loading
  BY <1>1 DEF RunsInv
<1>7. Overtaking'
  <2> SUFFICES ASSUME NEW i \in DOMAIN runs', NEW j \in DOMAIN runs', i < j, runs'[j].late
               PROVE  runs'[i].late
    BY DEF Overtaking
  <2>1. CASE i < k
    BY <1>3, <1>4, <2>1
  <2>2. CASE ~(i < k)
    <3>1. i \in k..(Len(runs) - 1) /\ j \in k..(Len(runs) - 1)
      BY <1>2, <1>4, <2>2
    <3>2. i + 1 \in DOMAIN runs /\ j + 1 \in DOMAIN runs /\ i + 1 < j + 1
      BY <1>2, <1>4, <3>1
    <3>3. runs[j + 1].late => runs[i + 1].late
      BY <3>2 DEF RunsInv, Overtaking
    <3> QED BY <1>3, <3>1, <3>3
  <2> QED BY <2>1, <2>2
<1>8. RunsHave(screen)'
  <2> DEFINE n == Len(runs)
  <2>1. RunsHave(screen)
    BY <1>6 DEF RunsInv
  <2>2. n \in DOMAIN runs
    BY <1>2, <1>4
  <2>3. CASE runs[n].late
    <3>1. \A i \in DOMAIN runs : runs[i].late
      BY <1>2, <2>2, <2>3 DEF RunsInv, Overtaking
    <3>2. \A i \in DOMAIN runs' : runs'[i].late
      <4>1. ASSUME NEW i \in DOMAIN runs' PROVE runs'[i].late
        <5>1. CASE i < k
          BY <1>3, <1>4, <5>1
        <5>2. CASE ~(i < k)
          <6>1. i \in k..(Len(runs) - 1) /\ i + 1 \in DOMAIN runs
            BY <1>2, <1>4, <5>2
          <6> QED BY <1>3, <3>1, <6>1
        <5> QED BY <5>1, <5>2
      <4> QED BY <4>1
    <3>3. runs' # <<>> => Len(runs') \in DOMAIN runs'
      BY <1>3, EmptySeq
    <3> QED BY <1>1, <3>1, <3>2, <3>3 DEF RunsHave
  <2>4. CASE ~runs[n].late /\ k = n
    <3>1. drawn' = screen
      BY <1>1, <2>1, <2>2, <2>4 DEF RunsHave
    <3>2. \A i \in DOMAIN runs' : runs'[i].late
      BY <1>2, <1>3, <1>4, <2>4
    <3>3. runs' # <<>> => Len(runs') \in DOMAIN runs'
      BY <1>3, EmptySeq
    <3> QED BY <1>1, <3>1, <3>2, <3>3 DEF RunsHave
  <2>5. CASE ~runs[n].late /\ k # n
    <3>1. n - 1 \in k..(Len(runs) - 1) /\ n - 1 \in DOMAIN runs' /\ (n - 1) + 1 = n
      <4>1. n \in Nat /\ k \in 1..n /\ DOMAIN runs' = 1..(n - 1)
        BY <1>2, <1>4
      <4> HIDE DEF n
      <4>2. n - 1 \in k..(n - 1) /\ n - 1 \in 1..(n - 1) /\ (n - 1) + 1 = n
        BY <2>5, <4>1
      <4> QED BY <4>1, <4>2 DEF n
    <3>2. runs'[n - 1] = runs[n] /\ Len(runs') = n - 1
      BY <1>3, <3>1
    <3>3. runs[n].copy = screen
      BY <2>1, <2>2, <2>5 DEF RunsHave
    <3> QED BY <1>1, <2>5, <3>1, <3>2, <3>3 DEF RunsHave
  <2> QED BY <2>3, <2>4, <2>5
<1> QED BY <1>1, <1>5, <1>6, <1>7, <1>8 DEF RunsInv

-----------------------------------------------------------------------------
(* Types                                                                   *)

\* What ViewTypeOK says besides RunsTypeOK.
ServerTypeOK ==
    /\ row \in [MessageIds -> [version : Nat, deleted : BOOLEAN]]
    /\ due \subseteq Events
    /\ channel \in Seq(Events)
    /\ posts \in [MessageIds -> Calls \cup {None}]
    /\ heard \in [MessageIds -> Nat]
    /\ \A m \in MessageIds : heard[m] <= row[m].version /\ row[m].version <= MaxVersion[m]

HookTypeOK ==
    /\ open \in Chats
    /\ screen \in Lists
    /\ fetch \in Fetches \cup {None}
    /\ switches \in 0..MaxSwitches /\ lost \in 0..MaxLost /\ failed \in 0..MaxFailed
    /\ excused \subseteq MessageIds
    /\ crossed \in BOOLEAN

LEMMA TypeParts == ViewTypeOK <=> ServerTypeOK /\ HookTypeOK /\ RunsTypeOK
  BY DEF ViewTypeOK, ServerTypeOK, HookTypeOK, RunsTypeOK, Runs

LEMMA NextRow ==
    ASSUME ServerTypeOK, NEW m \in MessageIds, NEW deletes \in BOOLEAN
    PROVE  /\ NextVersion(m, deletes) \in [version : Nat, deleted : BOOLEAN]
           /\ NextVersion(m, deletes).version = row[m].version + 1
           /\ NextVersion(m, deletes).deleted = deletes
           /\ row[m].version \in Nat /\ row[m].deleted \in BOOLEAN /\ heard[m] \in Nat
  BY DEF NextVersion, ServerTypeOK

\* The first event of the channel is what is lost or received.
LEMMA FirstEvent ==
    ASSUME ServerTypeOK, channel # <<>>
    PROVE  /\ Head(channel) \in Events /\ Head(channel) = channel[1]
           /\ Head(channel).msg \in MessageIds /\ Head(channel).version \in Nat
           /\ 1 \in DOMAIN channel
           /\ Tail(channel) \in Seq(Events)
           /\ \A i \in DOMAIN Tail(channel) :
                i + 1 \in DOMAIN channel /\ Tail(channel)[i] = channel[i + 1]
           /\ \A i \in DOMAIN channel :
                i # 1 => i - 1 \in DOMAIN Tail(channel) /\ channel[i] = Tail(channel)[i - 1]
<1>1. channel \in Seq(Events) /\ Len(channel) \in Nat \ {0}
  BY EmptySeq DEF ServerTypeOK
<1>2. Head(channel) = channel[1] /\ 1 \in DOMAIN channel /\ channel[1] \in Events
  BY <1>1
<1>3. /\ Tail(channel) \in Seq(Events) /\ Len(Tail(channel)) = Len(channel) - 1
      /\ \A i \in 1..(Len(channel) - 1) : Tail(channel)[i] = channel[i + 1]
  BY <1>1, HeadTailProperties
<1>4. DOMAIN Tail(channel) = 1..(Len(channel) - 1) /\ DOMAIN channel = 1..Len(channel)
  BY <1>1, <1>3
<1>5. Head(channel).msg \in MessageIds /\ Head(channel).version \in Nat
  BY <1>2 DEF Events
<1>6. ASSUME NEW i \in DOMAIN Tail(channel)
      PROVE  i + 1 \in DOMAIN channel /\ Tail(channel)[i] = channel[i + 1]
  BY <1>1, <1>3, <1>4
<1>7. ASSUME NEW i \in DOMAIN channel, i # 1
      PROVE  i - 1 \in DOMAIN Tail(channel) /\ channel[i] = Tail(channel)[i - 1]
  <2>1. i - 1 \in 1..(Len(channel) - 1) /\ (i - 1) + 1 = i
    BY <1>1, <1>4, <1>7
  <2> QED BY <1>3, <1>4, <2>1
<1> QED BY <1>2, <1>3, <1>5, <1>6, <1>7

\* Being told of an event: heard moves to its version unless it is ahead.
HeardOf(e) == [heard EXCEPT ![e.msg] = IF e.version > @ THEN e.version ELSE @]

LEMMA HeardEvent ==
    ASSUME ServerTypeOK, NEW e \in Events, TrueEvent(e)
    PROVE  /\ HeardOf(e) \in [MessageIds -> Nat]
           /\ HeardOf(e)[e.msg] >= e.version /\ HeardOf(e)[e.msg] >= heard[e.msg]
           /\ HeardOf(e)[e.msg] = e.version \/ HeardOf(e)[e.msg] = heard[e.msg]
           /\ \A m \in MessageIds : m # e.msg => HeardOf(e)[m] = heard[m]
           /\ \A m \in MessageIds : HeardOf(e)[m] <= row[m].version
<1>1. e.msg \in MessageIds /\ e.version \in Nat /\ e.version <= row[e.msg].version
  BY DEF Events, TrueEvent
<1>2. heard[e.msg] \in Nat
  BY <1>1 DEF ServerTypeOK
<1> QED BY <1>1, <1>2 DEF HeardOf, ServerTypeOK

\* The answer of a fetch is put into it.
LEMMA Answered ==
    ASSUME ServerTypeOK, HookTypeOK, AnswerFetch
    PROVE  /\ fetch' \in Fetches /\ fetch' # None /\ fetch # None
           /\ fetch'.chat = fetch.chat
           /\ TrueList(fetch'.list)
           /\ \A m \in MessageIds : fetch'.list[m] # <<>> => ChatOf[m] = fetch.chat
<1>1. fetch \in Fetches /\ fetch # None
  BY DEF AnswerFetch, HookTypeOK
<1>2. PICK read \in SUBSET Rows(fetch.chat) :
        fetch' = [fetch EXCEPT !.answered = TRUE, !.list = Listed(read)]
  BY DEF AnswerFetch
<1>3. /\ Listed(read) \in Lists /\ TrueList(Listed(read))
      /\ \A m \in MessageIds : Listed(read)[m] # <<>> => ChatOf[m] = fetch.chat
  BY <1>1, ListedRows DEF Fetches, ServerTypeOK
<1>4. fetch' \in Fetches /\ fetch'.chat = fetch.chat /\ fetch'.list = Listed(read)
  BY <1>1, <1>2, <1>3 DEF Fetches
<1> QED BY <1>1, <1>3, <1>4, ViewAssumption

\* The first event of the channel takes the place of its message on the list.
LEMMA Merged ==
    ASSUME ServerTypeOK, HookTypeOK, ListsInv, channel # <<>>,
           NEW e, e = Head(channel)
    PROVE  /\ Merge(e.msg, Decode(e)) = [screen EXCEPT ![e.msg] = <<Decode(e)>>]
           /\ Merge(e.msg, Decode(e)) \in Lists
           /\ Merge(e.msg, Decode(e))[e.msg] = <<Decode(e)>>
           /\ \A m \in MessageIds : m # e.msg => Merge(e.msg, Decode(e))[m] = screen[m]
<1>1. e \in Events /\ e.msg \in MessageIds /\ screen \in Lists
  BY FirstEvent DEF HookTypeOK
<1>2. Len(screen[e.msg]) <= 1
  BY <1>1 DEF ListsInv, TrueList
<1>3. /\ Merge(e.msg, Decode(e)) = [screen EXCEPT ![e.msg] = <<Decode(e)>>]
      /\ Merge(e.msg, Decode(e)) \in Lists
  BY <1>1, <1>2, MergeEvent
<1> QED BY <1>1, <1>3 DEF Lists

\* An answer that is lost: the call ends in an error, and its message counts as
\* told and is excused.
LEMMA LostAnswer ==
    ASSUME ServerTypeOK, HookTypeOK, NEW m \in MessageIds, LoseAnswer(m)
    PROVE  /\ posts' \in [MessageIds -> Calls \cup {None}]
           /\ posts'[m] \in Calls /\ posts'[m].phase = "error" /\ posts'[m] # None
           /\ \A n \in MessageIds : n # m => posts'[n] = posts[n]
           /\ heard' \in [MessageIds -> Nat] /\ heard'[m] = row[m].version
           /\ \A n \in MessageIds : n # m => heard'[n] = heard[n]
           /\ posts[m] \in Calls /\ posts[m] # None
           /\ m \in excused' /\ excused \subseteq excused' /\ excused' \subseteq MessageIds
           /\ lost' \in 0..MaxLost
           /\ UNCHANGED <<row, due, channel, open, screen, fetch, list, switches, failed, crossed>>
<1>1. posts[m] \in Calls /\ row[m].version \in Nat
  BY DEF LoseAnswer, ServerTypeOK
<1>2. [posts[m] EXCEPT !.phase = "error"] \in Calls
  BY <1>1 DEF Calls
<1>3. [posts[m] EXCEPT !.phase = "error"].phase = "error"
  BY <1>1 DEF Calls
<1>4. lost' \in 0..MaxLost
  BY ViewAssumption DEF LoseAnswer, HookTypeOK
<1>5. /\ posts' = [posts EXCEPT ![m] = [posts[m] EXCEPT !.phase = "error"]]
      /\ heard' = [heard EXCEPT ![m] = row[m].version]
      /\ excused' = excused \cup {m}
      /\ UNCHANGED <<row, due, channel, open, screen, fetch, list, switches, failed, crossed>>
  BY DEF LoseAnswer, server
<1>6. /\ posts' \in [MessageIds -> Calls \cup {None}]
      /\ posts'[m] \in Calls /\ posts'[m].phase = "error"
      /\ \A n \in MessageIds : n # m => posts'[n] = posts[n]
  BY <1>2, <1>3, <1>5 DEF ServerTypeOK
<1>7. /\ heard' \in [MessageIds -> Nat] /\ heard'[m] = row[m].version
      /\ \A n \in MessageIds : n # m => heard'[n] = heard[n]
  BY <1>1, <1>5 DEF ServerTypeOK
<1>8. m \in excused' /\ excused \subseteq excused' /\ excused' \subseteq MessageIds
  BY <1>5 DEF HookTypeOK
<1>9. posts'[m] # None /\ posts[m] # None
  BY <1>1, <1>6, ViewAssumption
<1> QED BY <1>1, <1>4, <1>5, <1>6, <1>7, <1>8, <1>9

LEMMA ServerTypes == ViewInv /\ [ViewNext]_viewVars => ServerTypeOK'
<1> SUFFICES ASSUME ViewInv, [ViewNext]_viewVars PROVE ServerTypeOK'
  OBVIOUS
<1>0. ServerTypeOK
  BY TypeParts DEF ViewInv
<1>1. ASSUME NEW m \in MessageIds, PeerCommits(m) PROVE ServerTypeOK'
  <2>1. PICK deletes \in BOOLEAN :
          /\ row' = [row EXCEPT ![m] = NextVersion(m, deletes)]
          /\ due' = due \cup
               {[msg |-> m, version |-> row'[m].version, blank |-> deletes, copy |-> k] :
                  k \in IF row[m].version = 0 THEN {"first", "second"} ELSE {"first"}}
    BY <1>1 DEF PeerCommits
  <2>2. /\ row' \in [MessageIds -> [version : Nat, deleted : BOOLEAN]]
        /\ row'[m].version = row[m].version + 1
        /\ \A n \in MessageIds : n # m => row'[n] = row[n]
    BY <1>0, <2>1, NextRow DEF ServerTypeOK
  <2>3. due' \subseteq Events
    BY <1>0, <2>1, <2>2 DEF ServerTypeOK, Events
  <2>4. row[m].version < MaxVersion[m] /\ UNCHANGED <<channel, posts, heard>>
    BY <1>1 DEF PeerCommits, history
  <2>5. ASSUME NEW n \in MessageIds
        PROVE  heard'[n] <= row'[n].version /\ row'[n].version <= MaxVersion[n]
    <3>1. /\ heard[n] \in Nat /\ row[n].version \in Nat /\ MaxVersion[n] \in Nat
          /\ heard[n] <= row[n].version /\ row[n].version <= MaxVersion[n]
      BY <1>0, ViewAssumption DEF ServerTypeOK
    <3> QED BY <2>2, <2>4, <3>1
  <2> QED BY <1>0, <2>2, <2>3, <2>4, <2>5 DEF ServerTypeOK
<1>2. ASSUME NEW m \in MessageIds, ServePost(m) PROVE ServerTypeOK'
  <2>1. /\ posts[m] # None /\ posts[m].phase = "sent" /\ row[m].version < MaxVersion[m]
        /\ posts[m] \in Calls
    BY <1>0, <1>2 DEF ServePost, ViewInv, PostsInv, ServerTypeOK
  <2>2. UNCHANGED <<due, channel, heard>>
    BY <1>2 DEF ServePost, history
  <2>3. posts' \in [MessageIds -> Calls \cup {None}]
    <3>1. /\ [posts[m] EXCEPT !.phase = "ok"] \in Calls
          /\ [posts[m] EXCEPT !.phase = "error"] \in Calls
      BY <2>1 DEF Calls
    <3> QED BY <1>0, <1>2, <3>1 DEF ServePost, ServerTypeOK
  <2>4. CASE row' = [row EXCEPT ![m] = NextVersion(m, posts[m].kind = "delete")]
    <3>1. /\ row' \in [MessageIds -> [version : Nat, deleted : BOOLEAN]]
          /\ row'[m].version = row[m].version + 1
          /\ \A n \in MessageIds : n # m => row'[n] = row[n]
      BY <1>0, <2>4, NextRow DEF ServerTypeOK
    <3>2. ASSUME NEW n \in MessageIds
          PROVE  heard'[n] <= row'[n].version /\ row'[n].version <= MaxVersion[n]
      <4>1. /\ heard[n] \in Nat /\ row[n].version \in Nat /\ MaxVersion[n] \in Nat
            /\ heard[n] <= row[n].version /\ row[n].version <= MaxVersion[n]
        BY <1>0, ViewAssumption DEF ServerTypeOK
      <4> QED BY <2>1, <2>2, <3>1, <4>1
    <3> QED BY <1>0, <2>2, <2>3, <3>1, <3>2 DEF ServerTypeOK
  <2>5. CASE UNCHANGED row
    BY <1>0, <2>2, <2>3, <2>5 DEF ServerTypeOK
  <2> QED BY <1>2, <2>4, <2>5 DEF ServePost
<1>3. ASSUME NEW m \in MessageIds, SettlePost(m) PROVE ServerTypeOK'
  <2>1. posts' = [posts EXCEPT ![m] = None] /\ UNCHANGED <<row, due, channel>>
    BY <1>3 DEF SettlePost, server
  <2>2. UNCHANGED heard \/ heard' = [heard EXCEPT ![m] = row[m].version]
    BY <1>3 DEF SettlePost
  <2>3. row[m].version \in Nat
    BY <1>0 DEF ServerTypeOK
  <2>4. /\ heard' \in [MessageIds -> Nat]
        /\ \A n \in MessageIds : heard'[n] <= row[n].version
    <3>1. CASE UNCHANGED heard
      BY <1>0, <3>1 DEF ServerTypeOK
    <3>2. CASE heard' = [heard EXCEPT ![m] = row[m].version]
      <4>1. heard' \in [MessageIds -> Nat] /\ heard'[m] = row[m].version
        BY <1>0, <2>3, <3>2 DEF ServerTypeOK
      <4>2. \A n \in MessageIds : n # m => heard'[n] = heard[n]
        BY <1>0, <3>2 DEF ServerTypeOK
      <4>3. ASSUME NEW n \in MessageIds PROVE heard'[n] <= row[n].version
        <5>1. CASE n = m
          BY <2>3, <4>1, <5>1
        <5>2. CASE n # m
          BY <1>0, <4>2, <5>2 DEF ServerTypeOK
        <5> QED BY <5>1, <5>2
      <4> QED BY <4>1, <4>3
    <3> QED BY <2>2, <3>1, <3>2
  <2>5. posts' \in [MessageIds -> Calls \cup {None}]
    BY <1>0, <2>1 DEF ServerTypeOK
  <2> QED BY <1>0, <2>1, <2>4, <2>5 DEF ServerTypeOK
<1>4. ASSUME NEW m \in MessageIds, NEW kind \in {"send", "edit", "delete"}, Post(m, kind)
      PROVE  ServerTypeOK'
  <2>1. /\ posts' = [posts EXCEPT ![m] = [kind |-> kind, chat |-> open, phase |-> "sent"]]
        /\ UNCHANGED <<row, due, channel, heard>>
    BY <1>4 DEF Post, server, history
  <2>2. [kind |-> kind, chat |-> open, phase |-> "sent"] \in Calls
    BY DEF Calls, ViewInv, ViewTypeOK
  <2> QED BY <1>0, <2>1, <2>2 DEF ServerTypeOK
<1>5. ASSUME NEW e \in due, Publish(e) PROVE ServerTypeOK'
  <2>1. e \in Events
    BY <1>0 DEF ServerTypeOK
  <2> QED BY <1>0, <1>5, <2>1 DEF Publish, ServerTypeOK, history
<1>6. CASE LoseEvent \/ ReceiveEvent
  <2>1. /\ channel # <<>> /\ channel' = Tail(channel) /\ heard' = HeardOf(Head(channel))
        /\ UNCHANGED <<row, due, posts>>
    BY <1>6 DEF LoseEvent, ReceiveEvent, HeardOf, server
  <2>2. TrueEvent(Head(channel))
    BY <1>0, <2>1, FirstEvent DEF ViewInv, EventsInv
  <2> QED BY <1>0, <2>1, <2>2, FirstEvent, HeardEvent DEF ServerTypeOK
<1>7. CASE \/ \E chat \in Chats : SwitchChat(chat)
           \/ \E i \in 1..MaxRuns : FinishDecryption(i)
           \/ Redraw \/ AnswerFetch \/ DeliverFetch \/ FailFetch \/ Idle \/ UNCHANGED viewVars
  <2>1. UNCHANGED <<row, due, channel, posts, heard>>
    BY <1>7 DEF SwitchChat, FinishDecryption, Redraw, AnswerFetch, DeliverFetch, FailFetch, Idle,
       viewVars, server, history
  <2> QED BY <1>0, <2>1 DEF ServerTypeOK
<1>8. ASSUME NEW m \in MessageIds, LoseAnswer(m) PROVE ServerTypeOK'
  <2>1. /\ posts' \in [MessageIds -> Calls \cup {None}]
        /\ heard' \in [MessageIds -> Nat] /\ heard'[m] = row[m].version
        /\ \A n \in MessageIds : n # m => heard'[n] = heard[n]
        /\ UNCHANGED <<row, due, channel>>
    <3>1. HookTypeOK
      BY TypeParts DEF ViewInv
    <3> QED BY <1>0, <1>8, <3>1, LostAnswer
  <2>2. /\ row \in [MessageIds -> [version : Nat, deleted : BOOLEAN]]
        /\ due \subseteq Events /\ channel \in Seq(Events)
        /\ \A n \in MessageIds : heard[n] <= row[n].version /\ row[n].version <= MaxVersion[n]
    BY <1>0 DEF ServerTypeOK
  <2>3. ASSUME NEW n \in MessageIds
        PROVE  heard'[n] <= row[n].version /\ row[n].version <= MaxVersion[n]
    <3>1. CASE n = m
      <4>1. row[m].version \in Nat
        BY <2>2
      <4> QED BY <2>1, <2>2, <3>1, <4>1
    <3>2. CASE n # m
      BY <2>1, <2>2, <3>2
    <3> QED BY <3>1, <3>2
  <2> QED BY <2>1, <2>2, <2>3 DEF ServerTypeOK
<1> QED BY <1>1, <1>2, <1>3, <1>4, <1>5, <1>6, <1>7, <1>8 DEF ViewNext

LEMMA RunsNext == ViewInv /\ [ViewNext]_viewVars => RunsTypeOK' /\ RunsInv'
<1> SUFFICES ASSUME ViewInv, [ViewNext]_viewVars PROVE RunsTypeOK' /\ RunsInv'
  OBVIOUS
<1>0. RunsTypeOK /\ HookTypeOK /\ ServerTypeOK /\ RunsInv /\ ListsInv
  BY TypeParts DEF ViewInv
<1>1. CASE UNCHANGED <<list, screen, fetch>>
  BY <1>0, <1>1 DEF RunsTypeOK, RunsInv, Overtaking, RunsHave, list
<1>2. ASSUME NEW m \in MessageIds, SettlePost(m) PROVE RunsTypeOK' /\ RunsInv'
  <2>1. posts[m] \in Calls
    BY <1>0, <1>2 DEF ServerTypeOK, SettlePost
  <2>2. CASE posts[m].phase = "error"
    BY <1>1, <1>2, <2>2 DEF SettlePost
  <2>3. CASE posts[m].phase # "error" /\ posts[m].kind = "delete"
    <3>1. SetMessages(Without(m)) /\ UNCHANGED fetch
      BY <1>2, <2>3 DEF SettlePost
    <3>2. Without(m) \in Lists
      BY <1>0 DEF HookTypeOK, Without, Lists
    <3> QED BY <1>0, <3>1, <3>2, SetMessagesRuns
  <2>4. CASE posts[m].phase # "error" /\ posts[m].kind # "delete"
    <3>1. /\ fetch' = Asked(posts[m].chat) /\ UNCHANGED screen
          /\ IF fetch = None THEN UNCHANGED list ELSE StopLoading(screen)
      BY <1>2, <2>4 DEF SettlePost
    <3>2. fetch' # None
      BY <2>1, <3>1, AskedFetch DEF Calls
    <3>3. CASE fetch = None
      BY <1>0, <3>1, <3>2, <3>3 DEF RunsTypeOK, RunsInv, Overtaking, RunsHave, list
    <3>4. CASE fetch # None
      BY <1>0, <3>1, <3>4, StopLoadingRuns DEF HookTypeOK
    <3> QED BY <3>3, <3>4
  <2> QED BY <2>2, <2>3, <2>4
<1>3. ASSUME NEW chat \in Chats, SwitchChat(chat) PROVE RunsTypeOK' /\ RunsInv'
  <2>1. Remount /\ screen' = NoMessages /\ fetch' # None
    BY <1>3, AskedFetch DEF SwitchChat
  <2> QED BY <1>0, <2>1, RemountRuns
<1>4. ASSUME NEW i, FinishDecryption(i) PROVE RunsTypeOK' /\ RunsInv'
  BY <1>0, <1>4, FinishRuns
<1>5. CASE Redraw
  <2>1. Decrypt(screen) /\ ~loading /\ UNCHANGED <<screen, fetch, loading>>
    BY <1>5 DEF Redraw
  <2>2. RunsTypeOK' /\ Overtaking' /\ \A l \in Lists : l = screen => RunsHave(l)'
    <3>1. loading' \in BOOLEAN /\ screen \in Lists
      BY <1>0, <2>1 DEF RunsTypeOK, HookTypeOK
    <3> QED BY <1>0, <2>1, <3>1, DecryptRuns DEF RunsInv
  <2>3. RunsHave(screen)'
    BY <1>0, <2>1, <2>2 DEF HookTypeOK, RunsHave
  <2> QED BY <2>1, <2>2, <2>3 DEF RunsInv
<1>6. CASE ReceiveEvent
  <2> DEFINE e == Head(channel)
  <2>2. CASE ChatOf[e.msg] = open
    <3>1. SetMessages(Merge(e.msg, Decode(e))) /\ UNCHANGED fetch
      BY <1>6, <2>2 DEF ReceiveEvent
    <3>3. Merge(e.msg, Decode(e)) \in Lists
      BY <1>0, <1>6, Merged DEF ReceiveEvent
    <3> QED BY <1>0, <3>1, <3>3, SetMessagesRuns
  <2>3. CASE ChatOf[e.msg] # open
    BY <1>1, <1>6, <2>3 DEF ReceiveEvent
  <2> QED BY <2>2, <2>3
<1>7. CASE DeliverFetch
  <2>1. /\ Decrypt(fetch.list) /\ loading' = FALSE /\ screen' = fetch.list
        /\ fetch.list \in Lists
    BY <1>0, <1>7 DEF DeliverFetch, HookTypeOK, Fetches
  <2>2. RunsTypeOK' /\ Overtaking' /\ \A l \in Lists : l = fetch.list => RunsHave(l)'
    BY <1>0, <2>1, DecryptRuns DEF RunsInv
  <2>3. RunsHave(screen)'
    BY <2>1, <2>2 DEF RunsHave
  <2> QED BY <2>1, <2>2, <2>3 DEF RunsInv
<1>8. CASE FailFetch
  BY <1>0, <1>8, StopLoadingRuns DEF FailFetch, HookTypeOK
<1>9. CASE AnswerFetch
  <2>1. fetch' # None
    BY <1>0, <1>9, Answered
  <2> QED BY <1>0, <1>9, <2>1 DEF AnswerFetch, RunsTypeOK, RunsInv, Overtaking, RunsHave, list
<1>10. CASE \/ \E m \in MessageIds : PeerCommits(m) \/ ServePost(m) \/ LoseAnswer(m)
            \/ \E m \in MessageIds, kind \in {"send", "edit", "delete"} : Post(m, kind)
            \/ \E e \in due : Publish(e)
            \/ LoseEvent \/ Idle \/ UNCHANGED viewVars
  <2>1. UNCHANGED <<list, screen, fetch>>
    BY <1>10 DEF PeerCommits, ServePost, LoseAnswer, Post, Publish, LoseEvent, Idle, viewVars
  <2> QED BY <1>1, <2>1
<1> QED BY <1>2, <1>3, <1>4, <1>5, <1>6, <1>7, <1>8, <1>9, <1>10 DEF ViewNext

LEMMA HookTypes == ViewInv /\ [ViewNext]_viewVars => HookTypeOK'
<1> SUFFICES ASSUME ViewInv, [ViewNext]_viewVars PROVE HookTypeOK'
  OBVIOUS
<1>0. HookTypeOK /\ ServerTypeOK /\ ListsInv
  BY TypeParts DEF ViewInv
<1>1. ASSUME NEW m \in MessageIds, SettlePost(m) PROVE HookTypeOK'
  <2>1. posts[m] \in Calls /\ UNCHANGED <<open, switches, lost, failed>>
    BY <1>0, <1>1 DEF ServerTypeOK, SettlePost
  <2>2. Without(m) \in Lists
    BY <1>0 DEF HookTypeOK, Without, Lists
  <2>3. Asked(posts[m].chat) \in Fetches
    BY <2>1, AskedFetch DEF Calls
  <2>4. screen' \in Lists
    BY <1>0, <1>1, <2>2 DEF SettlePost, SetMessages, HookTypeOK
  <2>5. fetch' \in Fetches \cup {None}
    BY <1>0, <1>1, <2>3 DEF SettlePost, HookTypeOK
  <2>6. excused' \subseteq MessageIds
    BY <1>0, <1>1 DEF SettlePost, HookTypeOK
  <2>7. crossed' \in BOOLEAN
    BY <1>0, <1>1 DEF SettlePost, HookTypeOK
  <2> QED BY <1>0, <2>1, <2>4, <2>5, <2>6, <2>7 DEF HookTypeOK
<1>2. ASSUME NEW chat \in Chats, SwitchChat(chat) PROVE HookTypeOK'
  <2>1. fetch' \in Fetches /\ screen' \in Lists
    BY <1>2, AskedFetch, NoMessagesList DEF SwitchChat
  <2>2. switches' \in 0..MaxSwitches
    BY <1>0, <1>2, ViewAssumption DEF SwitchChat, HookTypeOK
  <2> QED BY <1>0, <1>2, <2>1, <2>2 DEF SwitchChat, HookTypeOK
<1>3. CASE ReceiveEvent
  <2> DEFINE e == Head(channel)
  <2>1. e \in Events /\ e.msg \in MessageIds
    BY <1>0, <1>3, FirstEvent DEF ReceiveEvent
  <2>2. UNCHANGED <<open, fetch, switches, lost, failed, crossed>>
    BY <1>3 DEF ReceiveEvent
  <2>3. excused' \subseteq MessageIds
    <3>1. excused' = excused \cup {e.msg} \/ UNCHANGED excused
      BY <1>3 DEF ReceiveEvent
    <3> QED BY <1>0, <2>1, <3>1 DEF HookTypeOK
  <2>4. Merge(e.msg, Decode(e)) \in Lists
    BY <1>0, <1>3, Merged DEF ReceiveEvent
  <2>6. screen' \in Lists
    BY <1>0, <1>3, <2>4 DEF ReceiveEvent, SetMessages, HookTypeOK
  <2> QED BY <1>0, <2>2, <2>3, <2>6 DEF HookTypeOK
<1>4. CASE DeliverFetch
  BY <1>0, <1>4 DEF DeliverFetch, HookTypeOK, Fetches
<1>5. CASE AnswerFetch
  <2>1. fetch' \in Fetches
    BY <1>0, <1>5, Answered
  <2>2. failed' \in 0..MaxFailed
    BY <1>0, <1>5, ViewAssumption DEF AnswerFetch, HookTypeOK
  <2> QED BY <1>0, <1>5, <2>1, <2>2 DEF AnswerFetch, HookTypeOK
<1>6. CASE LoseEvent
  <2>1. Head(channel).msg \in MessageIds
    BY <1>0, <1>6, FirstEvent DEF LoseEvent
  <2> QED BY <1>0, <1>6, <2>1, ViewAssumption DEF LoseEvent, HookTypeOK
<1>7. CASE FailFetch
  BY <1>0, <1>7, ViewAssumption DEF FailFetch, HookTypeOK
<1>8. CASE \/ \E m \in MessageIds : PeerCommits(m) \/ ServePost(m)
           \/ \E m \in MessageIds, kind \in {"send", "edit", "delete"} : Post(m, kind)
           \/ \E e \in due : Publish(e)
           \/ \E i \in 1..MaxRuns : FinishDecryption(i)
           \/ Redraw \/ Idle \/ UNCHANGED viewVars
  <2>1. UNCHANGED <<open, screen, fetch, switches, lost, failed, excused, crossed>>
    BY <1>8 DEF PeerCommits, ServePost, Post, Publish, FinishDecryption, Redraw, Idle, viewVars,
       history
  <2> QED BY <1>0, <2>1 DEF HookTypeOK
<1>9. ASSUME NEW m \in MessageIds, LoseAnswer(m) PROVE HookTypeOK'
  BY <1>0, <1>9, LostAnswer DEF HookTypeOK
<1> QED BY <1>1, <1>2, <1>3, <1>4, <1>5, <1>6, <1>7, <1>8, <1>9 DEF ViewNext

LEMMA TypeNext == ViewInv /\ [ViewNext]_viewVars => ViewTypeOK'
<1> SUFFICES ASSUME ViewInv, [ViewNext]_viewVars PROVE ViewTypeOK'
  OBVIOUS
<1>1. ServerTypeOK' /\ HookTypeOK' /\ RunsTypeOK'
  BY ServerTypes, HookTypes, RunsNext
<1> QED BY <1>1 DEF ViewTypeOK, ServerTypeOK, HookTypeOK, RunsTypeOK, Runs

-----------------------------------------------------------------------------
(* Rows, events and what lists show of them                                *)

\* A row is there to stay, and final once it is deleted.
RowStep(m) ==
    \/ row'[m] = row[m]
    \/ /\ row'[m].version = row[m].version + 1
       /\ row[m].version = 0 \/ ~row[m].deleted

LEMMA RowSteps ==
    ASSUME ViewInv, [ViewNext]_viewVars, NEW m \in MessageIds
    PROVE  RowStep(m)
<1>0. ServerTypeOK
  BY TypeParts DEF ViewInv
<1>1. ASSUME NEW n \in MessageIds, PeerCommits(n) PROVE RowStep(m)
  <2>1. PICK deletes \in BOOLEAN :
          /\ IF row[n].version = 0 THEN ~deletes ELSE Live(n)
          /\ row' = [row EXCEPT ![n] = NextVersion(n, deletes)]
    BY <1>1 DEF PeerCommits
  <2> QED BY <1>0, <2>1, NextRow DEF ServerTypeOK, RowStep, Live
<1>2. ASSUME NEW n \in MessageIds, ServePost(n) PROVE RowStep(m)
  <2>1. CASE /\ row[n].version = 0 \/ Live(n)
             /\ row' = [row EXCEPT ![n] = NextVersion(n, posts[n].kind = "delete")]
    BY <1>0, <2>1, NextRow DEF ServerTypeOK, RowStep, Live
  <2>2. CASE UNCHANGED row
    BY <2>2 DEF RowStep
  <2> QED BY <1>2, <2>1, <2>2 DEF ServePost
<1>3. CASE \/ \E n \in MessageIds : LoseAnswer(n) \/ SettlePost(n)
           \/ \E n \in MessageIds, kind \in {"send", "edit", "delete"} : Post(n, kind)
           \/ \E e \in due : Publish(e)
           \/ \E chat \in Chats : SwitchChat(chat)
           \/ \E i \in 1..MaxRuns : FinishDecryption(i)
           \/ Redraw \/ LoseEvent \/ AnswerFetch \/ ReceiveEvent \/ DeliverFetch
           \/ FailFetch \/ Idle \/ UNCHANGED viewVars
  <2>1. UNCHANGED row
    BY <1>3 DEF LoseAnswer, SettlePost, Post, Publish, SwitchChat, FinishDecryption, Redraw, LoseEvent,
       AnswerFetch, ReceiveEvent, DeliverFetch, FailFetch, Idle, viewVars, server
  <2> QED BY <2>1 DEF RowStep
<1> QED BY <1>1, <1>2, <1>3 DEF ViewNext

\* What was once true of a message stays so.
LEMMA TrueStays ==
    ASSUME ViewInv, [ViewNext]_viewVars
    PROVE  /\ \A m \in MessageIds : \A e \in Entries : TrueEntry(m, e) => TrueEntry(m, e)'
           /\ \A e \in Events : TrueEvent(e) => TrueEvent(e)'
           /\ \A l \in Lists : TrueList(l) => TrueList(l)'
<1>1. ASSUME NEW m \in MessageIds
      PROVE  /\ row[m].version \in Nat /\ row[m].deleted \in BOOLEAN
             /\ row'[m].version \in Nat /\ row'[m].deleted \in BOOLEAN
             /\ RowStep(m)
  BY TypeNext, RowSteps DEF ViewInv, ViewTypeOK
<1>2. ASSUME NEW m \in MessageIds, NEW e \in Entries, TrueEntry(m, e) PROVE TrueEntry(m, e)'
  <2>1. e.version \in Nat /\ e.blank \in BOOLEAN
    BY DEF Entries
  <2> QED BY <1>1, <1>2, <2>1 DEF TrueEntry, RowStep
<1>3. ASSUME NEW e \in Events, TrueEvent(e) PROVE TrueEvent(e)'
  <2>1. e.msg \in MessageIds /\ e.version \in Nat /\ e.blank \in BOOLEAN
    BY DEF Events
  <2> QED BY <1>1, <1>3, <2>1 DEF TrueEvent, RowStep
<1>4. ASSUME NEW l \in Lists, TrueList(l) PROVE TrueList(l)'
  <2>1. \A m \in MessageIds : l[m] \in Seq(Entries)
    BY DEF Lists
  <2>2. \A m \in MessageIds : \A i \in DOMAIN l[m] : l[m][i] \in Entries
    BY <2>1, ElementOfSeq
  <2> QED BY <1>2, <1>4, <2>2 DEF TrueList
<1> QED BY <1>2, <1>3, <1>4

LEMMA EventsNext == ViewInv /\ [ViewNext]_viewVars => EventsInv'
<1> SUFFICES ASSUME ViewInv, [ViewNext]_viewVars PROVE EventsInv'
  OBVIOUS
<1>0. ServerTypeOK /\ ServerTypeOK'
  BY TypeParts, ServerTypes DEF ViewInv
<1>1. /\ \A e \in due : e \in Events /\ TrueEvent(e)'
      /\ \A i \in DOMAIN channel : channel[i] \in Events /\ TrueEvent(channel[i])
  BY <1>0, TrueStays, ElementOfSeq DEF ServerTypeOK, ViewInv, EventsInv
<1>2. \A i \in DOMAIN channel : \A e \in Events : e = channel[i] => TrueEvent(e)'
  BY <1>1, TrueStays
<1>3. ASSUME NEW m \in MessageIds, PeerCommits(m) PROVE EventsInv'
  <2>1. PICK deletes \in BOOLEAN :
          /\ row' = [row EXCEPT ![m] = NextVersion(m, deletes)]
          /\ due' = due \cup
               {[msg |-> m, version |-> row'[m].version, blank |-> deletes, copy |-> k] :
                  k \in IF row[m].version = 0 THEN {"first", "second"} ELSE {"first"}}
    BY <1>3 DEF PeerCommits
  <2>2. m \notin Own /\ UNCHANGED channel
    BY <1>3 DEF PeerCommits
  <2>3. row'[m].version = row[m].version + 1 /\ row'[m].deleted = deletes
    BY <1>0, <2>1, NextRow DEF ServerTypeOK
  <2>4. \A e \in due' : TrueEvent(e)'
    <3>1. row[m].version \in Nat
      BY <1>0 DEF ServerTypeOK
    <3>2. ASSUME NEW e \in due', e \notin due PROVE TrueEvent(e)'
      <4>1. e.msg = m /\ e.version = row'[m].version /\ e.blank = deletes
        BY <2>1, <3>2
      <4> QED BY <2>2, <2>3, <3>1, <4>1 DEF TrueEvent
    <3> QED BY <1>1, <3>2
  <2> QED BY <1>1, <1>2, <2>2, <2>4 DEF EventsInv
<1>4. ASSUME NEW e \in due, Publish(e) PROVE EventsInv'
  <2>1. due' = due \ {e} /\ channel' = Append(channel, e) /\ e \in Events
    BY <1>1, <1>4 DEF Publish
  <2>2. ASSUME NEW i \in DOMAIN channel'
        PROVE  channel'[i] = e \/ (i \in DOMAIN channel /\ channel'[i] = channel[i])
    <3>1. channel \in Seq(Events) /\ Len(channel) \in Nat
      BY <1>0 DEF ServerTypeOK
    <3>2. /\ channel' \in Seq(Events) /\ Len(channel') = Len(channel) + 1
          /\ channel'[Len(channel) + 1] = e
          /\ \A j \in 1..Len(channel) : channel'[j] = channel[j]
      BY <2>1, <3>1, AppendProperties
    <3>3. DOMAIN channel' = 1..(Len(channel) + 1) /\ DOMAIN channel = 1..Len(channel)
      BY <3>1, <3>2
    <3>4. CASE i = Len(channel) + 1
      BY <3>2, <3>4
    <3>5. CASE i # Len(channel) + 1
      <4>1. i \in 1..Len(channel)
        BY <3>1, <3>3, <3>5
      <4> QED BY <3>2, <3>3, <4>1
    <3> QED BY <3>4, <3>5
  <2> QED BY <1>1, <1>2, <2>1, <2>2 DEF EventsInv
<1>5. CASE LoseEvent \/ ReceiveEvent
  <2>1. channel # <<>> /\ channel' = Tail(channel) /\ UNCHANGED due
    BY <1>5 DEF LoseEvent, ReceiveEvent, server
  <2> QED BY <1>0, <1>1, <1>2, <2>1, FirstEvent DEF EventsInv
<1>6. CASE \/ \E m \in MessageIds : ServePost(m) \/ LoseAnswer(m) \/ SettlePost(m)
           \/ \E m \in MessageIds, kind \in {"send", "edit", "delete"} : Post(m, kind)
           \/ \E chat \in Chats : SwitchChat(chat)
           \/ \E i \in 1..MaxRuns : FinishDecryption(i)
           \/ Redraw \/ AnswerFetch \/ DeliverFetch \/ FailFetch \/ Idle \/ UNCHANGED viewVars
  <2>1. UNCHANGED <<due, channel>>
    BY <1>6 DEF ServePost, LoseAnswer, SettlePost, Post, SwitchChat, FinishDecryption, Redraw, AnswerFetch,
       DeliverFetch, FailFetch, Idle, viewVars, server
  <2> QED BY <1>1, <1>2, <2>1 DEF EventsInv
<1> QED BY <1>3, <1>4, <1>5, <1>6 DEF ViewNext

LEMMA PostsNext == ViewInv /\ [ViewNext]_viewVars => PostsInv'
<1> SUFFICES ASSUME ViewInv, [ViewNext]_viewVars PROVE PostsInv'
  OBVIOUS
<1>0. ServerTypeOK /\ PostsInv
  BY TypeParts DEF ViewInv
<1>1. ASSUME NEW m \in MessageIds, PeerCommits(m) PROVE PostsInv'
  <2>1. PICK deletes \in BOOLEAN : row' = [row EXCEPT ![m] = NextVersion(m, deletes)]
    BY <1>1 DEF PeerCommits
  <2>2. m \notin Own /\ UNCHANGED posts
    BY <1>1 DEF PeerCommits
  <2>3. /\ row'[m].version = row[m].version + 1 /\ row[m].version \in Nat
        /\ \A n \in MessageIds : n # m => row'[n] = row[n]
    BY <1>0, <2>1, NextRow DEF ServerTypeOK
  <2> QED BY <1>0, <2>2, <2>3 DEF PostsInv
<1>2. ASSUME NEW m \in MessageIds, ServePost(m) PROVE PostsInv'
  <2>1. posts[m] \in Calls /\ m \in Own /\ posts[m].phase = "sent"
    BY <1>0, <1>2 DEF ServePost, ServerTypeOK, PostsInv
  <2>2. \A n \in MessageIds : n # m => posts'[n] = posts[n] /\ row'[n] = row[n]
    BY <1>0, <1>2 DEF ServePost, ServerTypeOK
  <2>3. CASE /\ row' = [row EXCEPT ![m] = NextVersion(m, posts[m].kind = "delete")]
             /\ posts' = [posts EXCEPT ![m].phase = "ok"]
    <3>1. /\ row'[m].version = row[m].version + 1 /\ row[m].version \in Nat
          /\ row'[m].deleted = (posts[m].kind = "delete")
      BY <1>0, <2>3, NextRow DEF ServerTypeOK
    <3>2. posts'[m].phase = "ok" /\ posts'[m].kind = posts[m].kind
      BY <1>0, <2>1, <2>3 DEF ServerTypeOK, Calls
    <3>3. ASSUME NEW n \in MessageIds, n # m
          PROVE  /\ row'[n].deleted => row'[n].version > 0
                 /\ posts'[n] # None => n \in Own
                 /\ posts'[n] # None /\ posts'[n].phase = "sent" => row'[n].version < MaxVersion[n]
                 /\ posts'[n] # None /\ posts'[n].phase = "ok" /\ posts'[n].kind = "delete"
                       => row'[n].deleted
      BY <1>0, <2>2, <3>3 DEF PostsInv
    <3>4. /\ row'[m].version > 0
          /\ posts'[m].phase # "sent"
          /\ posts'[m].kind = "delete" => row'[m].deleted
      <4>1. row'[m].version > 0
        BY <3>1
      <4>2. posts'[m].phase # "sent"
        BY <3>2
      <4>3. posts'[m].kind = "delete" => row'[m].deleted
        BY <3>1, <3>2, Zenon
      <4> QED BY <4>1, <4>2, <4>3
    <3> QED BY <2>1, <3>3, <3>4 DEF PostsInv
  <2>4. CASE posts' = [posts EXCEPT ![m].phase = "error"] /\ UNCHANGED row
    <3>1. posts'[m].phase = "error"
      BY <1>0, <2>1, <2>4 DEF ServerTypeOK, Calls
    <3> QED BY <1>0, <2>1, <2>2, <2>4, <3>1 DEF PostsInv
  <2> QED BY <1>2, <2>3, <2>4 DEF ServePost
<1>3. ASSUME NEW m \in MessageIds, SettlePost(m) PROVE PostsInv'
  <2>1. posts' = [posts EXCEPT ![m] = None] /\ UNCHANGED row
    BY <1>3 DEF SettlePost, server
  <2>2. posts'[m] = None /\ \A n \in MessageIds : n # m => posts'[n] = posts[n]
    BY <1>0, <2>1 DEF ServerTypeOK
  <2> QED BY <1>0, <2>1, <2>2 DEF PostsInv
<1>4. ASSUME NEW m \in MessageIds, NEW kind \in {"send", "edit", "delete"}, Post(m, kind)
      PROVE  PostsInv'
  <2>1. /\ posts' = [posts EXCEPT ![m] = [kind |-> kind, chat |-> open, phase |-> "sent"]]
        /\ m \in Own /\ row[m].version < MaxVersion[m] /\ UNCHANGED row
    BY <1>4 DEF Post, server
  <2>2. posts'[m].phase = "sent" /\ \A n \in MessageIds : n # m => posts'[n] = posts[n]
    BY <1>0, <2>1 DEF ServerTypeOK
  <2> QED BY <1>0, <2>1, <2>2 DEF PostsInv
<1>5. CASE \/ \E e \in due : Publish(e)
           \/ \E chat \in Chats : SwitchChat(chat)
           \/ \E i \in 1..MaxRuns : FinishDecryption(i)
           \/ Redraw \/ LoseEvent \/ AnswerFetch \/ ReceiveEvent \/ DeliverFetch
           \/ FailFetch \/ Idle \/ UNCHANGED viewVars
  <2>1. UNCHANGED <<row, posts>>
    BY <1>5 DEF Publish, SwitchChat, FinishDecryption, Redraw, LoseEvent, AnswerFetch,
       ReceiveEvent, DeliverFetch, FailFetch, Idle, viewVars, server
  <2> QED BY <1>0, <2>1 DEF PostsInv
<1>6. ASSUME NEW m \in MessageIds, LoseAnswer(m) PROVE PostsInv'
  <2>1. HookTypeOK
    BY TypeParts DEF ViewInv
  <2> QED BY <1>0, <1>6, <2>1, LostAnswer DEF PostsInv
<1> QED BY <1>1, <1>2, <1>3, <1>4, <1>5, <1>6 DEF ViewNext

\* Where the list comes from: it stays, is the answer of a fetch, is emptied,
\* has an event merged or a message removed.
LEMMA ScreenSteps ==
    ASSUME ViewInv, [ViewNext]_viewVars
    PROVE  \/ UNCHANGED screen
           \/ screen' = NoMessages
           \/ DeliverFetch
           \/ \E m \in MessageIds : SettlePost(m) /\ screen' = Without(m)
           \/ /\ ReceiveEvent /\ ChatOf[Head(channel).msg] = open
              /\ screen' = [screen EXCEPT ![Head(channel).msg] = <<Decode(Head(channel))>>]
<1>0. ServerTypeOK /\ HookTypeOK /\ ListsInv
  BY TypeParts DEF ViewInv
<1>1. CASE ReceiveEvent
  <2> DEFINE e == Head(channel)
  <2>3. Merge(e.msg, Decode(e)) = [screen EXCEPT ![e.msg] = <<Decode(e)>>]
    BY <1>0, <1>1, Merged DEF ReceiveEvent
  <2> QED BY <1>1, <2>3 DEF ReceiveEvent, SetMessages
<1>2. ASSUME NEW m \in MessageIds, SettlePost(m)
      PROVE  UNCHANGED screen \/ screen' = Without(m)
  BY <1>2 DEF SettlePost, SetMessages
<1>3. CASE \/ \E m \in MessageIds : PeerCommits(m) \/ ServePost(m) \/ LoseAnswer(m)
           \/ \E m \in MessageIds, kind \in {"send", "edit", "delete"} : Post(m, kind)
           \/ \E e \in due : Publish(e)
           \/ \E chat \in Chats : SwitchChat(chat)
           \/ \E i \in 1..MaxRuns : FinishDecryption(i)
           \/ Redraw \/ LoseEvent \/ AnswerFetch \/ FailFetch \/ Idle \/ UNCHANGED viewVars
  BY <1>3 DEF PeerCommits, ServePost, LoseAnswer, Post, Publish, SwitchChat, FinishDecryption, Redraw,
     LoseEvent, AnswerFetch, FailFetch, Idle, viewVars
<1> QED BY <1>1, <1>2, <1>3 DEF ViewNext

\* Where a fetch comes from: it stays, is answered, started, or it ends.
LEMMA FetchSteps ==
    ASSUME ViewInv, [ViewNext]_viewVars
    PROVE  \/ UNCHANGED fetch
           \/ fetch' = None /\ (DeliverFetch \/ FailFetch)
           \/ \E chat \in Chats : SwitchChat(chat) /\ fetch' = Asked(chat)
           \/ \E m \in MessageIds : /\ SettlePost(m) /\ posts[m] \in Calls
                                    /\ fetch' = Asked(posts[m].chat)
           \/ AnswerFetch
<1>0. ServerTypeOK /\ HookTypeOK /\ ListsInv
  BY TypeParts DEF ViewInv
<1>1. ASSUME NEW m \in MessageIds, SettlePost(m)
      PROVE  UNCHANGED fetch \/ (posts[m] \in Calls /\ fetch' = Asked(posts[m].chat))
  <2>1. posts[m] \in Calls
    BY <1>0, <1>1 DEF SettlePost, ServerTypeOK
  <2> QED BY <1>1, <2>1 DEF SettlePost
<1>3. CASE DeliverFetch \/ FailFetch
  BY <1>3 DEF DeliverFetch, FailFetch
<1>4. ASSUME NEW chat \in Chats, SwitchChat(chat) PROVE fetch' = Asked(chat)
  BY <1>4 DEF SwitchChat
<1>5. CASE \/ \E m \in MessageIds : PeerCommits(m) \/ ServePost(m) \/ LoseAnswer(m)
           \/ \E m \in MessageIds, kind \in {"send", "edit", "delete"} : Post(m, kind)
           \/ \E e \in due : Publish(e)
           \/ \E i \in 1..MaxRuns : FinishDecryption(i)
           \/ Redraw \/ LoseEvent \/ ReceiveEvent \/ Idle \/ UNCHANGED viewVars
  <2>1. UNCHANGED fetch
    BY <1>5 DEF PeerCommits, ServePost, LoseAnswer, Post, Publish, FinishDecryption, Redraw,
       LoseEvent, ReceiveEvent, Idle, viewVars
  <2> QED BY <2>1
<1> QED BY <1>1, <1>3, <1>4, <1>5 DEF ViewNext

LEMMA ListsNext == ViewInv /\ [ViewNext]_viewVars => ListsInv'
<1> SUFFICES ASSUME ViewInv, [ViewNext]_viewVars PROVE ListsInv'
  OBVIOUS
<1>0. ServerTypeOK /\ HookTypeOK /\ ListsInv /\ screen' \in Lists /\ fetch' \in Fetches \cup {None}
  BY TypeParts, HookTypes DEF ViewInv, HookTypeOK
<1>1. TrueList(screen')
  <2>1. CASE UNCHANGED screen
    BY <2>1 DEF ViewInv, ListsInv
  <2>2. CASE screen' = NoMessages
    BY <2>2, NoMessagesList
  <2>3. CASE DeliverFetch
    BY <2>3 DEF DeliverFetch, ViewInv, ListsInv
  <2>4. ASSUME NEW m \in MessageIds, screen' = Without(m) PROVE TrueList(screen')
    <3>1. screen'[m] = <<>> /\ \A n \in MessageIds : n # m => screen'[n] = screen[n]
      BY <1>0, <2>4 DEF Without, HookTypeOK, Lists
    <3> QED BY <3>1 DEF TrueList, ViewInv, ListsInv
  <2>5. CASE /\ ReceiveEvent
             /\ screen' = [screen EXCEPT ![Head(channel).msg] = <<Decode(Head(channel))>>]
    <3> DEFINE e == Head(channel)
    <3>1. /\ e \in Events /\ e.msg \in MessageIds /\ e = channel[1] /\ 1 \in DOMAIN channel
      BY <1>0, <2>5, FirstEvent DEF ReceiveEvent
    <3>2. TrueEvent(e)
      BY <3>1 DEF ViewInv, EventsInv
    <3> HIDE DEF e
    <3>3. TrueEntry(e.msg, Decode(e))
      BY <3>2 DEF TrueEvent, TrueEntry, Decode
    <3>4. /\ screen'[e.msg] = <<Decode(e)>>
          /\ \A n \in MessageIds : n # e.msg => screen'[n] = screen[n]
      BY <1>0, <2>5, <3>1 DEF e, HookTypeOK, Lists
    <3>5. Len(screen'[e.msg]) <= 1 /\ \A i \in DOMAIN screen'[e.msg] : screen'[e.msg][i] = Decode(e)
      BY <3>4
    <3> QED BY <3>3, <3>4, <3>5 DEF TrueList, ViewInv, ListsInv
  <2> QED BY <2>1, <2>2, <2>3, <2>4, <2>5, ScreenSteps
<1>2. fetch' # None => TrueList(fetch'.list)
  <2>1. CASE UNCHANGED fetch
    BY <2>1 DEF ViewInv, ListsInv
  <2>2. ASSUME NEW chat \in Chats, fetch' = Asked(chat) PROVE TrueList(fetch'.list)
    BY <2>2, AskedFetch, NoMessagesList
  <2>3. CASE AnswerFetch
    BY <1>0, <2>3, Answered
  <2>4. \A m \in MessageIds : posts[m] \in Calls => posts[m].chat \in Chats
    BY DEF Calls
  <2> QED BY <2>1, <2>2, <2>3, <2>4, FetchSteps
<1>3. \A l \in Lists : TrueList(l) => TrueList(l)'
  BY TrueStays
<1>4. ASSUME NEW l \in Lists, TrueList(l), l = screen' PROVE TrueList(screen)'
  BY <1>3, <1>4 DEF TrueList
<1>5. ASSUME NEW l \in Lists, TrueList(l), l = fetch'.list PROVE TrueList(fetch.list)'
  BY <1>3, <1>5 DEF TrueList
<1>6. fetch' # None => fetch'.list \in Lists
  BY <1>0 DEF Fetches
<1> QED BY <1>0, <1>1, <1>2, <1>4, <1>5, <1>6 DEF ListsInv

LEMMA ChatNext == ViewInv /\ [ViewNext]_viewVars => ChatInv'
<1> SUFFICES ASSUME ViewInv, [ViewNext]_viewVars PROVE ChatInv'
  OBVIOUS
<1>0. ServerTypeOK /\ HookTypeOK /\ HookTypeOK' /\ ListsInv /\ ChatInv
  BY TypeParts, HookTypes DEF ViewInv
<1>1. ASSUME NEW chat \in Chats, SwitchChat(chat) PROVE ChatInv'
  <2>1. /\ open' = chat /\ crossed' = FALSE /\ screen' = NoMessages
        /\ fetch'.chat = chat /\ fetch'.list = NoMessages
    BY <1>1, AskedFetch DEF SwitchChat
  <2> QED BY <2>1, NoMessagesList DEF ChatInv, ScreenIsOpenChat
<1>2. ASSUME NEW m \in MessageIds, SettlePost(m) PROVE ChatInv'
  <2>1. posts[m] \in Calls /\ UNCHANGED open
    BY <1>0, <1>2 DEF SettlePost, ServerTypeOK
  <2>2. \A n \in MessageIds : screen'[n] # <<>> => screen[n] # <<>>
    <3>1. UNCHANGED screen \/ screen' = Without(m)
      BY <1>2 DEF SettlePost, SetMessages
    <3> QED BY <1>0, <3>1 DEF Without, HookTypeOK, Lists
  <2>3. CASE UNCHANGED <<fetch, excused, crossed>>
    BY <1>0, <2>1, <2>2, <2>3 DEF ChatInv, ScreenIsOpenChat
  <2>4. CASE /\ fetch' = Asked(posts[m].chat)
             /\ crossed' = (crossed \/ posts[m].chat # open)
             /\ excused' = IF posts[m].chat = open THEN excused ELSE MessageIds
    <3>1. fetch'.chat = posts[m].chat /\ fetch'.list = NoMessages
      BY <2>1, <2>4, AskedFetch DEF Calls
    <3>2. fetch'.chat = open' \/ crossed'
      BY <2>1, <2>4, <3>1
    <3>3. crossed' => excused' = MessageIds
      BY <1>0, <2>4 DEF ChatInv
    <3>4. crossed => crossed'
      BY <2>4
    <3> QED BY <1>0, <2>1, <2>2, <3>1, <3>2, <3>3, <3>4, NoMessagesList
            DEF ChatInv, ScreenIsOpenChat
  <2> QED BY <1>2, <2>3, <2>4 DEF SettlePost
<1>3. CASE DeliverFetch
  <2>1. /\ fetch # None /\ fetch' = None /\ screen' = fetch.list /\ UNCHANGED open
        /\ crossed' = (crossed /\ fetch.chat # open)
        /\ fetch.chat # open => excused' = MessageIds
    BY <1>3 DEF DeliverFetch
  <2>2. \A m \in MessageIds : screen'[m] # <<>> => ChatOf[m] = open' \/ crossed'
    BY <1>0, <2>1 DEF ChatInv
  <2>3. crossed' => excused' = MessageIds
    BY <2>1
  <2> QED BY <2>1, <2>2, <2>3 DEF ChatInv, ScreenIsOpenChat
<1>4. CASE FailFetch
  BY <1>0, <1>4 DEF FailFetch, ChatInv, ScreenIsOpenChat
<1>5. CASE AnswerFetch
  <2>1. UNCHANGED <<open, screen, excused, crossed>>
    BY <1>5 DEF AnswerFetch
  <2> QED BY <1>0, <1>5, <2>1, Answered DEF ChatInv, ScreenIsOpenChat
<1>6. CASE ReceiveEvent
  <2>1. UNCHANGED <<open, fetch, crossed>>
    BY <1>6 DEF ReceiveEvent
  <2>2. ASSUME NEW m \in MessageIds, screen'[m] # <<>> PROVE ChatOf[m] = open \/ crossed
    <3> DEFINE e == Head(channel)
    <3>1. CASE UNCHANGED screen
      BY <1>0, <2>2, <3>1 DEF ChatInv, ScreenIsOpenChat
    <3>2. CASE ChatOf[e.msg] = open /\ screen' = Merge(e.msg, Decode(e))
      <4>1. m = e.msg \/ screen'[m] = screen[m]
        BY <1>0, <1>6, <3>2, Merged DEF ReceiveEvent
      <4> QED BY <1>0, <2>2, <3>2, <4>1 DEF ChatInv, ScreenIsOpenChat
    <3> QED BY <1>6, <3>1, <3>2 DEF ReceiveEvent, SetMessages
  <2>3. excused \subseteq excused'
    BY <1>6 DEF ReceiveEvent
  <2> QED BY <1>0, <2>1, <2>2, <2>3 DEF ChatInv, ScreenIsOpenChat, HookTypeOK
<1>7. CASE LoseEvent
  <2>1. UNCHANGED <<open, screen, fetch, crossed>> /\ excused \subseteq excused'
    BY <1>7 DEF LoseEvent
  <2> QED BY <1>0, <2>1 DEF ChatInv, ScreenIsOpenChat, HookTypeOK
<1>8. CASE \/ \E m \in MessageIds : PeerCommits(m) \/ ServePost(m)
           \/ \E m \in MessageIds, kind \in {"send", "edit", "delete"} : Post(m, kind)
           \/ \E e \in due : Publish(e)
           \/ \E i \in 1..MaxRuns : FinishDecryption(i)
           \/ Redraw \/ Idle \/ UNCHANGED viewVars
  <2>1. UNCHANGED <<open, screen, fetch, excused, crossed>>
    BY <1>8 DEF PeerCommits, ServePost, Post, Publish, FinishDecryption, Redraw, Idle, viewVars,
       history
  <2> QED BY <1>0, <2>1 DEF ChatInv, ScreenIsOpenChat
<1>9. ASSUME NEW m \in MessageIds, LoseAnswer(m) PROVE ChatInv'
  BY <1>0, <1>9, LostAnswer DEF ChatInv, ScreenIsOpenChat, HookTypeOK
<1> QED BY <1>1, <1>2, <1>3, <1>4, <1>5, <1>6, <1>7, <1>8, <1>9 DEF ViewNext

\* What is coming of a message that nothing happens to.
LEMMA StillComing ==
    ASSUME NEW m \in MessageIds, Coming(m), row'[m] = row[m], posts'[m] = posts[m],
           \A e \in due : e.msg = m => e \in due' \/ \E i \in DOMAIN channel' : channel'[i] = e,
           \A i \in DOMAIN channel : channel[i].msg = m =>
              \E j \in DOMAIN channel' : channel'[j] = channel[i]
    PROVE  Coming(m)'
  BY DEF Coming

LEMMA ToldNext == ViewInv /\ [ViewNext]_viewVars => ToldInv'
<1> SUFFICES ASSUME ViewInv, [ViewNext]_viewVars PROVE ToldInv'
  OBVIOUS
<1>0. ServerTypeOK /\ ServerTypeOK' /\ ToldInv
  BY TypeParts, ServerTypes DEF ViewInv
<1>1. ASSUME NEW m \in MessageIds, PeerCommits(m) PROVE ToldInv'
  <2>1. PICK deletes \in BOOLEAN :
          /\ row' = [row EXCEPT ![m] = NextVersion(m, deletes)]
          /\ due' = due \cup
               {[msg |-> m, version |-> row'[m].version, blank |-> deletes, copy |-> k] :
                  k \in IF row[m].version = 0 THEN {"first", "second"} ELSE {"first"}}
    BY <1>1 DEF PeerCommits
  <2>2. UNCHANGED <<channel, posts, heard>>
    BY <1>1 DEF PeerCommits, history
  <2>3. Coming(m)'
    <3> DEFINE e == [msg |-> m, version |-> row'[m].version, blank |-> deletes, copy |-> "first"]
    <3>1. e \in due'
      BY <2>1
    <3> QED BY <3>1 DEF Coming
  <2>4. ASSUME NEW n \in MessageIds, n # m, heard'[n] < row'[n].version PROVE Coming(n)'
    <3>1. row'[n] = row[n] /\ due \subseteq due'
      BY <1>0, <2>1, <2>4 DEF ServerTypeOK
    <3>2. Coming(n)
      BY <1>0, <2>2, <2>4, <3>1 DEF ToldInv
    <3> QED BY <2>2, <3>1, <3>2, StillComing
  <2> QED BY <2>3, <2>4 DEF ToldInv
<1>2. ASSUME NEW m \in MessageIds, ServePost(m) PROVE ToldInv'
  <2>1. posts[m] \in Calls /\ posts[m] # None /\ posts[m].phase = "sent"
    BY <1>0, <1>2 DEF ServePost, ServerTypeOK
  <2>2. UNCHANGED <<due, channel, heard>>
    BY <1>2 DEF ServePost, history
  <2>3. \A n \in MessageIds : n # m => posts'[n] = posts[n] /\ row'[n] = row[n]
    BY <1>0, <1>2 DEF ServePost, ServerTypeOK
  <2>4. ASSUME NEW n \in MessageIds, n # m, heard'[n] < row'[n].version PROVE Coming(n)'
    <3>1. Coming(n)
      BY <1>0, <2>2, <2>3, <2>4 DEF ToldInv
    <3> QED BY <2>2, <2>3, <2>4, <3>1, StillComing
  <2>5. ASSUME heard'[m] < row'[m].version PROVE Coming(m)'
    <3>1. CASE posts' = [posts EXCEPT ![m].phase = "ok"]
      <4>1. posts'[m] \in Calls /\ posts'[m].phase = "ok"
        BY <1>0, <2>1, <3>1 DEF ServerTypeOK, Calls
      <4> QED BY <4>1, ViewAssumption DEF Coming
    <3>2. CASE UNCHANGED row
      <4>1. Coming(m)
        BY <1>0, <2>2, <2>5, <3>2 DEF ToldInv
      <4> QED BY <2>1, <2>2, <3>2, <4>1 DEF Coming
    <3> QED BY <1>2, <3>1, <3>2 DEF ServePost
  <2> QED BY <2>4, <2>5 DEF ToldInv
<1>3. ASSUME NEW m \in MessageIds, SettlePost(m) PROVE ToldInv'
  <2>1. /\ posts[m] \in Calls /\ posts[m].phase # "sent"
        /\ posts' = [posts EXCEPT ![m] = None] /\ UNCHANGED <<row, due, channel>>
    BY <1>0, <1>3 DEF SettlePost, server, ServerTypeOK
  <2>2. \/ posts[m].phase = "error" /\ UNCHANGED heard
        \/ heard' = [heard EXCEPT ![m] = row[m].version]
    BY <1>3 DEF SettlePost
  <2>3. \A n \in MessageIds : n # m => posts'[n] = posts[n] /\ heard'[n] = heard[n]
    BY <1>0, <2>1, <2>2 DEF ServerTypeOK
  <2>4. ASSUME NEW n \in MessageIds, n # m, heard'[n] < row'[n].version PROVE Coming(n)'
    <3>1. Coming(n)
      BY <1>0, <2>1, <2>3, <2>4 DEF ToldInv
    <3> QED BY <2>1, <2>3, <2>4, <3>1, StillComing
  <2>5. ASSUME heard'[m] < row'[m].version PROVE Coming(m)'
    <3>1. CASE posts[m].phase = "error" /\ UNCHANGED heard
      <4>1. Coming(m)
        BY <1>0, <2>1, <2>5, <3>1 DEF ToldInv
      <4> QED BY <2>1, <3>1, <4>1 DEF Coming
    <3>2. CASE heard' = [heard EXCEPT ![m] = row[m].version]
      <4>1. heard'[m] = row[m].version /\ row[m].version \in Nat
        BY <1>0, <3>2 DEF ServerTypeOK
      <4> QED BY <2>1, <2>5, <4>1
    <3> QED BY <2>2, <3>1, <3>2
  <2> QED BY <2>4, <2>5 DEF ToldInv
<1>4. ASSUME NEW m \in MessageIds, NEW kind \in {"send", "edit", "delete"}, Post(m, kind)
      PROVE  ToldInv'
  <2>1. posts[m] = None /\ UNCHANGED <<row, due, channel, heard>>
    BY <1>4 DEF Post, server, history
  <2>2. \A n \in MessageIds : n # m => posts'[n] = posts[n]
    BY <1>0, <1>4 DEF Post, ServerTypeOK
  <2>3. ASSUME NEW n \in MessageIds, heard'[n] < row'[n].version PROVE Coming(n)'
    <3>1. Coming(n)
      BY <1>0, <2>1, <2>3 DEF ToldInv
    <3> QED BY <2>1, <2>2, <3>1 DEF Coming
  <2> QED BY <2>3 DEF ToldInv
<1>5. ASSUME NEW e \in due, Publish(e) PROVE ToldInv'
  <2>1. due' = due \ {e} /\ channel' = Append(channel, e) /\ UNCHANGED <<row, posts, heard>>
    BY <1>5 DEF Publish, history
  <2>2. /\ \E i \in DOMAIN channel' : channel'[i] = e
        /\ \A i \in DOMAIN channel : i \in DOMAIN channel' /\ channel'[i] = channel[i]
    <3>1. channel \in Seq(Events) /\ e \in Events /\ Len(channel) \in Nat
      BY <1>0 DEF ServerTypeOK
    <3>2. /\ channel' \in Seq(Events) /\ Len(channel') = Len(channel) + 1
          /\ channel'[Len(channel) + 1] = e
          /\ \A j \in 1..Len(channel) : channel'[j] = channel[j]
      BY <2>1, <3>1, AppendProperties
    <3>3. DOMAIN channel' = 1..(Len(channel) + 1) /\ DOMAIN channel = 1..Len(channel)
      BY <3>1, <3>2
    <3>4. Len(channel) + 1 \in DOMAIN channel' /\ DOMAIN channel \subseteq DOMAIN channel'
      BY <3>1, <3>3
    <3> QED BY <3>2, <3>3, <3>4
  <2>3. ASSUME NEW n \in MessageIds, heard'[n] < row'[n].version PROVE Coming(n)'
    <3>1. Coming(n)
      BY <1>0, <2>1, <2>3 DEF ToldInv
    <3> QED BY <2>1, <2>2, <3>1, StillComing
  <2> QED BY <2>3 DEF ToldInv
<1>6. CASE LoseEvent \/ ReceiveEvent
  <2> DEFINE e == Head(channel)
  <2>1. /\ channel # <<>> /\ channel' = Tail(channel) /\ heard' = HeardOf(e)
        /\ UNCHANGED <<row, due, posts>>
    BY <1>6 DEF LoseEvent, ReceiveEvent, HeardOf, server
  <2>2. /\ e \in Events /\ e = channel[1] /\ 1 \in DOMAIN channel
        /\ e.msg \in MessageIds /\ e.version \in Nat
        /\ \A i \in DOMAIN channel : i # 1 =>
             i - 1 \in DOMAIN channel' /\ channel[i] = channel'[i - 1]
    BY <1>0, <2>1, FirstEvent
  <2>3. TrueEvent(e)
    BY <2>2 DEF ViewInv, EventsInv
  <2> HIDE DEF e
  <2>4. ASSUME NEW n \in MessageIds, heard'[n] < row'[n].version PROVE Coming(n)'
    <3>1. heard'[n] >= heard[n] /\ heard[n] \in Nat /\ heard'[n] \in Nat /\ row[n].version \in Nat
      <4>1. heard[n] \in Nat /\ heard'[n] \in Nat /\ row[n].version \in Nat
        BY <1>0, <2>1 DEF ServerTypeOK
      <4>2. CASE n = e.msg
        BY <1>0, <2>1, <2>2, <2>3, <4>1, <4>2, HeardEvent
      <4>3. CASE n # e.msg
        <5>1. heard'[n] = heard[n]
          BY <1>0, <2>1, <2>2, <2>3, <4>3, HeardEvent
        <5> QED BY <4>1, <5>1
      <4> QED BY <4>1, <4>2, <4>3
    <3>2. Coming(n)
      BY <1>0, <2>1, <2>4, <3>1 DEF ToldInv
    <3>3. ~(channel[1].msg = n /\ channel[1].version = row[n].version)
      <4>1. n = e.msg => heard'[n] >= e.version
        BY <2>1, <2>2, <2>3, <1>0, HeardEvent
      <4> QED BY <2>1, <2>2, <2>4, <3>1, <4>1
    <3>4. ASSUME NEW i \in DOMAIN channel, channel[i].msg = n, channel[i].version = row[n].version
          PROVE  \E j \in DOMAIN channel' : channel'[j] = channel[i]
      BY <2>2, <3>3, <3>4
    <3> QED BY <2>1, <3>2, <3>4 DEF Coming
  <2> QED BY <2>4 DEF ToldInv
<1>7. CASE \/ \E chat \in Chats : SwitchChat(chat)
           \/ \E i \in 1..MaxRuns : FinishDecryption(i)
           \/ Redraw \/ AnswerFetch \/ DeliverFetch \/ FailFetch \/ Idle \/ UNCHANGED viewVars
  <2>1. UNCHANGED <<row, due, channel, posts, heard>>
    BY <1>7 DEF SwitchChat, FinishDecryption, Redraw, AnswerFetch, DeliverFetch, FailFetch, Idle,
       viewVars, server, history
  <2> QED BY <1>0, <2>1 DEF ToldInv, Coming
<1>8. ASSUME NEW m \in MessageIds, LoseAnswer(m) PROVE ToldInv'
  <2>1. HookTypeOK
    BY TypeParts DEF ViewInv
  <2>2. ASSUME NEW n \in MessageIds, heard'[n] < row'[n].version PROVE Coming(n)'
    <3>1. n # m
      <4>1. row[m].version \in Nat
        BY <1>0 DEF ServerTypeOK
      <4> QED BY <1>0, <1>8, <2>1, <2>2, <4>1, LostAnswer
    <3>2. Coming(n) /\ posts'[n] = posts[n]
      BY <1>0, <1>8, <2>1, <2>2, <3>1, LostAnswer DEF ToldInv
    <3> QED BY <1>0, <1>8, <2>1, <3>2, LostAnswer DEF Coming
  <2> QED BY <2>2 DEF ToldInv
<1> QED BY <1>1, <1>2, <1>3, <1>4, <1>5, <1>6, <1>7, <1>8 DEF ViewNext

\* What is on the list stays current when the client is told nothing.
LEMMA StaysCurrent ==
    ASSUME ViewInv, [ViewNext]_viewVars, NEW m \in MessageIds, Current(m),
           screen'[m] = screen[m], heard'[m] = heard[m]
    PROVE  Current(m)'
<1>1. RowStep(m) /\ row[m].version \in Nat /\ (row[m].deleted => row[m].version > 0)
  BY RowSteps DEF ViewInv, PostsInv, ViewTypeOK
<1>2. row[m].deleted => row'[m].deleted
  BY <1>1 DEF RowStep
<1> QED BY <1>2 DEF Current

LEMMA ScreenNext == ViewInv /\ [ViewNext]_viewVars => ScreenInv'
<1> SUFFICES ASSUME ViewInv, [ViewNext]_viewVars, fetch' = None,
                    NEW m \in MessageIds \ excused', ChatOf[m] = open', heard'[m] > 0
             PROVE  Current(m)'
  BY HookTypes DEF ScreenInv
<1>0. ServerTypeOK /\ HookTypeOK /\ ListsInv /\ ScreenInv
  BY TypeParts DEF ViewInv
<1>1. CASE UNCHANGED <<fetch, excused, open, screen, heard>>
  <2>1. Current(m)
    BY <1>0, <1>1 DEF ScreenInv
  <2> QED BY <1>1, <2>1, StaysCurrent
<1>2. ASSUME NEW n \in MessageIds, SettlePost(n) PROVE Current(m)'
  <2>1. posts[n] \in Calls /\ posts[n] # None /\ posts[n].phase # "sent" /\ UNCHANGED <<row, open>>
    BY <1>0, <1>2 DEF SettlePost, ServerTypeOK, server
  <2>2. CASE posts[n].phase = "error"
    BY <1>1, <1>2, <2>1, <2>2 DEF SettlePost
  <2>3. CASE posts[n].phase # "error" /\ posts[n].kind = "delete"
    <3>1. /\ heard' = [heard EXCEPT ![n] = row[n].version] /\ screen' = Without(n)
          /\ UNCHANGED <<fetch, excused>>
      BY <1>2, <2>3 DEF SettlePost, SetMessages
    <3>2. screen'[n] = <<>> /\ \A k \in MessageIds : k # n => screen'[k] = screen[k]
      BY <1>0, <3>1 DEF Without, HookTypeOK, Lists
    <3>3. CASE m = n
      <4>1. posts[n].phase = "ok"
        BY <2>1, <2>3 DEF Calls
      <4>2. row[n].deleted /\ n \in Own
        BY <2>1, <2>3, <4>1 DEF ViewInv, PostsInv
      <4> QED BY <2>1, <3>2, <3>3, <4>2 DEF Current
    <3>4. CASE m # n
      <4>1. heard'[m] = heard[m]
        BY <1>0, <3>1, <3>4 DEF ServerTypeOK
      <4>2. Current(m)
        BY <1>0, <2>1, <3>1, <4>1 DEF ScreenInv
      <4> QED BY <3>2, <3>4, <4>1, <4>2, StaysCurrent
    <3> QED BY <3>3, <3>4
  <2>4. CASE posts[n].phase # "error" /\ posts[n].kind # "delete"
    <3>1. fetch' = Asked(posts[n].chat)
      BY <1>2, <2>4 DEF SettlePost
    <3> QED BY <2>1, <3>1, AskedFetch DEF Calls
  <2> QED BY <2>2, <2>3, <2>4
<1>3. ASSUME NEW chat \in Chats, SwitchChat(chat) PROVE Current(m)'
  BY <1>3, AskedFetch DEF SwitchChat
<1>4. CASE DeliverFetch
  <2>1. /\ screen' = fetch.list /\ UNCHANGED <<open, heard>>
        /\ excused' = IF fetch.chat # open THEN MessageIds
                      ELSE {k \in MessageIds : ChatOf[k] = open /\ heard[k] > 0
                              /\ \A i \in DOMAIN fetch.list[k] :
                                   fetch.list[k][i].version < heard[k]}
    BY <1>4 DEF DeliverFetch
  <2>2. PICK i \in DOMAIN fetch.list[m] : ~(fetch.list[m][i].version < heard[m])
    BY <2>1
  <2>3. fetch.list[m][i].version \in Nat /\ heard[m] \in Nat
    <3>1. fetch.list[m] \in Seq(Entries)
      BY <1>0, <1>4 DEF DeliverFetch, HookTypeOK, Fetches, Lists
    <3>2. fetch.list[m][i] \in Entries
      BY <2>2, <3>1, ElementOfSeq
    <3> QED BY <1>0, <3>2 DEF Entries, ServerTypeOK
  <2> QED BY <2>1, <2>2, <2>3 DEF Current
<1>5. CASE FailFetch
  BY <1>5 DEF FailFetch
<1>6. CASE LoseEvent \/ ReceiveEvent
  <2> DEFINE e == Head(channel)
  <2>1. /\ channel # <<>> /\ heard' = HeardOf(e) /\ UNCHANGED <<open, fetch>>
        /\ excused \subseteq excused'
    BY <1>6 DEF LoseEvent, ReceiveEvent, HeardOf
  <2>2. e \in Events /\ e = channel[1] /\ 1 \in DOMAIN channel /\ e.msg \in MessageIds
    BY <1>0, <2>1, FirstEvent
  <2>3. TrueEvent(e) /\ e.version \in Nat /\ heard[e.msg] \in Nat
    BY <1>0, <2>2 DEF ViewInv, EventsInv, Events, ServerTypeOK
  <2>4. CASE m # e.msg
    <3>1. heard'[m] = heard[m]
      BY <1>0, <2>1, <2>2, <2>3, <2>4, HeardEvent
    <3>2. Current(m)
      BY <1>0, <2>1, <3>1 DEF ScreenInv
    <3>3. screen'[m] = screen[m]
      <4>1. UNCHANGED screen \/ screen' = Merge(e.msg, Decode(e))
        BY <1>6 DEF LoseEvent, ReceiveEvent, SetMessages
      <4>2. Merge(e.msg, Decode(e))[m] = screen[m]
        BY <1>0, <2>1, <2>4, Merged
      <4> QED BY <4>1, <4>2
    <3> QED BY <3>1, <3>2, <3>3, StaysCurrent
  <2>5. CASE m = e.msg /\ LoseEvent
    BY <2>5 DEF LoseEvent
  <2>6. CASE m = e.msg /\ ReceiveEvent
    <3>1. ChatOf[e.msg] = open
      BY <2>1, <2>6
    <3>2. /\ screen' = Merge(e.msg, Decode(e))
          /\ excused' = IF \E i \in DOMAIN screen[e.msg] : screen[e.msg][i].version > e.version
                        THEN excused \cup {e.msg} ELSE excused
      BY <2>6, <3>1 DEF ReceiveEvent, SetMessages
    <3>3. \A i \in DOMAIN screen[e.msg] : ~(screen[e.msg][i].version > e.version)
      BY <2>6, <3>2
    <3>5. screen'[e.msg] = <<Decode(e)>>
      BY <1>0, <2>1, <3>2, Merged
    <3> HIDE DEF e
    <3>6. 1 \in DOMAIN screen'[e.msg] /\ screen'[e.msg][1].version = e.version
      BY <3>5 DEF Decode
    <3>7. heard[e.msg] <= e.version
      <4>1. CASE heard[e.msg] = 0
        BY <2>3, <4>1
      <4>2. CASE heard[e.msg] > 0
        <5>1. Current(e.msg) /\ e.msg \notin Own
          BY <1>0, <2>1, <2>3, <2>6, <4>2 DEF ScreenInv, TrueEvent
        <5>2. PICK i \in DOMAIN screen[e.msg] : screen[e.msg][i].version >= heard[e.msg]
          BY <5>1 DEF Current
        <5>3. screen[e.msg][i].version \in Nat
          <6>1. screen[e.msg] \in Seq(Entries)
            BY <1>0, <2>2 DEF HookTypeOK, Lists
          <6>2. screen[e.msg][i] \in Entries
            BY <5>2, <6>1, ElementOfSeq
          <6> QED BY <6>2 DEF Entries
        <5> QED BY <2>3, <3>3, <5>2, <5>3
      <4> QED BY <2>3, <4>1, <4>2
    <3>8. heard'[e.msg] = e.version \/ heard'[e.msg] = heard[e.msg]
      BY <1>0, <2>1, <2>2, <2>3, HeardEvent
    <3>9. screen'[e.msg][1].version >= heard'[e.msg]
      BY <2>3, <3>6, <3>7, <3>8
    <3> QED BY <2>6, <3>6, <3>9 DEF Current
  <2> QED BY <1>6, <2>4, <2>5, <2>6
<1>7. CASE \/ \E n \in MessageIds : PeerCommits(n) \/ ServePost(n)
           \/ \E n \in MessageIds, kind \in {"send", "edit", "delete"} : Post(n, kind)
           \/ \E e \in due : Publish(e)
           \/ \E i \in 1..MaxRuns : FinishDecryption(i)
           \/ Redraw \/ Idle \/ UNCHANGED viewVars
  <2>1. UNCHANGED <<fetch, excused, open, screen, heard>>
    BY <1>7 DEF PeerCommits, ServePost, Post, Publish, FinishDecryption, Redraw, Idle, viewVars,
       history
  <2> QED BY <1>1, <2>1
<1>8. CASE AnswerFetch
  BY <1>0, <1>8, Answered
<1>9. ASSUME NEW n \in MessageIds, LoseAnswer(n) PROVE Current(m)'
  <2>1. heard'[m] = heard[m] /\ m \notin excused /\ UNCHANGED <<screen, fetch, open>>
    BY <1>0, <1>9, LostAnswer
  <2>2. Current(m)
    BY <1>0, <2>1 DEF ScreenInv
  <2> QED BY <2>1, <2>2, StaysCurrent
<1> QED BY <1>2, <1>3, <1>4, <1>5, <1>6, <1>7, <1>8, <1>9 DEF ViewNext

-----------------------------------------------------------------------------
(* The theorems                                                            *)

LEMMA ViewInvInit == ViewInit => ViewInv
<1> SUFFICES ASSUME ViewInit PROVE ViewInv
  OBVIOUS
<1> USE ViewAssumption DEF ViewInit
<1>1. fetch \in Fetches /\ fetch # None /\ fetch.chat = FirstChat /\ fetch.list = NoMessages
  BY AskedFetch
<1>2. ServerTypeOK
  BY DEF ServerTypeOK
<1>3. HookTypeOK
  <2>1. switches \in 0..MaxSwitches /\ lost \in 0..MaxLost /\ failed \in 0..MaxFailed
    OBVIOUS
  <2>2. open \in Chats /\ screen \in Lists /\ excused \subseteq MessageIds /\ crossed \in BOOLEAN
    BY NoMessagesList
  <2> QED BY <1>1, <2>1, <2>2 DEF HookTypeOK
<1>4. RunsTypeOK
  <2>1. Len(runs) <= MaxRuns /\ runs \in Seq(Runs)
    BY EmptySeq
  <2>2. loading \in BOOLEAN /\ overtaken \in BOOLEAN /\ drawn \in Lists
    BY NoMessagesList
  <2> QED BY <2>1, <2>2 DEF RunsTypeOK
<1>5. ViewTypeOK
  BY <1>2, <1>3, <1>4, TypeParts
<1>6. ListsInv
  BY <1>1, NoMessagesList DEF ListsInv
<1>7. EventsInv
  BY DEF EventsInv
<1>8. PostsInv
  BY DEF PostsInv
<1>9. ChatInv
  BY <1>1, NoMessagesList DEF ChatInv, ScreenIsOpenChat
<1>10. ToldInv /\ ScreenInv
  BY <1>1 DEF ToldInv, ScreenInv
<1>11. RunsInv
  BY <1>1 DEF RunsInv, Overtaking
<1> QED BY <1>5, <1>6, <1>7, <1>8, <1>9, <1>10, <1>11 DEF ViewInv

LEMMA ViewInvNext == ViewInv /\ [ViewNext]_viewVars => ViewInv'
<1> SUFFICES ASSUME ViewInv, [ViewNext]_viewVars PROVE ViewInv'
  OBVIOUS
<1>1. ViewTypeOK' /\ ListsInv' /\ EventsInv' /\ PostsInv'
  BY TypeNext, ListsNext, EventsNext, PostsNext
<1>2. ChatInv' /\ ToldInv' /\ ScreenInv' /\ RunsInv'
  BY ChatNext, ToldNext, ScreenNext, RunsNext
<1> QED BY <1>1, <1>2 DEF ViewInv

LEMMA ViewInvariance == ViewSpec => []ViewInv
  BY ViewInvInit, ViewInvNext, PTL DEF ViewSpec

\* The state of the hook, of MessageList and of the rows has its types, and the
\* client is told of no version before its row has it.
THEOREM ViewTypeCorrect == ViewSpec => []ViewTypeOK
<1>1. ViewInv => ViewTypeOK
  BY DEF ViewInv
<1> QED BY <1>1, ViewInvariance, PTL

\* Whatever fetches and events come in whatever order, the list useMessages
\* keeps holds messages of the open chat only, unless the call of a send or an
\* edit was answered after another chat was opened (useMessages.js 83-92).
THEOREM ScreenStaysInChat == ViewSpec => []ScreenIsOpenChat
<1>1. ViewInv => ScreenIsOpenChat
  BY DEF ViewInv, ChatInv
<1> QED BY <1>1, ViewInvariance, PTL

\* A list that no fetch and no event is to change shows each message of its
\* chat once, with its newest version, or not at all when it is deleted.
LEMMA NewestOnList ==
    ASSUME ViewInv, Quiet, NEW m \in MessageIds \ excused
    PROVE  /\ ChatOf[m] = open /\ Live(m) =>
                /\ Len(screen[m]) = 1 /\ ~screen[m][1].blank /\ ~screen[m][1].flag
                /\ screen[m][1].version = row[m].version
           /\ ~(ChatOf[m] = open /\ Live(m)) => \A i \in DOMAIN screen[m] : screen[m][i].blank
<1>1. /\ row[m].version \in Nat /\ heard[m] \in Nat /\ heard[m] <= row[m].version
      /\ row[m].deleted \in BOOLEAN /\ screen[m] \in Seq(Entries)
  BY DEF ViewInv, ViewTypeOK, Lists
<1>2. \A i \in DOMAIN screen[m] : screen[m][i] \in Entries /\ TrueEntry(m, screen[m][i])
  BY <1>1, ElementOfSeq DEF ViewInv, ListsInv, TrueList
<1>3. heard[m] = row[m].version
  <2>1. ~Coming(m)
    BY DEF Quiet, Coming
  <2> QED BY <1>1, <2>1 DEF ViewInv, ToldInv
<1>4. screen[m] # <<>> => ChatOf[m] = open
  BY DEF ViewInv, ChatInv, ScreenIsOpenChat
<1>5. CASE ChatOf[m] = open /\ Live(m)
  <2>1. heard[m] > 0 /\ ~row[m].deleted
    BY <1>3, <1>5 DEF Live
  <2>2. Current(m)
    BY <1>5, <2>1 DEF ViewInv, ScreenInv, Quiet
  <2>3. PICK i \in DOMAIN screen[m] : screen[m][i].version >= heard[m]
    BY <2>1, <2>2 DEF Current
  <2>4. Len(screen[m]) <= 1 /\ screen[m] # <<>>
    BY <2>3 DEF ViewInv, ListsInv, TrueList
  <2>5. DOMAIN screen[m] = {1} /\ Len(screen[m]) = 1
    BY <1>1, <2>4, OneEntry
  <2>6. i = 1 /\ screen[m][1].version \in Nat /\ TrueEntry(m, screen[m][1])
    BY <1>2, <2>3, <2>5 DEF Entries
  <2> QED BY <1>1, <1>3, <1>5, <2>1, <2>3, <2>5, <2>6 DEF TrueEntry
<1>6. CASE ~(ChatOf[m] = open /\ Live(m))
  <2>1. ASSUME NEW i \in DOMAIN screen[m] PROVE screen[m][i].blank
    <3>1. ChatOf[m] = open
      BY <1>1, <1>4, <2>1
    <3>2. screen[m][i].version \in Nat /\ TrueEntry(m, screen[m][i])
      BY <1>2, <2>1 DEF Entries
    <3>3. row[m].version > 0 /\ row[m].deleted
      BY <1>1, <1>6, <3>1, <3>2 DEF Live, TrueEntry
    <3>4. Current(m)
      BY <1>3, <3>1, <3>3 DEF ViewInv, ScreenInv, Quiet
    <3>5. screen[m] # <<>>
      BY <1>1, <2>1
    <3>6. PICK j \in DOMAIN screen[m] : screen[m][j].version >= heard[m]
      BY <3>4, <3>5 DEF Current
    <3>7. DOMAIN screen[m] = {1}
      BY <1>1, <3>5, OneEntry DEF ViewInv, ListsInv, TrueList
    <3>8. i = j
      BY <2>1, <3>6, <3>7
    <3> QED BY <1>1, <1>3, <3>2, <3>3, <3>6, <3>8 DEF TrueEntry
  <2> QED BY <2>1, <1>6
<1> QED BY <1>5, <1>6

\* When nothing is under way the screen shows each message of the open chat once
\* in its newest version and nothing else, whatever was sent, edited, deleted,
\* fetched, decrypted and switched in whatever order, unless an event of the
\* message was lost or overtaken, the answer to the user's call about it was lost
\* (useMessages.js 83-92, 119-135) or the list could not be fetched, and no list
\* read later has come since; or a run of MessageList ended after a later one
\* (MessageList.jsx 325-460).
THEOREM ShowsNewest == ViewSpec => []ShowsNewestWhenQuiet
<1>1. ASSUME ViewInv, Quiet, ~overtaken, NEW m \in MessageIds \ excused
      PROVE  IF ChatOf[m] = open /\ Live(m)
               THEN \E i \in Shown(m) : Shown(m) = {i} /\ drawn[m][i].version = row[m].version
               ELSE Shown(m) = {}
  <2>1. drawn = screen
    BY <1>1 DEF ViewInv, RunsInv, RunsHave, Quiet
  <2>2. CASE ChatOf[m] = open /\ Live(m)
    <3>1. /\ Len(screen[m]) = 1 /\ ~screen[m][1].blank /\ ~screen[m][1].flag
          /\ screen[m][1].version = row[m].version
      BY <1>1, <2>2, NewestOnList
    <3>2. DOMAIN screen[m] = {1}
      BY <3>1 DEF ViewInv, ViewTypeOK, Lists
    <3>3. Shown(m) = {1}
      BY <2>1, <3>1, <3>2 DEF Shown
    <3> QED BY <2>1, <2>2, <3>1, <3>3
  <2>3. CASE ~(ChatOf[m] = open /\ Live(m))
    <3>1. \A i \in DOMAIN screen[m] : screen[m][i].blank
      BY <1>1, <2>3, NewestOnList
    <3> QED BY <2>1, <2>3, <3>1 DEF Shown
  <2> QED BY <2>2, <2>3
<1>2. ViewInv => ShowsNewestWhenQuiet
  BY <1>1 DEF ShowsNewestWhenQuiet
<1> QED BY <1>2, ViewInvariance, PTL
=============================================================================
