---------------------------- MODULE ClientProofs ----------------------------
(***************************************************************************)
(* Proofs about the web client beside its screens: ClientSession, for any  *)
(* calls of httpClient and any bounds, and E2EE, for any browsers, runs of *)
(* publishKeys and messages.  The two share no state.                      *)
(***************************************************************************)
EXTENDS ClientSession, E2EE,
        SequenceTheorems, FiniteSetTheorems, WellFoundedInduction, TLAPS

-----------------------------------------------------------------------------
(* ClientSession: httpClient, AuthContext and grpcClient                   *)

Labels == {"new", "sent", "queued", "refreshing", "settled"}
Conn == [stream : {"none", "open", "broken"}, token : Known,
         userId : Known, timer : BOOLEAN, live : 0..1]

\* isRefreshing goes with one call that refreshes, the queue with the calls
\* that wait; a call that waits has its refresh under way.
RefreshInv ==
    /\ isRefreshing => \E c \in Calls : {d \in Calls : pc[d] = "refreshing"} = {c}
    /\ ~isRefreshing => \A c \in Calls : pc[c] \notin {"refreshing", "queued"}
    /\ IsInjective(failedQueue)
    /\ ToSet(failedQueue) = {c \in Calls : pc[c] = "queued"}

\* A refresh under way has posted a token; unless the session changed
\* meanwhile, it is that of the session in localStorage.
PostedInv ==
    isRefreshing =>
        /\ posted # None
        /\ ~crossed => /\ user = posted
                       /\ store = [access |-> posted, refresh |-> posted, user |-> posted]

\* A stream counts as live while it is open; only a broken one has a timer.
Streams(g) ==
    /\ g \in Conn
    /\ g.live = IF g.stream = "open" THEN 1 ELSE 0
    /\ g.timer => g.stream = "broken"

StreamInv == Streams(conn) /\ (user = None => conn.stream = "none")

ClientInv ==
    /\ TypeOK /\ RefreshInv /\ PostedInv /\ StreamInv
    /\ StorageMatchesUser /\ StreamKeptForUser

\* What of the state is about the session and its stream
SessionTypes ==
    /\ store \in [access : Known, refresh : Known, user : Known]
    /\ user \in Known /\ crossed \in BOOLEAN /\ renewed \in BOOLEAN

SessionInv == SessionTypes /\ PostedInv /\ StreamInv /\ StorageMatchesUser /\ StreamKeptForUser

\* What is about httpClient
HttpTypes ==
    /\ isRefreshing \in BOOLEAN /\ failedQueue \in Seq(Calls) /\ posted \in Known
    /\ retried \subseteq Calls /\ pc \in [Calls -> Labels]

HttpInv == HttpTypes /\ RefreshInv

Counters ==
    /\ logins \in 0..MaxLogins /\ refusals \in 0..MaxRefusals /\ reloads \in 0..MaxReloads
    /\ refused \subseteq Logins

LEMMA Parts ==
    /\ ClientInv <=> SessionInv /\ HttpInv /\ Counters
    /\ ClientInv' <=> SessionInv' /\ HttpInv' /\ Counters'
  BY DEF ClientInv, SessionInv, HttpInv, Counters, SessionTypes, HttpTypes, TypeOK, Labels,
     StreamInv, Streams, Conn

-----------------------------------------------------------------------------
(* The operators of grpcClient                                             *)

LEMMA EmptySession ==
    /\ None \in Known
    /\ NoStore \in [access : Known, refresh : Known, user : Known]
    /\ NoStore.access = None /\ NoStore.refresh = None /\ NoStore.user = None
    /\ Streams(NoConn) /\ NoConn.stream = "none"
  BY DEF Known, NoStore, NoConn, Streams, Conn

\* Whatever the stream was, disconnect leaves none and no timer.
LEMMA DisconnectForm ==
    ASSUME NEW g, Streams(g)
    PROVE  Disconnect(g) = NoConn
<1>1. (IF g.stream = "open" THEN g.live - 1 ELSE g.live) = 0
  BY DEF Streams
<1>2. Disconnect(g) = [NoConn EXCEPT !.live = 0]
  BY <1>1 DEF Disconnect
<1> QED BY <1>2 DEF NoConn

LEMMA StartForm ==
    ASSUME NEW g \in Conn, g.live = 0, ~g.timer
    PROVE  /\ Streams(StartStream(g))
           /\ StartStream(g).stream = "open" /\ ~StartStream(g).timer
           /\ StartStream(g).userId = g.userId /\ StartStream(g).token = g.token
<1>1. StartStream(g) = [g EXCEPT !.stream = "open", !.live = 1]
  <2>1. g.live + 1 = 1
    OBVIOUS
  <2>2. StartStream(g) = [g EXCEPT !.stream = "open", !.live = g.live + 1]
    BY DEF StartStream, Conn
  <2> QED BY <2>1, <2>2
<1>2. StartStream(g) = [stream |-> "open", token |-> g.token, userId |-> g.userId,
                        timer |-> g.timer, live |-> 1]
  BY <1>1 DEF Conn
<1>3. g.token \in Known /\ g.userId \in Known /\ g.timer \in BOOLEAN
  BY DEF Conn
<1>4. StartStream(g) \in Conn
  BY <1>2, <1>3 DEF Conn
<1> QED BY <1>2, <1>4 DEF Streams

\* connect leaves one open stream, of this user and with this token.
LEMMA ConnectForm ==
    ASSUME NEW g, Streams(g), NEW u \in Known, NEW t \in Known
    PROVE  /\ Streams(Connect(g, u, t))
           /\ Connect(g, u, t).stream = "open" /\ ~Connect(g, u, t).timer
           /\ Connect(g, u, t).userId = u /\ Connect(g, u, t).token = t
<1> DEFINE fresh == IF g.stream # "none" THEN Disconnect(g) ELSE g
           set == [fresh EXCEPT !.userId = u, !.token = t]
<1>1. fresh \in Conn /\ fresh.live = 0 /\ ~fresh.timer
  BY DisconnectForm, EmptySession DEF Streams, Conn, NoConn
<1>2. Connect(g, u, t) = StartStream(set)
  BY DEF Connect
<1> HIDE DEF fresh
<1>3. set \in Conn /\ set.live = 0 /\ ~set.timer /\ set.userId = u /\ set.token = t
  BY <1>1 DEF Conn
<1> HIDE DEF set
<1> QED BY <1>2, <1>3, StartForm

\* updateToken sets the token of no stream, or starts the stream again.
LEMMA UpdateTokenForm ==
    ASSUME NEW g, Streams(g), NEW t \in Known, store.user \in Known
    PROVE  /\ Streams(UpdateToken(g, t))
           /\ UpdateToken(g, t).stream = IF g.stream = "none" THEN "none" ELSE "open"
<1> DEFINE told == [g EXCEPT !.token = t]
           next == [NoConn EXCEPT !.userId = store.user]
<1>1. Streams(told) /\ told.stream = g.stream
  BY DEF Streams, Conn
<1>2. UpdateToken(g, t) = IF told.stream = "none" THEN told
                          ELSE StartStream([Disconnect(told) EXCEPT !.userId = store.user])
  BY DEF UpdateToken
<1> HIDE DEF told
<1>3. UpdateToken(g, t) = IF told.stream = "none" THEN told ELSE StartStream(next)
  BY <1>1, <1>2, DisconnectForm
<1>4. next \in Conn /\ next.live = 0 /\ ~next.timer
  BY EmptySession DEF Streams, NoConn, Conn
<1> HIDE DEF next
<1>5. Streams(StartStream(next)) /\ StartStream(next).stream = "open"
  BY <1>4, StartForm
<1> QED BY <1>1, <1>3, <1>5

-----------------------------------------------------------------------------
(* The session: what ends it, renews it or leaves it alone                 *)

LEMMA Initially == Init => ClientInv
<1> SUFFICES ASSUME Init PROVE ClientInv
  OBVIOUS
<1>1. SessionInv
  BY EmptySession DEF Init, SessionInv, SessionTypes, PostedInv, StreamInv, StorageMatchesUser,
     StreamKeptForUser
<1>2. HttpInv
  <2>1. failedQueue \in Seq(Calls) /\ DOMAIN failedQueue = {}
    BY DEF Init
  <2> QED BY <2>1, EmptySession DEF Init, HttpInv, HttpTypes, RefreshInv, Labels, ToSet, IsInjective
<1>3. Counters
  BY ClientAssumption DEF Init, Counters
<1> QED BY <1>1, <1>2, <1>3, Parts

\* A reload shows the session of localStorage, if it is whole.
LEMMA ReloadSession ==
    ASSUME SessionInv, NEW s \in {store, NoStore}, ReloadWith(s), crossed' = crossed
    PROVE  SessionInv'
<1> DEFINE known == s.access # None /\ s.user # None
<1>1. /\ store' = s /\ isRefreshing' = FALSE /\ renewed' = FALSE /\ refused' = refused
      /\ user' = IF known THEN s.user ELSE None
      /\ conn' = IF known THEN Connect(NoConn, s.user, s.access) ELSE NoConn
  BY DEF ReloadWith
<1>2. s \in [access : Known, refresh : Known, user : Known]
  BY EmptySession DEF SessionInv, SessionTypes
<1>3. s.access \in Known /\ s.user \in Known
  BY <1>2
<1>4. SessionTypes'
  BY <1>1, <1>2, <1>3, EmptySession DEF SessionInv, SessionTypes
<1>5. PostedInv'
  BY <1>1 DEF PostedInv
<1>6. /\ Streams(conn')
      /\ known => conn'.stream = "open" /\ conn'.userId = s.user /\ conn'.token = s.access
      /\ ~known => conn'.stream = "none"
  <2>1. CASE known
    <3>1. conn' = Connect(NoConn, s.user, s.access)
      BY <1>1, <2>1
    <3>2. /\ Streams(Connect(NoConn, s.user, s.access))
          /\ Connect(NoConn, s.user, s.access).stream = "open"
          /\ Connect(NoConn, s.user, s.access).userId = s.user
          /\ Connect(NoConn, s.user, s.access).token = s.access
      <4>1. Streams(NoConn)
        BY EmptySession
      <4> HIDE DEF known
      <4> QED BY <1>3, <4>1, ConnectForm
    <3> QED BY <2>1, <3>1, <3>2
  <2>2. CASE ~known
    <3>1. conn' = NoConn
      BY <1>1, <2>2
    <3> QED BY <2>2, <3>1, EmptySession
  <2> QED BY <2>1, <2>2
<1>7. StreamInv'
  BY <1>1, <1>6 DEF StreamInv, Streams
<1>8. CASE crossed
  BY <1>4, <1>5, <1>7, <1>8 DEF SessionInv, StorageMatchesUser, StreamKeptForUser
<1>9. CASE ~crossed
  <2>1. \/ s = NoStore
        \/ s.user # None /\ s = [access |-> s.user, refresh |-> s.user, user |-> s.user]
        \/ s.access = None /\ s.refresh = None /\ s.user \in refused
    <3>1. CASE s = store
      BY <1>9, <3>1 DEF SessionInv, StorageMatchesUser
    <3> QED BY <3>1
  <2>2. StorageMatchesUser'
    BY <1>1, <2>1, EmptySession DEF StorageMatchesUser
  <2>3. StreamKeptForUser'
    BY <1>1, <1>6, <2>1, EmptySession DEF StreamKeptForUser
  <2> QED BY <1>4, <1>5, <1>7, <2>2, <2>3 DEF SessionInv
<1> QED BY <1>8, <1>9

\* Calls settle: they end the session, or leave localStorage as it was or
\* without the tokens of a refresh that was refused.
LEMMA SettleSession ==
    ASSUME SessionInv, NEW S, NEW well, NEW s, Settle(S, well, s),
           refused \subseteq refused',
           \/ s = store
           \/ /\ isRefreshing /\ ~isRefreshing' /\ posted \in refused'
              /\ s = [store EXCEPT !.access = None, !.refresh = None],
           isRefreshing' => /\ isRefreshing /\ posted' = posted
                            /\ \E c \in Calls \ S : pc[c] = "refreshing"
    PROVE  SessionInv'
<1>1. CASE /\ store' = NoStore /\ user' = None /\ conn' = Disconnect(conn)
           /\ crossed' = (crossed \/ \E c \in Calls \ S : pc[c] = "refreshing")
           /\ renewed' = renewed
  <2>1. conn' = NoConn
    BY <1>1, DisconnectForm DEF SessionInv, StreamInv
  <2>2. crossed' \in BOOLEAN /\ (isRefreshing' => crossed')
    BY <1>1 DEF SessionInv, SessionTypes
  <2>3. SessionTypes' /\ StreamInv'
    BY <1>1, <2>1, <2>2, EmptySession DEF SessionInv, SessionTypes, StreamInv, Streams
  <2>4. PostedInv' /\ StorageMatchesUser' /\ StreamKeptForUser'
    BY <1>1, <2>2 DEF SessionInv, PostedInv, StorageMatchesUser, StreamKeptForUser
  <2> QED BY <2>3, <2>4 DEF SessionInv
<1>2. CASE store' = s /\ UNCHANGED <<user, conn, crossed, renewed>>
  <2>1. StreamInv' /\ StreamKeptForUser'
    BY <1>2 DEF SessionInv, StreamInv, Streams, StreamKeptForUser
  <2>2. CASE s = store
    BY <1>2, <2>1, <2>2 DEF SessionInv, SessionTypes, PostedInv, StorageMatchesUser
  <2>3. CASE /\ isRefreshing /\ ~isRefreshing' /\ posted \in refused'
             /\ s = [store EXCEPT !.access = None, !.refresh = None]
    <3>1. /\ s \in [access : Known, refresh : Known, user : Known]
          /\ s.access = None /\ s.refresh = None /\ s.user = store.user
      BY <2>3, EmptySession DEF SessionInv, SessionTypes
    <3>2. ~crossed => store.user = posted /\ user = posted
      BY <2>3 DEF SessionInv, PostedInv
    <3>3. SessionTypes' /\ PostedInv'
      BY <1>2, <2>3, <3>1 DEF SessionInv, SessionTypes, PostedInv
    <3>4. StorageMatchesUser'
      BY <1>2, <2>3, <3>1, <3>2 DEF StorageMatchesUser
    <3> QED BY <2>1, <3>3, <3>4 DEF SessionInv
  <2> QED BY <2>2, <2>3
<1> QED BY <1>1, <1>2 DEF Settle

-----------------------------------------------------------------------------
(* httpClient: its calls and the queue                                     *)

LEMMA ReloadHttp ==
    ASSUME HttpInv, NEW s, ReloadWith(s)
    PROVE  HttpInv'
<1>1. /\ pc' = [c \in Calls |-> IF pc[c] = "new" THEN "new" ELSE "settled"]
      /\ isRefreshing' = FALSE /\ failedQueue' = <<>> /\ posted' = None /\ retried' = {}
  BY DEF ReloadWith
<1>2. failedQueue' \in Seq(Calls) /\ DOMAIN failedQueue' = {}
  BY <1>1
<1>3. HttpTypes'
  BY <1>1, <1>2, EmptySession DEF HttpTypes, Labels
<1>4. \A c \in Calls : pc'[c] \in {"new", "settled"}
  BY <1>1
<1>5. RefreshInv'
  BY <1>1, <1>2, <1>4 DEF RefreshInv, ToSet, IsInjective
<1> QED BY <1>3, <1>5 DEF HttpInv

\* A call outside the queue that does not refresh goes on or settles.
LEMMA CallMoves ==
    ASSUME HttpInv, NEW c \in Calls, pc[c] \in {"new", "sent"},
           NEW label \in {"sent", "settled"},
           pc' = [d \in Calls |-> IF d = c THEN label ELSE pc[d]], UNCHANGED http
    PROVE  HttpInv'
<1>1. UNCHANGED <<isRefreshing, failedQueue, posted, retried>>
  BY DEF http
<1>2. HttpTypes'
  BY <1>1 DEF HttpInv, HttpTypes, Labels
<1>3. \A d \in Calls : \A l \in {"refreshing", "queued"} : pc'[d] = l <=> pc[d] = l
  OBVIOUS
<1>4. /\ {d \in Calls : pc'[d] = "refreshing"} = {d \in Calls : pc[d] = "refreshing"}
      /\ {d \in Calls : pc'[d] = "queued"} = {d \in Calls : pc[d] = "queued"}
  BY <1>3
<1>5. RefreshInv'
  BY <1>1, <1>3, <1>4 DEF HttpInv, RefreshInv
<1> QED BY <1>2, <1>5 DEF HttpInv

LEMMA QueueGrows ==
    ASSUME NEW q \in Seq(Calls), NEW c \in Calls, c \notin ToSet(q), IsInjective(q)
    PROVE  /\ Append(q, c) \in Seq(Calls) /\ IsInjective(Append(q, c))
           /\ ToSet(Append(q, c)) = ToSet(q) \cup {c}
<1>1. /\ Append(q, c) \in Seq(Calls) /\ Len(Append(q, c)) = Len(q) + 1
      /\ \A i \in 1..Len(q) : Append(q, c)[i] = q[i]
      /\ Append(q, c)[Len(q) + 1] = c
  BY AppendProperties
<1>2. Len(q) \in Nat /\ DOMAIN q = 1..Len(q) /\ DOMAIN Append(q, c) = 1..(Len(q) + 1)
  BY <1>1, LenProperties
<1>3. DOMAIN Append(q, c) = DOMAIN q \cup {Len(q) + 1} /\ Len(q) + 1 \notin DOMAIN q
  BY <1>2
<1>4. \A i \in DOMAIN q : Append(q, c)[i] = q[i]
  BY <1>1, <1>2
<1>5. ToSet(Append(q, c)) = ToSet(q) \cup {c}
  BY <1>1, <1>3, <1>4 DEF ToSet
<1>6. IsInjective(Append(q, c))
  BY <1>1, <1>3, <1>4 DEF ToSet, IsInjective
<1> QED BY <1>1, <1>5, <1>6

LEMMA EnqueueHttp ==
    ASSUME HttpInv, NEW c \in Calls, pc[c] = "sent", Enqueue(c)
    PROVE  HttpInv'
<1>1. /\ isRefreshing /\ failedQueue' = Append(failedQueue, c)
      /\ pc' = [pc EXCEPT ![c] = "queued"]
      /\ UNCHANGED <<isRefreshing, posted, retried>>
  BY DEF Enqueue
<1>2. c \notin ToSet(failedQueue)
  BY DEF HttpInv, RefreshInv
<1>3. /\ failedQueue' \in Seq(Calls) /\ IsInjective(failedQueue')
      /\ ToSet(failedQueue') = ToSet(failedQueue) \cup {c}
  BY <1>1, <1>2, QueueGrows DEF HttpInv, HttpTypes, RefreshInv
<1>4. /\ pc' \in [Calls -> Labels] /\ pc'[c] = "queued"
      /\ \A d \in Calls : d # c => pc'[d] = pc[d]
  BY <1>1 DEF HttpInv, HttpTypes, Labels
<1>5. HttpTypes'
  BY <1>1, <1>3, <1>4 DEF HttpInv, HttpTypes
<1>6. /\ {d \in Calls : pc'[d] = "refreshing"} = {d \in Calls : pc[d] = "refreshing"}
      /\ {d \in Calls : pc'[d] = "queued"} = {d \in Calls : pc[d] = "queued"} \cup {c}
  BY <1>4
<1>7. RefreshInv'
  BY <1>1, <1>3, <1>6 DEF HttpInv, RefreshInv
<1> QED BY <1>5, <1>7 DEF HttpInv

LEMMA StartRefreshHttp ==
    ASSUME HttpInv, store.refresh \in Known, NEW c \in Calls, pc[c] = "sent", StartRefresh(c)
    PROVE  HttpInv'
<1>1. /\ ~isRefreshing /\ isRefreshing' = TRUE /\ posted' = store.refresh
      /\ retried' = retried \cup {c} /\ pc' = [pc EXCEPT ![c] = "refreshing"]
      /\ failedQueue' = failedQueue
  BY DEF StartRefresh
<1>2. /\ pc' \in [Calls -> Labels] /\ pc'[c] = "refreshing"
      /\ \A d \in Calls : d # c => pc'[d] = pc[d]
  BY <1>1 DEF HttpInv, HttpTypes, Labels
<1>3. HttpTypes'
  BY <1>1, <1>2 DEF HttpInv, HttpTypes
<1>4. /\ {d \in Calls : pc'[d] = "refreshing"} = {c}
      /\ {d \in Calls : pc'[d] = "queued"} = {d \in Calls : pc[d] = "queued"}
  BY <1>1, <1>2 DEF HttpInv, RefreshInv
<1>5. RefreshInv'
  BY <1>1, <1>4 DEF HttpInv, RefreshInv
<1> QED BY <1>3, <1>5 DEF HttpInv

\* The refresh ends: its call and those that wait for it all go on.
LEMMA RefreshEndsHttp ==
    ASSUME HttpInv, NEW c \in Calls, pc[c] = "refreshing", NEW label \in {"sent", "settled"},
           pc' = [d \in Calls |-> IF d = c \/ d \in ToSet(failedQueue) THEN label ELSE pc[d]],
           failedQueue' = <<>>, isRefreshing' = FALSE, posted' = None, retried' = retried
    PROVE  HttpInv'
<1>1. failedQueue' \in Seq(Calls) /\ DOMAIN failedQueue' = {}
  OBVIOUS
<1>2. HttpTypes'
  BY <1>1, EmptySession DEF HttpInv, HttpTypes, Labels
<1>3. \A d \in Calls : pc[d] = "refreshing" => d = c
  BY DEF HttpInv, RefreshInv
<1>4. \A d \in Calls : pc'[d] \notin {"refreshing", "queued"}
  BY <1>3 DEF HttpInv, RefreshInv
<1>5. RefreshInv'
  BY <1>1, <1>4 DEF RefreshInv, ToSet, IsInjective
<1> QED BY <1>2, <1>5 DEF HttpInv

-----------------------------------------------------------------------------
(* The steps one by one                                                    *)

LEMMA LoginStep ==
    ASSUME ClientInv, Login
    PROVE  ClientInv'
<1> DEFINE n == logins + 1
<1>1. /\ logins < MaxLogins /\ logins' = n /\ user' = n /\ conn' = Connect(conn, n, n)
      /\ store' = [access |-> n, refresh |-> n, user |-> n]
      /\ crossed' = (crossed \/ isRefreshing) /\ renewed' = FALSE
      /\ UNCHANGED <<isRefreshing, failedQueue, posted, retried, pc, refusals, reloads, refused>>
  BY DEF Login, http
<1>2. Counters' /\ n \in Logins /\ n # None
  BY <1>1, Parts, ClientAssumption DEF Counters, Logins
<1>3. n \in Known /\ Streams(conn)
  BY <1>2, Parts DEF Known, SessionInv, StreamInv
<1> HIDE DEF n
<1>4. /\ Streams(Connect(conn, n, n))
      /\ Connect(conn, n, n).stream = "open"
      /\ Connect(conn, n, n).userId = n /\ Connect(conn, n, n).token = n
  BY <1>3, ConnectForm
<1>5. /\ crossed' \in BOOLEAN /\ (isRefreshing' => crossed')
  BY <1>1, Parts DEF SessionInv, SessionTypes
<1>6. SessionTypes' /\ PostedInv'
  BY <1>1, <1>3, <1>5, Parts DEF SessionInv, SessionTypes, PostedInv
<1>7. StreamInv'
  BY <1>1, <1>2, <1>4 DEF StreamInv, Streams
<1>8. StorageMatchesUser' /\ StreamKeptForUser'
  BY <1>1, <1>2, <1>4 DEF StorageMatchesUser, StreamKeptForUser
<1>9. HttpInv'
  BY <1>1, Parts DEF HttpInv, HttpTypes, RefreshInv
<1> QED BY <1>2, <1>6, <1>7, <1>8, <1>9, Parts DEF SessionInv

LEMMA ReloadStep ==
    ASSUME ClientInv, NEW s \in {store, NoStore}, ReloadWith(s), Counters', crossed' = crossed
    PROVE  ClientInv'
  BY Parts, ReloadSession, ReloadHttp

\* A step of the stream alone
LEMMA StreamStep ==
    ASSUME ClientInv, StreamBreaks \/ Reconnect
    PROVE  ClientInv'
<1>1. UNCHANGED <<store, user, isRefreshing, failedQueue, posted, retried, pc, logins,
                  refusals, reloads, refused, crossed, renewed>>
  BY DEF StreamBreaks, Reconnect, http, history
<1>2. HttpInv' /\ Counters' /\ SessionTypes' /\ PostedInv' /\ StorageMatchesUser'
  BY <1>1, Parts DEF HttpInv, HttpTypes, RefreshInv, Counters, SessionInv, SessionTypes,
     PostedInv, StorageMatchesUser
<1>3. StreamInv' /\ StreamKeptForUser' => ClientInv'
  BY <1>2, Parts DEF SessionInv
<1> SUFFICES StreamInv' /\ StreamKeptForUser'
  BY <1>3
<1>4. Streams(conn) /\ (user = None => conn.stream = "none")
  BY Parts DEF SessionInv, StreamInv
<1>5. CASE StreamBreaks
  <2>1. /\ conn.stream = "open" /\ conn.live - 1 = 0
        /\ conn' = [conn EXCEPT !.stream = "broken", !.live = conn.live - 1, !.timer = TRUE]
    BY <1>4, <1>5 DEF StreamBreaks, Streams, Conn
  <2>2. conn' = [stream |-> "broken", token |-> conn.token, userId |-> conn.userId,
                 timer |-> TRUE, live |-> 0]
    BY <1>4, <2>1 DEF Streams, Conn
  <2>3. Streams(conn')
    <3>1. conn.token \in Known /\ conn.userId \in Known
      BY <1>4 DEF Streams, Conn
    <3> QED BY <2>2, <3>1 DEF Streams, Conn
  <2>4. StreamInv'
    BY <1>1, <1>4, <2>1, <2>3 DEF StreamInv, Streams
  <2> QED BY <1>1, <2>2, <2>4, Parts DEF SessionInv, StreamKeptForUser
<1>6. CASE Reconnect
  <2> DEFINE rung == [conn EXCEPT !.timer = FALSE]
  <2>1. /\ conn.timer /\ conn.stream = "broken" /\ user # None
        /\ conn' = IF conn.userId # None /\ conn.token # None
                     THEN StartStream(rung) ELSE rung
    BY <1>4, <1>6 DEF Reconnect, Streams
  <2>2. /\ rung \in Conn /\ rung.live = 0 /\ ~rung.timer /\ rung.stream = "broken"
        /\ rung.userId = conn.userId /\ rung.token = conn.token
    BY <1>4, <2>1 DEF Streams, Conn
  <2> HIDE DEF rung
  <2>3. CASE conn.userId # None /\ conn.token # None
    <3>1. conn' = StartStream(rung)
      BY <2>1, <2>3
    <3>2. /\ Streams(StartStream(rung)) /\ StartStream(rung).stream = "open"
          /\ StartStream(rung).userId = conn.userId /\ StartStream(rung).token = conn.token
      BY <2>2, StartForm
    <3>3. StreamInv'
      BY <1>1, <2>1, <3>1, <3>2 DEF StreamInv, Streams
    <3> QED BY <1>1, <3>1, <3>2, <3>3, Parts DEF SessionInv, StreamKeptForUser
  <2>4. CASE ~(conn.userId # None /\ conn.token # None)
    <3>1. conn' = rung
      BY <2>1, <2>4
    <3>2. StreamInv'
      BY <1>1, <2>1, <2>2, <3>1 DEF StreamInv, Streams
    <3> QED BY <1>1, <2>4, <3>2, Parts DEF SessionInv, StreamKeptForUser
  <2> QED BY <2>3, <2>4
<1> QED BY <1>5, <1>6

LEMMA IssueStep ==
    ASSUME ClientInv, NEW c \in Calls, Issue(c)
    PROVE  ClientInv'
<1>1. /\ pc[c] = "new" /\ pc' = [pc EXCEPT ![c] = "sent"]
      /\ UNCHANGED <<store, user, conn, logins, refusals, reloads, refused, crossed, renewed>>
      /\ UNCHANGED http /\ UNCHANGED <<isRefreshing, posted>>
  BY DEF Issue, http, history
<1>2. pc' = [d \in Calls |-> IF d = c THEN "sent" ELSE pc[d]]
  BY <1>1, Parts DEF HttpInv, HttpTypes
<1>3. HttpInv'
  BY <1>1, <1>2, Parts, CallMoves
<1>4. SessionInv' /\ Counters'
  BY <1>1, Parts DEF SessionInv, SessionTypes, PostedInv, StreamInv, Streams,
     StorageMatchesUser, StreamKeptForUser, Counters
<1> QED BY <1>3, <1>4, Parts

\* A call that was sent settles, and the refresh of another may go on.
LEMMA SettleOne ==
    ASSUME ClientInv, NEW c \in Calls, pc[c] = "sent", NEW well,
           Settle({c}, well, store), UNCHANGED http, UNCHANGED refused, Counters'
    PROVE  ClientInv'
<1>1. /\ pc' = [d \in Calls |-> IF d \in {c} THEN "settled" ELSE pc[d]]
      /\ isRefreshing' = isRefreshing /\ posted' = posted
  BY DEF Settle, http
<1>2. HttpInv'
  <2>1. pc' = [d \in Calls |-> IF d = c THEN "settled" ELSE pc[d]]
    BY <1>1
  <2> QED BY <2>1, Parts, CallMoves
<1>3. isRefreshing => \E d \in Calls \ {c} : pc[d] = "refreshing"
  BY Parts DEF HttpInv, RefreshInv
<1>4. SessionInv'
  BY <1>1, <1>3, Parts, SettleSession
<1> QED BY <1>2, <1>4, Parts

LEMMA AnsweredStep ==
    ASSUME ClientInv, NEW c \in Calls, NEW well \in BOOLEAN, Answered(c, well)
    PROVE  ClientInv'
<1>1. pc[c] = "sent" /\ UNCHANGED <<logins, refused, refusals, reloads>>
  BY DEF Answered, ReloadWith
<1>2. Counters'
  BY <1>1, Parts DEF Counters
<1>3. CASE ReloadWith(NoStore) /\ UNCHANGED crossed
  BY <1>2, <1>3, ReloadStep
<1>4. CASE Settle({c}, well, store) /\ UNCHANGED http
  BY <1>1, <1>2, <1>4, SettleOne
<1> QED BY <1>3, <1>4 DEF Answered

LEMMA UnauthorizedStep ==
    ASSUME ClientInv, NEW c \in Calls, Unauthorized(c)
    PROVE  ClientInv'
<1>1. /\ pc[c] = "sent" /\ refusals < MaxRefusals /\ refusals' = refusals + 1
      /\ UNCHANGED <<logins, reloads, refused>>
  BY DEF Unauthorized, history
<1>2. Counters'
  BY <1>1, Parts, ClientAssumption DEF Counters
<1>3. CASE Settle({c}, FALSE, store) /\ UNCHANGED http
  BY <1>1, <1>2, <1>3, SettleOne
<1>4. CASE /\ Enqueue(c) \/ StartRefresh(c)
           /\ UNCHANGED <<store, user, conn, history>>
  <2>1. HttpInv'
    BY <1>1, <1>4, Parts, EnqueueHttp, StartRefreshHttp DEF SessionInv, SessionTypes
  <2>2. UNCHANGED <<store, user, conn, refused, crossed, renewed>>
    BY <1>4 DEF history
  <2>3. PostedInv'
    <3>1. CASE Enqueue(c)
      BY <2>2, <3>1, Parts DEF Enqueue, SessionInv, PostedInv
    <3>2. CASE StartRefresh(c)
      \* Only a session in order has a refresh token.
      BY <2>2, <3>2, Parts, EmptySession DEF StartRefresh, SessionInv, PostedInv,
         StorageMatchesUser
    <3> QED BY <1>4, <3>1, <3>2
  <2>4. SessionInv'
    BY <2>2, <2>3, Parts DEF SessionInv, SessionTypes, StreamInv, Streams,
       StorageMatchesUser, StreamKeptForUser
  <2> QED BY <1>2, <2>1, <2>4, Parts
<1> QED BY <1>3, <1>4 DEF Unauthorized

LEMMA RefreshSucceedsStep ==
    ASSUME ClientInv, NEW c \in Calls, RefreshSucceeds(c)
    PROVE  ClientInv'
<1>1. /\ pc[c] = "refreshing" /\ isRefreshing' = FALSE /\ posted' = None
      /\ failedQueue' = <<>> /\ retried' = retried
      /\ pc' = [d \in Calls |-> IF d = c \/ d \in ToSet(failedQueue) THEN "sent" ELSE pc[d]]
      /\ store' = [store EXCEPT !.access = posted]
      /\ conn' = UpdateToken(conn, posted)
      /\ renewed' = (renewed \/ conn.stream # "none")
      /\ UNCHANGED <<user, logins, refusals, reloads, refused, crossed>>
  BY DEF RefreshSucceeds
<1>2. isRefreshing
  BY <1>1, Parts DEF HttpInv, RefreshInv
<1>3. HttpInv' /\ Counters'
  BY <1>1, Parts, RefreshEndsHttp DEF Counters
<1>4. posted \in Known /\ store \in [access : Known, refresh : Known, user : Known]
  BY Parts DEF HttpInv, HttpTypes, SessionInv, SessionTypes
<1>5. SessionTypes' /\ PostedInv'
  <2>1. renewed' \in BOOLEAN
    BY <1>1, Parts DEF SessionInv, SessionTypes
  <2> QED BY <1>1, <1>4, <2>1, Parts DEF SessionInv, SessionTypes, PostedInv
<1>6. /\ Streams(conn) /\ (user = None => conn.stream = "none")
      /\ Streams(conn') /\ conn'.stream = IF conn.stream = "none" THEN "none" ELSE "open"
  <2>1. Streams(conn) /\ (user = None => conn.stream = "none")
    BY Parts DEF SessionInv, StreamInv
  <2>2. /\ Streams(UpdateToken(conn, posted))
        /\ UpdateToken(conn, posted).stream = IF conn.stream = "none" THEN "none" ELSE "open"
    BY <1>4, <2>1, UpdateTokenForm
  <2> QED BY <1>1, <2>1, <2>2
<1>7. StreamInv'
  BY <1>1, <1>6 DEF StreamInv, Streams
<1>8. StorageMatchesUser'
  <2>1. CASE crossed
    BY <1>1, <2>1 DEF StorageMatchesUser
  <2>2. CASE ~crossed
    \* The token that arrives is the one localStorage has.
    <3>1. store = [access |-> posted, refresh |-> posted, user |-> posted] /\ user = posted
          /\ posted # None
      BY <1>2, <2>2, Parts DEF SessionInv, PostedInv
    <3> QED BY <1>1, <3>1 DEF StorageMatchesUser
  <2> QED BY <2>1, <2>2
<1>9. StreamKeptForUser'
  <2>1. CASE conn.stream = "none"
    \* A user with no stream has lost it to an earlier refresh.
    BY <1>1, <1>6, <2>1, Parts DEF SessionInv, StreamKeptForUser, Streams
  <2>2. CASE conn.stream # "none"
    BY <1>1, <2>2 DEF StreamKeptForUser
  <2> QED BY <2>1, <2>2
<1> QED BY <1>3, <1>5, <1>7, <1>8, <1>9, Parts DEF SessionInv

LEMMA RefreshFailsStep ==
    ASSUME ClientInv, NEW c \in Calls, RefreshFails(c)
    PROVE  ClientInv'
<1> DEFINE s == [store EXCEPT !.access = None, !.refresh = None]
           S == {c} \cup ToSet(failedQueue)
<1>1. /\ pc[c] = "refreshing" /\ isRefreshing' = FALSE /\ posted' = None
      /\ failedQueue' = <<>> /\ refused' = refused \cup {posted}
      /\ Settle(S, FALSE, s)
      /\ UNCHANGED <<retried, logins, refusals, reloads>>
  BY DEF RefreshFails
<1>2. isRefreshing
  BY <1>1, Parts DEF HttpInv, RefreshInv
<1>3. HttpInv'
  <2>1. pc' = [d \in Calls |-> IF d = c \/ d \in ToSet(failedQueue) THEN "settled" ELSE pc[d]]
    BY <1>1 DEF Settle
  <2> QED BY <1>1, <2>1, Parts, RefreshEndsHttp
<1>4. SessionInv'
  <2> HIDE DEF S
  <2>1. posted \in refused' /\ refused \subseteq refused'
    BY <1>1
  <2> QED BY <1>1, <1>2, <2>1, Parts, SettleSession
<1>5. Counters'
  <2>1. posted \in Logins
    BY <1>2, Parts DEF HttpInv, HttpTypes, Known, SessionInv, PostedInv
  <2> QED BY <1>1, <2>1, Parts DEF Counters
<1> QED BY <1>3, <1>4, <1>5, Parts

-----------------------------------------------------------------------------
(* The theorems                                                            *)

LEMMA ClientNext == ClientInv /\ [Next]_vars => ClientInv'
<1> SUFFICES ASSUME ClientInv, [Next]_vars PROVE ClientInv'
  OBVIOUS
<1>1. ASSUME NEW c \in Calls, Call(c) PROVE ClientInv'
  BY <1>1, IssueStep, AnsweredStep, UnauthorizedStep, RefreshSucceedsStep, RefreshFailsStep
     DEF Call
<1>2. CASE Login \/ StreamBreaks \/ Reconnect
  BY <1>2, LoginStep, StreamStep
<1>3. CASE Reload
  <2>1. /\ reloads < MaxReloads /\ reloads' = reloads + 1 /\ ReloadWith(store)
        /\ UNCHANGED <<refusals, crossed, logins, refused>>
    BY <1>3 DEF Reload, ReloadWith
  <2>2. Counters'
    BY <2>1, Parts, ClientAssumption DEF Counters
  <2> QED BY <2>1, <2>2, ReloadStep
<1>4. CASE UNCHANGED vars
  BY <1>4 DEF vars, http, history, ClientInv, TypeOK, RefreshInv, PostedInv, StreamInv, Streams,
     StorageMatchesUser, StreamKeptForUser
<1> QED BY <1>1, <1>2, <1>3, <1>4 DEF Next

LEMMA ClientInvariant == Spec => []ClientInv
  BY Initially, ClientNext, PTL DEF Spec

\* The variables keep their types; in particular no more than one stream is
\* ever live.
THEOREM TypeCorrect == Spec => []TypeOK
<1>1. ClientInv => TypeOK
  BY DEF ClientInv
<1> QED BY ClientInvariant, <1>1, PTL

\* One refresh at a time, and every call in the queue waits for it
\* (httpClient.js 43-82).
THEOREM OneRefresh == Spec => []OneRefreshForAll
<1>1. ClientInv => OneRefreshForAll
  <2> SUFFICES ASSUME ClientInv PROVE OneRefreshForAll
    OBVIOUS
  <2> DEFINE refreshing == {c \in Calls : pc[c] = "refreshing"}
  <2>1. RefreshInv /\ failedQueue \in Seq(Calls)
    BY DEF ClientInv, TypeOK
  <2>2. CASE isRefreshing
    <3>1. PICK c \in Calls : refreshing = {c}
      BY <2>1, <2>2 DEF RefreshInv
    <3>2. Cardinality(refreshing) = 1
      BY <3>1, FS_Singleton
    <3> QED BY <2>1, <2>2, <3>2 DEF OneRefreshForAll, RefreshInv
  <2>3. CASE ~isRefreshing
    <3>1. refreshing = {} /\ ToSet(failedQueue) = {}
      BY <2>1, <2>3 DEF RefreshInv
    <3>2. Cardinality(refreshing) = 0
      BY <3>1, FS_EmptySet
    <3>3. failedQueue = <<>>
      <4>1. DOMAIN failedQueue = {}
        BY <3>1 DEF ToSet
      <4> QED BY <2>1, <4>1, LenProperties, EmptySeq
    <3> QED BY <2>1, <2>3, <3>2, <3>3 DEF OneRefreshForAll, RefreshInv
  <2> QED BY <2>2, <2>3
<1> QED BY ClientInvariant, <1>1, PTL

\* localStorage and the user shown disagree only after a session changed
\* while a refresh was under way (httpClient.js 64-81, AuthContext.jsx 37-38).
THEOREM StorageAndUser == Spec => []StorageMatchesUser
<1>1. ClientInv => StorageMatchesUser
  BY DEF ClientInv
<1> QED BY ClientInvariant, <1>1, PTL

\* The tab never has two streams, and none without a user
\* (grpcClient.js 43-45, 117-130, 143-152).
THEOREM OneStream == Spec => []OneStreamPerUser
<1>1. ClientInv => OneStreamPerUser
  BY DEF ClientInv, StreamInv, Streams, OneStreamPerUser
<1> QED BY ClientInvariant, <1>1, PTL

\* The stream of a user is open or about to be, unless a refresh restarted it
\* without a token (grpcClient.js 134-141).
THEOREM StreamKept == Spec => []StreamKeptForUser
<1>1. ClientInv => StreamKeptForUser
  BY DEF ClientInv
<1> QED BY ClientInvariant, <1>1, PTL

-----------------------------------------------------------------------------
(* E2EE: publishKeys and the messages that are encrypted                   *)

\* What PublishedKeysAreHeld says of a key
Held(k) == Readable(k) \/ RunIn[k] \in gone \cup overlapped

\* A browser's prekey was made in it, when it had an identity key.
PrekeyInv ==
    /\ \A b \in Browsers : prekey[b] # Nil => RunIn[prekey[b]] = b /\ b \in identity
    /\ \A r \in Runs : stage[r] = "prekey" => RunIn[r] \in identity

\* A run that makes a prekey is alone in a browser without one, unless it is
\* known to overlap another.
Making(r) == stage[r] \in {"identity", "prekey"}

LoneInv ==
    \A r \in Runs : Making(r) /\ RunIn[r] \notin overlapped =>
        /\ prekey[RunIn[r]] = Nil
        /\ \A q \in Runs \ {r} : RunIn[q] = RunIn[r] => ~Running(q)

\* What a run is about to publish, and what is published
PublishInv ==
    \A r \in Runs : stage[r] = "publish" =>
        carried[r] # Nil /\ RunIn[carried[r]] = RunIn[r] /\ Held(carried[r])

RowInv == \A b \in Browsers : row[b] # Nil => RunIn[row[b]] = b /\ Held(row[b])

\* The cached keys are of the peer they are cached for.
CacheInv ==
    \A u \in Users : cache[u] # Nil =>
        UserOf[RunIn[cache[u]]] = u /\ Held(cache[u])

\* The chat whose data ChatPage has is the open one, unless other data came
\* last or the chat's own are on their way.
PageInv == open # Nil /\ ~strayed /\ ~OnItsWay(open) => info = open

\* What has become of a message: whom it is for and what it is encrypted with
ForPeer(s) == s.key # Nil /\ UserOf[RunIn[s.key]] = s.peer

Sound(s) ==
    /\ s.at # "new" => s.chat \in Chats /\ (~s.racing => s.peer = PeerOf[s.chat])
    /\ s.at \in {"new", "encrypt", "fetch"} => s.key = Nil /\ s.tries \in {0, 1}
    /\ s.at \in {"encrypt", "fetch", "bundle", "seal"} => s.peer \in Users
    /\ s.at \in {"bundle", "seal"} => ForPeer(s)
    /\ s.at \in {"post", "posted", "failed"} =>
         ForPeer(s) \/ (s.key = Nil /\ (s.peer = Nil \/ s.tries = 2))
    /\ s.key # Nil => Held(s.key)
    /\ s.own # Nil => Held(s.own)

MessageInv == \A m \in Messages : Sound(msg[m])

CryptoInv ==
    /\ CryptoTypeOK /\ PrekeyInv /\ LoneInv /\ PublishInv /\ RowInv
    /\ CacheInv /\ PageInv /\ MessageInv

\* The half of the state that publishKeys works on, and the half of the page
Stages == {"new", "identity", "prekey", "publish", "done"}

KeyTypes ==
    /\ identity \subseteq Browsers /\ gone \subseteq Browsers /\ overlapped \subseteq Browsers
    /\ prekey \in [Browsers -> Runs \cup {Nil}]
    /\ stage \in [Runs -> Stages]
    /\ carried \in [Runs -> Runs \cup {Nil}]
    /\ row \in [Browsers -> Runs \cup {Nil}]

RowTypes ==
    /\ created \in Seq(Browsers) /\ IsInjective(created)
    /\ \A b \in Browsers : row[b] # Nil <=> b \in ToSet(created)

KeyInv == KeyTypes /\ RowTypes /\ PrekeyInv /\ LoneInv /\ PublishInv /\ RowInv

PageTypes ==
    /\ open \in Chats \cup {Nil} /\ info \in Chats \cup {Nil}
    /\ asked \subseteq Chats \X (0..MaxSwitches)
    /\ switches \in 0..MaxSwitches /\ strayed \in BOOLEAN

SendInv ==
    /\ cache \in [Users -> Runs \cup {Nil}] /\ CacheInv
    /\ msg \in [Messages -> Fates] /\ MessageInv

LEMMA Halves ==
    /\ CryptoInv <=> KeyInv /\ PageTypes /\ PageInv /\ SendInv /\ faults \in 0..MaxFaults
    /\ CryptoInv' <=> /\ KeyInv' /\ PageTypes' /\ PageInv' /\ SendInv'
                      /\ faults' \in 0..MaxFaults
<1>1. CryptoTypeOK <=> /\ KeyTypes /\ RowTypes /\ PageTypes
                       /\ cache \in [Users -> Runs \cup {Nil}] /\ msg \in [Messages -> Fates]
                       /\ faults \in 0..MaxFaults
  BY Zenon DEF CryptoTypeOK, KeyTypes, RowTypes, PageTypes, Stages
<1>2. CryptoTypeOK' <=> /\ KeyTypes' /\ RowTypes' /\ PageTypes'
                        /\ cache' \in [Users -> Runs \cup {Nil}] /\ msg' \in [Messages -> Fates]
                        /\ faults' \in 0..MaxFaults
  BY Zenon DEF CryptoTypeOK, KeyTypes, RowTypes, PageTypes, Stages
<1> QED BY <1>1, <1>2 DEF CryptoInv, KeyInv, SendInv

-----------------------------------------------------------------------------
(* Rows in the order of their creation                                     *)

LEMMA LargestNumber ==
    ASSUME NEW n \in Nat, NEW S \in SUBSET (1..n), S # {}
    PROVE  \E x \in S : \A y \in S : x >= y
<1> DEFINE Above == {n - y : y \in S}
<1>1. Above \in SUBSET Nat /\ Above # {}
  <2>1. \A y \in S : n - y \in Nat
    OBVIOUS
  <2>2. PICK y \in S : TRUE
    OBVIOUS
  <2> QED BY <2>1, <2>2
<1>2. PICK z \in Above : \A w \in Above : ~(<<w, z>> \in OpToRel(<, Nat))
  BY <1>1, WFMin, NatLessThanWellFounded, Zenon
<1>3. ASSUME NEW w \in Above PROVE ~(w < z)
  <2>1. w \in Nat /\ z \in Nat /\ (w < z => <<w, z>> \in OpToRel(<, Nat))
    BY <1>1, Zenon DEF OpToRel
  <2> QED BY <1>2, <2>1, Zenon
<1>4. PICK x \in S : z = n - x
  OBVIOUS
<1>5. ASSUME NEW y \in S PROVE x >= y
  BY <1>3, <1>4
<1> QED BY <1>5

LEMMA AppendBrowser ==
    ASSUME NEW s \in Seq(Browsers), NEW b \in Browsers
    PROVE  /\ Append(s, b) \in Seq(Browsers)
           /\ ToSet(Append(s, b)) = ToSet(s) \cup {b}
           /\ IsInjective(s) /\ b \notin ToSet(s) => IsInjective(Append(s, b))
<1>1. /\ Append(s, b) \in Seq(Browsers) /\ Len(Append(s, b)) = Len(s) + 1
      /\ \A i \in 1..Len(s) : Append(s, b)[i] = s[i]
      /\ Append(s, b)[Len(s) + 1] = b
  BY AppendProperties
<1>2. Len(s) \in Nat /\ DOMAIN s = 1..Len(s) /\ DOMAIN Append(s, b) = 1..(Len(s) + 1)
  BY <1>1, LenProperties
<1>3. DOMAIN Append(s, b) = DOMAIN s \cup {Len(s) + 1} /\ Len(s) + 1 \notin DOMAIN s
  BY <1>2
<1>4. \A i \in DOMAIN s : Append(s, b)[i] = s[i]
  BY <1>1, <1>2
<1>5. ToSet(Append(s, b)) = ToSet(s) \cup {b}
  BY <1>1, <1>3, <1>4 DEF ToSet
<1>6. IsInjective(s) /\ b \notin ToSet(s) => IsInjective(Append(s, b))
  BY <1>1, <1>3, <1>4 DEF ToSet, IsInjective
<1> QED BY <1>1, <1>5, <1>6

\* The bundle a fetch answers with is of the user it was asked for, and held.
LEMMA NewestKeyOf ==
    ASSUME KeyTypes, RowTypes, RowInv, NEW u, RowsOf(u) # {}
    PROVE  NewestKey(u) \in Runs /\ UserOf[RunIn[NewestKey(u)]] = u /\ Held(NewestKey(u))
<1> DEFINE n == Max(RowsOf(u))
<1>1. Len(created) \in Nat /\ DOMAIN created = 1..Len(created)
  BY LenProperties DEF RowTypes
<1>2. n \in RowsOf(u)
  <2>1. RowsOf(u) \in SUBSET (1..Len(created))
    BY <1>1 DEF RowsOf
  <2>2. \E x \in RowsOf(u) : \A y \in RowsOf(u) : x >= y
    BY <1>1, <2>1, LargestNumber, Zenon
  <2> QED BY <2>2 DEF Max
<1>3. n \in DOMAIN created /\ UserOf[created[n]] = u
  BY <1>2 DEF RowsOf
<1> HIDE DEF n
<1>4. created[n] \in Browsers /\ created[n] \in ToSet(created)
  BY <1>1, <1>3, ElementOfSeq DEF RowTypes, ToSet
<1>5. row[created[n]] # Nil
  BY <1>4 DEF RowTypes
<1>6. row[created[n]] \in Runs /\ RunIn[row[created[n]]] = created[n] /\ Held(row[created[n]])
  BY <1>4, <1>5 DEF KeyTypes, RowInv
<1> QED BY <1>3, <1>6 DEF NewestKey, n

-----------------------------------------------------------------------------
(* What a step leaves alone                                                *)

\* No key is lost by a step.
HeldStays == \A k \in Runs : Held(k) => Held(k)'

LEMMA KeyFrame ==
    ASSUME KeyInv, UNCHANGED <<keys, overlapped>>
    PROVE  KeyInv' /\ HeldStays
<1>1. KeyTypes' /\ RowTypes'
  BY DEF KeyInv, KeyTypes, RowTypes, keys
<1>2. PrekeyInv' /\ LoneInv' /\ PublishInv' /\ RowInv'
  BY DEF KeyInv, PrekeyInv, LoneInv, PublishInv, RowInv, Making, Running, Held, Readable, keys
<1>3. HeldStays
  BY DEF HeldStays, Held, Readable, keys
<1> QED BY <1>1, <1>2, <1>3 DEF KeyInv

LEMMA PageFrame ==
    ASSUME PageTypes, PageInv, UNCHANGED page
    PROVE  PageTypes' /\ PageInv'
<1>1. PageTypes'
  BY DEF PageTypes, page
<1>2. PageInv'
  BY DEF PageInv, OnItsWay, page
<1> QED BY <1>1, <1>2

LEMMA SoundStays ==
    ASSUME KeyTypes, HeldStays, NEW s \in Fates, Sound(s)
    PROVE  Sound(s)'
<1>1. s.key \in Runs \cup {Nil} /\ s.own \in Runs \cup {Nil}
  BY DEF Fates
<1>2. (s.key # Nil => Held(s.key)') /\ (s.own # Nil => Held(s.own)')
  BY <1>1 DEF Sound, HeldStays
<1> QED BY <1>2 DEF Sound, ForPeer

\* The cached keys and the messages, while keys are generated and published
LEMMA SendFrame ==
    ASSUME KeyTypes, SendInv, HeldStays, UNCHANGED msg,
           UNCHANGED cache \/ cache' = [u \in Users |-> Nil]
    PROVE  SendInv'
<1>1. MessageInv'
  <2> SUFFICES ASSUME NEW m \in Messages PROVE Sound(msg[m])'
    BY DEF MessageInv
  <2>1. msg[m] \in Fates /\ Sound(msg[m]) /\ msg'[m] = msg[m]
    BY DEF SendInv, MessageInv
  <2>2. PICK s \in Fates : s = msg[m]
    BY <2>1
  <2>3. Sound(s)'
    BY <2>1, <2>2, SoundStays
  <2> QED BY <2>1, <2>2, <2>3 DEF Sound, ForPeer
<1>2. CacheInv' /\ cache' \in [Users -> Runs \cup {Nil}]
  <2>1. CASE cache' = [u \in Users |-> Nil]
    BY <2>1 DEF CacheInv
  <2>2. CASE UNCHANGED cache
    <3>1. cache \in [Users -> Runs \cup {Nil}] /\ CacheInv
      BY DEF SendInv
    <3>2. ASSUME NEW u \in Users, cache'[u] # Nil
          PROVE  UserOf[RunIn[cache'[u]]] = u /\ Held(cache[u])'
      <4>1. PICK k \in Runs : k = cache[u]
        BY <2>2, <3>1, <3>2
      <4>2. UserOf[RunIn[k]] = u /\ Held(k)
        BY <2>2, <3>1, <3>2, <4>1 DEF CacheInv
      <4>3. Held(k)'
        BY <4>2 DEF HeldStays
      <4> QED BY <2>2, <4>1, <4>2, <4>3 DEF Held, Readable
    <3> QED BY <2>2, <3>1, <3>2 DEF CacheInv
  <2> QED BY <2>1, <2>2
<1> QED BY <1>1, <1>2 DEF SendInv

\* A message takes a step while the keys stay as they are.
LEMMA MessageStep ==
    ASSUME KeyInv, SendInv, UNCHANGED <<keys, overlapped>>, UNCHANGED cache,
           NEW m \in Messages, NEW s \in Fates, Sound(s), Set(m, s)
    PROVE  SendInv'
<1>1. HeldStays /\ KeyTypes
  BY KeyFrame DEF KeyInv
<1>2. CacheInv' /\ cache' \in [Users -> Runs \cup {Nil}]
  BY DEF SendInv, CacheInv, Held, Readable, keys
<1>3. msg' = [msg EXCEPT ![m] = s] /\ msg \in [Messages -> Fates]
  BY DEF Set, SendInv
<1>4. msg' \in [Messages -> Fates]
  BY <1>3
<1>5. MessageInv'
  <2> SUFFICES ASSUME NEW x \in Messages PROVE Sound(msg[x])'
    BY DEF MessageInv
  <2>1. PICK t \in Fates : t = msg'[x]
    BY <1>4
  <2>2. Sound(t)
    BY <1>3, <2>1 DEF SendInv, MessageInv
  <2>3. Sound(t)'
    BY <1>1, <2>2, SoundStays
  <2> QED BY <2>1, <2>3 DEF Sound, ForPeer
<1> QED BY <1>2, <1>4, <1>5 DEF SendInv

-----------------------------------------------------------------------------
(* publishKeys                                                             *)

\* What RunIn maps to
LEMMA RunsInBrowsers == \A r \in Runs : RunIn[r] \in Browsers
  BY E2EEAssumption

\* StartPublish, and StoreIdentity when the key pair is there
LEMMA LookUpKeys ==
    ASSUME KeyInv, NEW r \in Runs, LookUpPrekey(r), RunIn[r] \in identity',
           identity \subseteq identity', identity' \subseteq Browsers,
           overlapped \subseteq overlapped', overlapped' \subseteq Browsers,
           UNCHANGED <<prekey, gone, row, created>>,
           prekey[RunIn[r]] = Nil /\ RunIn[r] \notin overlapped' =>
              \A q \in Runs \ {r} : RunIn[q] = RunIn[r] => ~Running(q),
           \A q \in Runs \ {r} : RunIn[q] = RunIn[r] /\ Making(q) =>
              RunIn[r] \in overlapped' \/ Running(r)
    PROVE  KeyInv' /\ HeldStays
<1>1. HeldStays
  BY DEF HeldStays, Held, Readable
<1>2. /\ stage' = [stage EXCEPT ![r] = IF prekey[RunIn[r]] = Nil THEN "prekey" ELSE "publish"]
      /\ carried' = [carried EXCEPT ![r] = prekey[RunIn[r]]]
  BY DEF LookUpPrekey
<1>3. KeyTypes' /\ RowTypes'
  <2>1. prekey[RunIn[r]] \in Runs \cup {Nil}
    BY RunsInBrowsers DEF KeyInv, KeyTypes
  <2> QED BY <1>2, <2>1 DEF KeyInv, KeyTypes, RowTypes, Stages
<1>4. PrekeyInv' /\ RowInv'
  BY <1>1, <1>2 DEF KeyInv, KeyTypes, PrekeyInv, RowInv, Held, Readable
<1>5. LoneInv'
  <2> SUFFICES ASSUME NEW q \in Runs, Making(q)', RunIn[q] \notin overlapped'
               PROVE  /\ prekey[RunIn[q]] = Nil
                      /\ \A p \in Runs \ {q} : RunIn[p] = RunIn[q] => ~Running(p)'
    BY DEF LoneInv
  <2>1. CASE q = r
    BY <1>2, <2>1 DEF KeyInv, KeyTypes, Making, Running
  <2>2. CASE q # r
    <3>1. Making(q) /\ RunIn[q] \notin overlapped
      BY <1>2, <2>2 DEF Making, KeyInv, KeyTypes
    <3>2. /\ prekey[RunIn[q]] = Nil
          /\ \A p \in Runs \ {q} : RunIn[p] = RunIn[q] => ~Running(p)
      BY <3>1 DEF KeyInv, LoneInv
    <3>3. RunIn[r] # RunIn[q]
      BY <2>2, <3>1, <3>2
    <3> QED BY <1>2, <3>2, <3>3 DEF Running, KeyInv, KeyTypes
  <2> QED BY <2>1, <2>2
<1>6. PublishInv'
  <2> SUFFICES ASSUME NEW q \in Runs, stage'[q] = "publish"
               PROVE  carried'[q] # Nil /\ RunIn[carried'[q]] = RunIn[q] /\ Held(carried[q])'
    BY DEF PublishInv
  <2>1. CASE q = r
    <3>1. carried'[q] = prekey[RunIn[r]] /\ prekey[RunIn[r]] # Nil
      BY <1>2, <2>1 DEF KeyInv, KeyTypes
    <3>2. RunIn[prekey[RunIn[r]]] = RunIn[r]
      BY <3>1, RunsInBrowsers DEF KeyInv, PrekeyInv
    <3> QED BY <2>1, <3>1, <3>2 DEF Held, Readable
  <2>2. CASE q # r
    <3>1. stage[q] = "publish" /\ carried'[q] = carried[q]
      BY <1>2, <2>2 DEF KeyInv, KeyTypes
    <3>2. carried[q] # Nil /\ RunIn[carried[q]] = RunIn[q] /\ Held(carried[q])
      BY <3>1 DEF KeyInv, PublishInv
    <3> QED BY <3>1, <3>2 DEF Held, Readable
  <2> QED BY <2>1, <2>2
<1> QED BY <1>1, <1>3, <1>4, <1>5, <1>6 DEF KeyInv

LEMMA KeysStartPublish ==
    ASSUME KeyInv, NEW r \in Runs, StartPublish(r)
    PROVE  KeyInv' /\ HeldStays
<1>1. /\ stage[r] = "new" /\ RunIn[r] \in Browsers
      /\ UNCHANGED <<identity, prekey, gone, row, created>>
      /\ overlapped' = IF prekey[RunIn[r]] = Nil
                            /\ \E q \in Runs : Running(q) /\ RunIn[q] = RunIn[r]
                       THEN overlapped \cup {RunIn[r]} ELSE overlapped
  BY RunsInBrowsers DEF StartPublish
<1>2. /\ overlapped \subseteq overlapped' /\ overlapped' \subseteq Browsers
      /\ identity' \subseteq Browsers
  BY <1>1 DEF KeyInv, KeyTypes
<1>3. \A q \in Runs : RunIn[q] = RunIn[r] /\ Running(q) =>
         RunIn[r] \in overlapped' \/ prekey[RunIn[r]] # Nil
  BY <1>1
<1>4. ASSUME NEW q \in Runs, RunIn[q] = RunIn[r], Making(q)
      PROVE  RunIn[r] \in overlapped'
  <2>1. Running(q)
    BY <1>4 DEF Making, Running
  <2> QED BY <1>2, <1>3, <1>4, <2>1 DEF KeyInv, LoneInv
<1>5. CASE RunIn[r] \in identity
  <2>1. LookUpPrekey(r)
    BY <1>5 DEF StartPublish
  <2> QED BY <1>1, <1>2, <1>3, <1>4, <1>5, <2>1, LookUpKeys
<1>6. CASE RunIn[r] \notin identity
  <2>1. stage' = [stage EXCEPT ![r] = "identity"] /\ UNCHANGED carried
    BY <1>6 DEF StartPublish
  <2>2. prekey[RunIn[r]] = Nil
    BY <1>1, <1>6 DEF KeyInv, PrekeyInv
  <2>3. HeldStays
    BY <1>1, <1>2 DEF HeldStays, Held, Readable
  <2>4. KeyTypes' /\ RowTypes' /\ PrekeyInv'
    BY <1>1, <1>2, <2>1 DEF KeyInv, KeyTypes, RowTypes, PrekeyInv, Stages
  <2>5. RowInv' /\ PublishInv'
    BY <1>1, <1>2, <2>1 DEF KeyInv, KeyTypes, RowInv, PublishInv, Held, Readable
  <2>6. LoneInv'
    <3> SUFFICES ASSUME NEW q \in Runs, Making(q)', RunIn[q] \notin overlapped'
                 PROVE  /\ prekey[RunIn[q]] = Nil
                        /\ \A p \in Runs \ {q} : RunIn[p] = RunIn[q] => ~Running(p)'
      BY <1>1 DEF LoneInv
    <3>1. CASE q = r
      BY <1>3, <2>1, <2>2, <3>1 DEF Running, KeyInv, KeyTypes
    <3>2. CASE q # r
      <4>1. Making(q) /\ RunIn[q] \notin overlapped
        BY <1>2, <2>1, <3>2 DEF Making, KeyInv, KeyTypes
      <4>2. RunIn[r] # RunIn[q]
        BY <1>4, <4>1
      <4>3. /\ prekey[RunIn[q]] = Nil
            /\ \A p \in Runs \ {q} : RunIn[p] = RunIn[q] => ~Running(p)
        BY <4>1 DEF KeyInv, LoneInv
      <4> QED BY <2>1, <4>2, <4>3 DEF Running, KeyInv, KeyTypes
    <3> QED BY <3>1, <3>2
  <2> QED BY <2>3, <2>4, <2>5, <2>6 DEF KeyInv
<1> QED BY <1>5, <1>6

LEMMA KeysStoreIdentity ==
    ASSUME KeyInv, NEW r \in Runs, StoreIdentity(r)
    PROVE  KeyInv' /\ HeldStays
<1>1. /\ LookUpPrekey(r) /\ RunIn[r] \in Browsers /\ identity' = identity \cup {RunIn[r]}
      /\ Making(r) /\ Running(r)
      /\ UNCHANGED <<prekey, gone, row, created, overlapped>>
  BY RunsInBrowsers DEF StoreIdentity, Making, Running
<1>2. /\ identity \subseteq identity' /\ identity' \subseteq Browsers
      /\ overlapped' \subseteq Browsers /\ RunIn[r] \in identity'
  BY <1>1 DEF KeyInv, KeyTypes
<1>3. RunIn[r] \notin overlapped' =>
         \A q \in Runs \ {r} : RunIn[q] = RunIn[r] => ~Running(q)
  BY <1>1 DEF KeyInv, LoneInv
<1> QED BY <1>1, <1>2, <1>3, LookUpKeys

LEMMA KeysStorePrekey ==
    ASSUME KeyInv, NEW r \in Runs, StorePrekey(r)
    PROVE  KeyInv' /\ HeldStays
<1> DEFINE b == RunIn[r]
<1>1. /\ b \in Browsers /\ Making(r) /\ Running(r)
      /\ prekey' = [prekey EXCEPT ![b] = r]
      /\ carried' = [carried EXCEPT ![r] = r]
      /\ stage' = [stage EXCEPT ![r] = "publish"]
      /\ UNCHANGED <<identity, gone, row, created, overlapped>>
  BY RunsInBrowsers DEF StorePrekey, Making, Running
<1>2. /\ \A x \in Browsers : prekey'[x] = IF x = b THEN r ELSE prekey[x]
      /\ \A q \in Runs : carried'[q] = IF q = r THEN r ELSE carried[q]
      /\ \A q \in Runs : stage'[q] = IF q = r THEN "publish" ELSE stage[q]
      /\ r # Nil
  BY <1>1, E2EEAssumption DEF KeyInv, KeyTypes
<1>3. b \notin overlapped =>
         prekey[b] = Nil /\ \A q \in Runs \ {r} : RunIn[q] = b => ~Running(q)
  BY <1>1 DEF KeyInv, LoneInv
<1>4. HeldStays
  <2> SUFFICES ASSUME NEW k \in Runs, Held(k) PROVE Held(k)'
    BY DEF HeldStays
  <2>1. RunIn[k] \in Browsers /\ k # Nil
    BY RunsInBrowsers, E2EEAssumption
  <2>2. CASE RunIn[k] \in gone \cup overlapped
    BY <1>1, <2>2 DEF Held
  <2>3. CASE RunIn[k] \notin gone \cup overlapped
    <3>1. prekey[RunIn[k]] = k
      BY <2>3 DEF Held, Readable
    <3>2. RunIn[k] # b
      BY <1>3, <2>1, <2>3, <3>1
    <3> QED BY <1>2, <2>1, <3>1, <3>2 DEF Held, Readable
  <2> QED BY <2>2, <2>3
<1>5. KeyTypes' /\ RowTypes'
  BY <1>1 DEF KeyInv, KeyTypes, RowTypes, Stages
<1>6. PrekeyInv'
  <2>1. b \in identity
    BY DEF StorePrekey, KeyInv, PrekeyInv
  <2> QED BY <1>1, <1>2, <2>1 DEF KeyInv, PrekeyInv
<1> HIDE DEF b
<1>7. RowInv'
  <2> SUFFICES ASSUME NEW x \in Browsers, row[x] # Nil
               PROVE  RunIn[row[x]] = x /\ Held(row[x])'
    BY <1>1 DEF RowInv
  <2>1. PICK k \in Runs : k = row[x]
    BY DEF KeyInv, KeyTypes
  <2>2. RunIn[k] = x /\ Held(k)
    BY <2>1 DEF KeyInv, RowInv
  <2>3. Held(k)'
    BY <1>4, <2>2 DEF HeldStays
  <2> QED BY <1>1, <2>1, <2>2, <2>3 DEF Held, Readable
<1>8. PublishInv'
  <2> SUFFICES ASSUME NEW q \in Runs, stage'[q] = "publish"
               PROVE  carried'[q] # Nil /\ RunIn[carried'[q]] = RunIn[q] /\ Held(carried[q])'
    BY DEF PublishInv
  <2>1. CASE q = r
    <3>1. carried'[q] = r /\ prekey'[RunIn[r]] = r
      BY <1>1, <1>2, <2>1 DEF b
    <3> QED BY <1>2, <2>1, <3>1 DEF Held, Readable
  <2>2. CASE q # r
    <3>1. stage[q] = "publish" /\ carried'[q] = carried[q]
      BY <1>2, <2>2
    <3>2. carried[q] # Nil /\ RunIn[carried[q]] = RunIn[q] /\ Held(carried[q])
      BY <3>1 DEF KeyInv, PublishInv
    <3>3. PICK k \in Runs : k = carried[q]
      BY <3>2 DEF KeyInv, KeyTypes
    <3>4. Held(k)'
      BY <1>4, <3>2, <3>3 DEF HeldStays
    <3> QED BY <3>1, <3>2, <3>3, <3>4 DEF Held, Readable
  <2> QED BY <2>1, <2>2
<1>9. LoneInv'
  <2> SUFFICES ASSUME NEW q \in Runs, Making(q)', RunIn[q] \notin overlapped
               PROVE  /\ prekey'[RunIn[q]] = Nil
                      /\ \A p \in Runs \ {q} : RunIn[p] = RunIn[q] => ~Running(p)'
    BY <1>1 DEF LoneInv
  <2>1. q # r /\ Making(q) /\ Running(q)
    BY <1>2 DEF Making, Running
  <2>2. RunIn[q] # b /\ RunIn[q] \in Browsers
    BY <1>3, <2>1, RunsInBrowsers
  <2>3. /\ prekey[RunIn[q]] = Nil
        /\ \A p \in Runs \ {q} : RunIn[p] = RunIn[q] => ~Running(p)
    BY <2>1 DEF KeyInv, LoneInv
  <2> QED BY <1>2, <2>2, <2>3 DEF Running, b
<1> QED BY <1>4, <1>5, <1>6, <1>7, <1>8, <1>9 DEF KeyInv

LEMMA KeysPublish ==
    ASSUME KeyInv, NEW r \in Runs, Publish(r)
    PROVE  KeyInv' /\ HeldStays
<1> DEFINE b == RunIn[r]
<1>1. /\ b \in Browsers /\ stage[r] = "publish"
      /\ stage' = [stage EXCEPT ![r] = "done"]
      /\ UNCHANGED <<identity, prekey, gone, carried, overlapped>>
      /\ \/ /\ row' = [row EXCEPT ![b] = carried[r]]
            /\ created' = IF row[b] = Nil THEN Append(created, b) ELSE created
         \/ UNCHANGED <<row, created>>
  BY RunsInBrowsers DEF Publish
<1>2. carried[r] \in Runs /\ RunIn[carried[r]] = b /\ Held(carried[r]) /\ carried[r] # Nil
  BY <1>1 DEF KeyInv, KeyTypes, PublishInv
<1> HIDE DEF b
<1>3. HeldStays
  BY <1>1 DEF HeldStays, Held, Readable
<1>4. KeyTypes'
  BY <1>1, <1>2 DEF KeyInv, KeyTypes, Stages
<1>5. RowTypes'
  <2>1. CASE UNCHANGED <<row, created>>
    BY <2>1 DEF KeyInv, RowTypes
  <2>2. CASE /\ row' = [row EXCEPT ![b] = carried[r]]
             /\ created' = IF row[b] = Nil THEN Append(created, b) ELSE created
    <3>1. created \in Seq(Browsers) /\ IsInjective(created)
      BY DEF KeyInv, RowTypes
    <3>2. \A x \in Browsers : row'[x] = IF x = b THEN carried[r] ELSE row[x]
      BY <2>2 DEF KeyInv, KeyTypes
    <3>3. \A x \in Browsers : row[x] # Nil <=> x \in ToSet(created)
      BY DEF KeyInv, RowTypes
    <3>4. CASE row[b] = Nil
      <4>1. created' = Append(created, b) /\ b \notin ToSet(created)
        BY <1>1, <2>2, <3>3, <3>4
      <4>2. /\ created' \in Seq(Browsers) /\ IsInjective(created')
            /\ ToSet(created') = ToSet(created) \cup {b}
        BY <1>1, <3>1, <4>1, AppendBrowser
      <4> QED BY <1>2, <3>2, <3>3, <4>2 DEF RowTypes
    <3>5. CASE row[b] # Nil
      BY <1>2, <2>2, <3>1, <3>2, <3>3, <3>5 DEF RowTypes
    <3> QED BY <3>4, <3>5
  <2> QED BY <1>1, <2>1, <2>2
<1>6. PrekeyInv' /\ LoneInv' /\ PublishInv'
  <2>1. PrekeyInv'
    BY <1>1 DEF KeyInv, KeyTypes, PrekeyInv
  <2>2. PublishInv'
    BY <1>1 DEF KeyInv, KeyTypes, PublishInv, Held, Readable
  <2>3. LoneInv'
    BY <1>1 DEF KeyInv, KeyTypes, LoneInv, Making, Running
  <2> QED BY <2>1, <2>2, <2>3
<1>7. RowInv'
  <2> SUFFICES ASSUME NEW x \in Browsers, row'[x] # Nil
               PROVE  RunIn[row'[x]] = x /\ Held(row[x])'
    BY DEF RowInv
  <2>1. row'[x] = row[x] \/ (x = b /\ row'[x] = carried[r])
    BY <1>1 DEF KeyInv, KeyTypes
  <2>2. row[x] # Nil => RunIn[row[x]] = x /\ Held(row[x])
    BY DEF KeyInv, RowInv
  <2> QED BY <1>1, <1>2, <2>1, <2>2 DEF Held, Readable
<1> QED BY <1>3, <1>4, <1>5, <1>6, <1>7 DEF KeyInv

LEMMA KeysClearStorage ==
    ASSUME KeyInv, NEW b \in Browsers, ClearStorage(b)
    PROVE  KeyInv' /\ HeldStays
<1>1. /\ \A r \in Runs : RunIn[r] = b => ~Running(r)
      /\ gone' = gone \cup {b} /\ identity' = identity \ {b}
      /\ prekey' = [prekey EXCEPT ![b] = Nil]
      /\ UNCHANGED <<stage, carried, row, created, overlapped>>
  BY DEF ClearStorage
<1>2. \A x \in Browsers : prekey'[x] = IF x = b THEN Nil ELSE prekey[x]
  BY <1>1 DEF KeyInv, KeyTypes
<1>3. HeldStays
  <2> SUFFICES ASSUME NEW k \in Runs, Held(k) PROVE Held(k)'
    BY DEF HeldStays
  <2>1. CASE RunIn[k] = b
    BY <1>1, <2>1 DEF Held
  <2>2. CASE RunIn[k] # b
    BY <1>1, <1>2, <2>2, RunsInBrowsers DEF Held, Readable
  <2> QED BY <2>1, <2>2
<1>4. KeyTypes' /\ RowTypes' /\ PrekeyInv'
  BY <1>1, <1>2 DEF KeyInv, KeyTypes, RowTypes, PrekeyInv, Running
<1>5. PublishInv'
  <2> SUFFICES ASSUME NEW q \in Runs, stage[q] = "publish"
               PROVE  carried[q] # Nil /\ RunIn[carried[q]] = RunIn[q] /\ Held(carried[q])'
    BY <1>1 DEF PublishInv
  <2>1. carried[q] # Nil /\ RunIn[carried[q]] = RunIn[q] /\ Held(carried[q])
    BY DEF KeyInv, PublishInv
  <2>2. PICK k \in Runs : k = carried[q]
    BY <2>1 DEF KeyInv, KeyTypes
  <2>3. Held(k)'
    BY <1>3, <2>1, <2>2 DEF HeldStays
  <2> QED BY <1>1, <2>1, <2>2, <2>3 DEF Held, Readable
<1>6. RowInv'
  <2> SUFFICES ASSUME NEW x \in Browsers, row[x] # Nil
               PROVE  RunIn[row[x]] = x /\ Held(row[x])'
    BY <1>1 DEF RowInv
  <2>1. PICK k \in Runs : k = row[x]
    BY DEF KeyInv, KeyTypes
  <2>2. RunIn[k] = x /\ Held(k)
    BY <2>1 DEF KeyInv, RowInv
  <2>3. Held(k)'
    BY <1>3, <2>2 DEF HeldStays
  <2> QED BY <1>1, <2>1, <2>2, <2>3 DEF Held, Readable
<1>7. LoneInv'
  <2> SUFFICES ASSUME NEW q \in Runs, Making(q), RunIn[q] \notin overlapped
               PROVE  /\ prekey'[RunIn[q]] = Nil
                      /\ \A p \in Runs \ {q} : RunIn[p] = RunIn[q] => ~Running(p)
    BY <1>1 DEF LoneInv, Making, Running
  <2>1. /\ prekey[RunIn[q]] = Nil
        /\ \A p \in Runs \ {q} : RunIn[p] = RunIn[q] => ~Running(p)
    BY DEF KeyInv, LoneInv
  <2> QED BY <1>2, <2>1, RunsInBrowsers
<1> QED BY <1>3, <1>4, <1>5, <1>6, <1>7 DEF KeyInv

-----------------------------------------------------------------------------
(* The page and its messages                                               *)

LEMMA PageMount ==
    ASSUME PageTypes, PageInv, NEW b, Mount(b)
    PROVE  PageTypes' /\ PageInv' /\ (UNCHANGED cache \/ cache' = [u \in Users |-> Nil])
<1>1. CASE b # Mine
  <2>1. UNCHANGED <<page, cache>>
    BY <1>1 DEF Mount
  <2> QED BY <2>1, PageFrame
<1>2. CASE b = Mine
  <2>1. /\ open' \in Chats /\ info' = Nil /\ asked' = {<<open', switches>>}
        /\ cache' = [u \in Users |-> Nil] /\ strayed' = FALSE /\ switches' = switches
    BY <1>2 DEF Mount
  <2>2. PageTypes'
    <3>1. <<open', switches>> \in Chats \X (0..MaxSwitches) /\ switches \in 0..MaxSwitches
      BY <2>1 DEF PageTypes
    <3> QED BY <2>1, <3>1 DEF PageTypes
  <2>3. PageInv'
    BY <2>1 DEF PageInv, OnItsWay, PageTypes
  <2> QED BY <2>1, <2>2, <2>3
<1> QED BY <1>1, <1>2

LEMMA PageSwitchChat ==
    ASSUME PageTypes, PageInv, NEW chat \in Chats, SwitchChat(chat)
    PROVE  PageTypes' /\ PageInv'
<1>1. /\ switches < MaxSwitches /\ switches' = switches + 1 /\ open' = chat
      /\ asked' = asked \cup {<<chat, switches'>>} /\ UNCHANGED <<info, strayed>>
  BY DEF SwitchChat
<1>2. switches' \in 0..MaxSwitches
  BY <1>1, E2EEAssumption DEF PageTypes
<1>3. PageTypes'
  BY <1>1, <1>2 DEF PageTypes
<1>4. OnItsWay(open)'
  BY <1>1, <1>2 DEF OnItsWay
<1> QED BY <1>3, <1>4 DEF PageInv

LEMMA PageReceiveChat ==
    ASSUME PageTypes, NEW q \in asked, ReceiveChat(q)
    PROVE  PageTypes' /\ PageInv'
<1>1. /\ asked' = asked \ {q} /\ info' \in {info, q[1]} /\ strayed' = (info' # open)
      /\ UNCHANGED <<open, switches>>
  BY DEF ReceiveChat
<1>2. q[1] \in Chats
  BY DEF PageTypes
<1> QED BY <1>1, <1>2 DEF PageTypes, PageInv

\* The fields of a message, one by one
LEMMA FateFields ==
    ASSUME NEW s \in Fates
    PROVE  /\ s.at \in {"new", "encrypt", "fetch", "bundle", "seal", "post", "posted", "failed"}
           /\ s.chat \in Chats \cup {Nil} /\ s.peer \in Users \cup {Nil} /\ s.racing \in BOOLEAN
           /\ s.key \in Runs \cup {Nil} /\ s.own \in Runs \cup {Nil} /\ s.tries \in 0..2
  BY DEF Fates

LEMMA MessageSend ==
    ASSUME KeyInv, PageTypes, PageInv, SendInv, NEW m \in Messages, Send(m)
    PROVE  SendInv'
<1> DEFINE peer == IF info = Nil THEN Nil ELSE PeerOf[info]
           s == [msg[m] EXCEPT !.chat = open, !.peer = peer,
                   !.racing = strayed \/ OnItsWay(open),
                   !.at = IF peer = Nil THEN "post" ELSE "encrypt"]
<1>1. /\ msg[m].at = "new" /\ open # Nil /\ Set(m, s)
      /\ UNCHANGED <<keys, overlapped>> /\ UNCHANGED cache
  BY DEF Send
<1>2. msg[m] \in Fates /\ Sound(msg[m])
  BY DEF SendInv, MessageInv
<1>3. msg[m].key = Nil /\ msg[m].tries \in {0, 1} /\ (msg[m].own # Nil => Held(msg[m].own))
  BY <1>1, <1>2 DEF Sound
<1>4. peer \in Users \cup {Nil} /\ open \in Chats
  BY <1>1, E2EEAssumption DEF PageTypes
<1>5. strayed \/ OnItsWay(open) \/ peer = PeerOf[open]
  BY <1>1, E2EEAssumption DEF PageInv, PageTypes
<1>6. strayed \/ OnItsWay(open) \in BOOLEAN
  BY DEF PageTypes, OnItsWay
<1> HIDE DEF peer
<1>7. /\ s.at = (IF peer = Nil THEN "post" ELSE "encrypt") /\ s.chat = open /\ s.peer = peer
      /\ s.racing = (strayed \/ OnItsWay(open))
      /\ s.key = Nil /\ s.own = msg[m].own /\ s.tries = msg[m].tries
  BY <1>2, <1>3 DEF Fates
<1>8. s \in Fates
  BY <1>2, <1>4, <1>6 DEF Fates
<1> HIDE DEF s
<1>9. Sound(s)
  BY <1>3, <1>4, <1>5, <1>7 DEF Sound, ForPeer
<1> QED BY <1>1, <1>8, <1>9, MessageStep

LEMMA MessageReadCache ==
    ASSUME KeyInv, SendInv, NEW m \in Messages, ReadCache(m)
    PROVE  SendInv'
<1> DEFINE key == cache[msg[m].peer]
           s == [msg[m] EXCEPT !.key = key, !.at = IF key = Nil THEN "fetch" ELSE "seal"]
<1>1. /\ msg[m].at = "encrypt" /\ Set(m, s)
      /\ UNCHANGED <<keys, overlapped>> /\ UNCHANGED cache
  BY DEF ReadCache
<1>2. msg[m] \in Fates /\ Sound(msg[m])
  BY DEF SendInv, MessageInv
<1>3. /\ msg[m].chat \in Chats /\ (~msg[m].racing => msg[m].peer = PeerOf[msg[m].chat])
      /\ msg[m].tries \in {0, 1} /\ msg[m].peer \in Users
      /\ (msg[m].own # Nil => Held(msg[m].own))
  BY <1>1, <1>2 DEF Sound
<1>4. /\ key \in Runs \cup {Nil}
      /\ key # Nil => UserOf[RunIn[key]] = msg[m].peer /\ Held(key)
  BY <1>3 DEF SendInv, CacheInv
<1> HIDE DEF key
<1>5. /\ s.at = (IF key = Nil THEN "fetch" ELSE "seal") /\ s.chat = msg[m].chat
      /\ s.peer = msg[m].peer /\ s.racing = msg[m].racing
      /\ s.key = key /\ s.own = msg[m].own /\ s.tries = msg[m].tries
  BY <1>2 DEF Fates
<1>6. s \in Fates
  BY <1>2, <1>4 DEF Fates
<1> HIDE DEF s
<1>7. Sound(s)
  BY <1>3, <1>4, <1>5 DEF Sound, ForPeer
<1> QED BY <1>1, <1>6, <1>7, MessageStep

LEMMA MessageFetchBundle ==
    ASSUME KeyInv, SendInv, NEW m \in Messages, FetchBundle(m)
    PROVE  SendInv'
<1>1. msg[m].at = "fetch" /\ UNCHANGED <<keys, overlapped>> /\ UNCHANGED cache
  BY DEF FetchBundle
<1>2. msg[m] \in Fates /\ Sound(msg[m])
  BY DEF SendInv, MessageInv
<1>3. /\ msg[m].chat \in Chats /\ (~msg[m].racing => msg[m].peer = PeerOf[msg[m].chat])
      /\ msg[m].key = Nil /\ msg[m].tries \in {0, 1} /\ msg[m].peer \in Users
      /\ (msg[m].own # Nil => Held(msg[m].own))
  BY <1>1, <1>2 DEF Sound
<1>4. CASE /\ RowsOf(msg[m].peer) # {}
           /\ Set(m, [msg[m] EXCEPT !.key = NewestKey(msg[m].peer), !.at = "bundle"])
  <2> DEFINE key == NewestKey(msg[m].peer)
             s == [msg[m] EXCEPT !.key = key, !.at = "bundle"]
  <2>1. key \in Runs /\ UserOf[RunIn[key]] = msg[m].peer /\ Held(key) /\ key # Nil
    BY <1>4, NewestKeyOf, E2EEAssumption DEF KeyInv
  <2> HIDE DEF key
  <2>2. /\ s.at = "bundle" /\ s.chat = msg[m].chat /\ s.peer = msg[m].peer
        /\ s.racing = msg[m].racing
        /\ s.key = key /\ s.own = msg[m].own /\ s.tries = msg[m].tries
    BY <1>2 DEF Fates
  <2>3. s \in Fates
    BY <1>2, <2>1 DEF Fates
  <2>4. Set(m, s)
    BY <1>4 DEF key
  <2> HIDE DEF s
  <2>5. Sound(s)
    BY <1>3, <2>1, <2>2 DEF Sound, ForPeer
  <2> QED BY <1>1, <2>3, <2>4, <2>5, MessageStep
<1>5. CASE Set(m, [msg[m] EXCEPT !.tries = @ + 1,
                     !.at = IF msg[m].tries = 0 THEN "fetch" ELSE "post"])
  <2> DEFINE s == [msg[m] EXCEPT !.tries = @ + 1,
                     !.at = IF msg[m].tries = 0 THEN "fetch" ELSE "post"]
  <2>1. /\ s.at = (IF msg[m].tries = 0 THEN "fetch" ELSE "post") /\ s.chat = msg[m].chat
        /\ s.peer = msg[m].peer /\ s.racing = msg[m].racing
        /\ s.key = msg[m].key /\ s.own = msg[m].own /\ s.tries = msg[m].tries + 1
    BY <1>2 DEF Fates
  <2>2. s \in Fates
    <3>1. msg[m].tries + 1 \in 0..2 /\ (IF msg[m].tries = 0 THEN "fetch" ELSE "post")
             \in {"fetch", "post"}
      BY <1>3
    <3> QED BY <1>2, <3>1 DEF Fates
  <2>3. Set(m, s)
    BY <1>5
  <2> HIDE DEF s
  <2>4. Sound(s)
    BY <1>3, <2>1 DEF Sound, ForPeer
  <2> QED BY <1>1, <2>2, <2>3, <2>4, MessageStep
<1> QED BY <1>4, <1>5 DEF FetchBundle

LEMMA MessageCacheBundle ==
    ASSUME KeyInv, SendInv, NEW m \in Messages, CacheBundle(m)
    PROVE  SendInv'
<1> DEFINE s == [msg[m] EXCEPT !.at = "seal"]
           filled == [cache EXCEPT ![msg[m].peer] = msg[m].key]
<1>1. /\ msg[m].at = "bundle" /\ Set(m, s) /\ cache' = filled
      /\ UNCHANGED <<keys, overlapped>>
  BY DEF CacheBundle
<1>2. msg[m] \in Fates /\ Sound(msg[m])
  BY DEF SendInv, MessageInv
<1>3. /\ msg[m].chat \in Chats /\ (~msg[m].racing => msg[m].peer = PeerOf[msg[m].chat])
      /\ ForPeer(msg[m]) /\ msg[m].peer \in Users /\ Held(msg[m].key)
      /\ (msg[m].own # Nil => Held(msg[m].own))
  BY <1>1, <1>2 DEF Sound, ForPeer
<1>4. /\ s.at = "seal" /\ s.chat = msg[m].chat /\ s.peer = msg[m].peer
      /\ s.racing = msg[m].racing
      /\ s.key = msg[m].key /\ s.own = msg[m].own /\ s.tries = msg[m].tries
  BY <1>2 DEF Fates
<1>5. s \in Fates
  BY <1>2 DEF Fates
<1> HIDE DEF s
<1>6. Sound(s)
  BY <1>3, <1>4 DEF Sound, ForPeer
<1>7. /\ filled \in [Users -> Runs \cup {Nil}]
      /\ \A u \in Users : filled[u] # Nil => UserOf[RunIn[filled[u]]] = u /\ Held(filled[u])
  <2>1. cache \in [Users -> Runs \cup {Nil}] /\ msg[m].key \in Runs \cup {Nil}
    BY <1>2, FateFields DEF SendInv
  <2> QED BY <1>3, <2>1 DEF ForPeer, SendInv, CacheInv
<1> HIDE DEF filled
<1>8. CacheInv' /\ cache' \in [Users -> Runs \cup {Nil}]
  BY <1>1, <1>7 DEF CacheInv, Held, Readable, keys
<1>9. msg' \in [Messages -> Fates] /\ MessageInv'
  <2>1. HeldStays /\ KeyTypes
    BY <1>1, KeyFrame DEF KeyInv
  <2>2. msg' \in [Messages -> Fates] /\ \A x \in Messages : Sound(msg'[x])
    BY <1>1, <1>5, <1>6 DEF Set, SendInv, MessageInv
  <2>3. ASSUME NEW x \in Messages PROVE Sound(msg[x])'
    <3>1. PICK t \in Fates : t = msg'[x]
      BY <2>2
    <3>2. Sound(t)'
      BY <2>1, <2>2, <3>1, SoundStays
    <3> QED BY <3>1, <3>2 DEF Sound, ForPeer
  <2> QED BY <2>2, <2>3 DEF MessageInv
<1> QED BY <1>8, <1>9 DEF SendInv

LEMMA MessageSealOwnCopy ==
    ASSUME KeyInv, SendInv, NEW m \in Messages, SealOwnCopy(m)
    PROVE  SendInv'
<1> DEFINE s == [msg[m] EXCEPT !.own = prekey[Mine], !.at = "post"]
<1>1. /\ msg[m].at = "seal" /\ Set(m, s)
      /\ UNCHANGED <<keys, overlapped>> /\ UNCHANGED cache
  BY DEF SealOwnCopy
<1>2. msg[m] \in Fates /\ Sound(msg[m])
  BY DEF SendInv, MessageInv
<1>3. /\ msg[m].chat \in Chats /\ (~msg[m].racing => msg[m].peer = PeerOf[msg[m].chat])
      /\ ForPeer(msg[m]) /\ Held(msg[m].key)
  BY <1>1, <1>2 DEF Sound, ForPeer
<1>4. prekey[Mine] \in Runs \cup {Nil} /\ (prekey[Mine] # Nil => Held(prekey[Mine]))
  BY E2EEAssumption DEF KeyInv, KeyTypes, PrekeyInv, Held, Readable
<1>5. /\ s.at = "post" /\ s.chat = msg[m].chat /\ s.peer = msg[m].peer
      /\ s.racing = msg[m].racing
      /\ s.key = msg[m].key /\ s.own = prekey[Mine] /\ s.tries = msg[m].tries
  BY <1>2 DEF Fates
<1>6. s \in Fates
  BY <1>2, <1>4 DEF Fates
<1> HIDE DEF s
<1>7. Sound(s)
  BY <1>3, <1>4, <1>5 DEF Sound, ForPeer
<1> QED BY <1>1, <1>6, <1>7, MessageStep

LEMMA MessagePost ==
    ASSUME KeyInv, SendInv, NEW m \in Messages, PostMessage(m)
    PROVE  SendInv'
<1>1. /\ msg[m].at = "post" /\ UNCHANGED <<keys, overlapped>> /\ UNCHANGED cache
      /\ \E to \in {"posted", "failed"} : Set(m, [msg[m] EXCEPT !.at = to])
  BY DEF PostMessage
<1>2. msg[m] \in Fates /\ Sound(msg[m])
  BY DEF SendInv, MessageInv
<1>3. PICK to \in {"posted", "failed"} : Set(m, [msg[m] EXCEPT !.at = to])
  BY <1>1
<1> DEFINE s == [msg[m] EXCEPT !.at = to]
<1>4. /\ s.at = to /\ s.chat = msg[m].chat /\ s.peer = msg[m].peer
      /\ s.racing = msg[m].racing
      /\ s.key = msg[m].key /\ s.own = msg[m].own /\ s.tries = msg[m].tries
  BY <1>2 DEF Fates
<1>5. s \in Fates
  BY <1>2 DEF Fates
<1>6. Set(m, s)
  BY <1>3
<1> HIDE DEF s
<1>7. Sound(s)
  BY <1>1, <1>2, <1>4 DEF Sound, ForPeer
<1> QED BY <1>1, <1>5, <1>6, <1>7, MessageStep

-----------------------------------------------------------------------------
(* The invariant and the theorems                                          *)

LEMMA CryptoInit_Inv == CryptoInit => CryptoInv
<1> SUFFICES ASSUME CryptoInit PROVE CryptoInv
  OBVIOUS
<1>1. KeyInv
  <2>1. KeyTypes
    BY DEF CryptoInit, KeyTypes, Stages
  <2>2. RowTypes
    <3>1. ToSet(<<>>) = {} /\ IsInjective(<<>>) /\ <<>> \in Seq(Browsers)
      BY DEF ToSet, IsInjective
    <3> QED BY <3>1 DEF CryptoInit, RowTypes
  <2>3. PrekeyInv /\ LoneInv /\ PublishInv /\ RowInv
    BY DEF CryptoInit, PrekeyInv, LoneInv, PublishInv, RowInv, Making
  <2> QED BY <2>1, <2>2, <2>3 DEF KeyInv
<1>2. PageTypes /\ PageInv /\ faults \in 0..MaxFaults
  <2>1. 0 \in 0..MaxSwitches /\ 0 \in 0..MaxFaults
    BY E2EEAssumption
  <2>2. asked \subseteq Chats \X (0..MaxSwitches)
    BY DEF CryptoInit
  <2> QED BY <2>1, <2>2 DEF CryptoInit, PageTypes, PageInv
<1>3. SendInv
  <2> DEFINE s == [at |-> "new", chat |-> Nil, peer |-> Nil, racing |-> FALSE,
                   key |-> Nil, own |-> Nil, tries |-> 0]
  <2>1. s \in Fates
    BY DEF Fates
  <2>2. Sound(s)
    BY DEF Sound
  <2>3. msg = [m \in Messages |-> s] /\ cache = [u \in Users |-> Nil]
    BY DEF CryptoInit
  <2> HIDE DEF s
  <2> QED BY <2>1, <2>2, <2>3 DEF SendInv, CacheInv, MessageInv
<1> QED BY <1>1, <1>2, <1>3, Halves

\* Failures are counted in every action alike.
LEMMA FaultsCounted ==
    ASSUME faults \in 0..MaxFaults, Fault \/ NoFault
    PROVE  faults' \in 0..MaxFaults
  BY E2EEAssumption DEF Fault, NoFault

LEMMA CryptoNext_Inv == CryptoInv /\ [CryptoNext]_cryptoVars => CryptoInv'
<1> SUFFICES ASSUME CryptoInv, [CryptoNext]_cryptoVars PROVE CryptoInv'
  OBVIOUS
<1>h. KeyInv /\ PageTypes /\ PageInv /\ SendInv /\ faults \in 0..MaxFaults /\ KeyTypes
  BY Halves DEF KeyInv
<1>1. ASSUME NEW r \in Runs, StartPublish(r) PROVE CryptoInv'
  <2>1. KeyInv' /\ HeldStays
    BY <1>h, <1>1, KeysStartPublish
  <2>2. Mount(RunIn[r]) /\ UNCHANGED <<msg, faults>>
    BY <1>1 DEF StartPublish
  <2>3. PageTypes' /\ PageInv' /\ (UNCHANGED cache \/ cache' = [u \in Users |-> Nil])
    BY <1>h, <2>2, PageMount
  <2>4. SendInv'
    BY <1>h, <2>1, <2>2, <2>3, SendFrame
  <2> QED BY <1>h, <2>1, <2>2, <2>3, <2>4, Halves
<1>2. ASSUME NEW r \in Runs, StoreIdentity(r) \/ StorePrekey(r) \/ Publish(r) PROVE CryptoInv'
  <2>1. KeyInv' /\ HeldStays
    BY <1>h, <1>2, KeysStoreIdentity, KeysStorePrekey, KeysPublish
  <2>2. UNCHANGED page /\ UNCHANGED cache /\ UNCHANGED msg /\ (Fault \/ NoFault)
    BY <1>2 DEF StoreIdentity, StorePrekey, Publish, NoFault
  <2>3. PageTypes' /\ PageInv' /\ SendInv' /\ faults' \in 0..MaxFaults
    BY <1>h, <2>1, <2>2, PageFrame, SendFrame, FaultsCounted
  <2> QED BY <2>1, <2>3, Halves
<1>3. ASSUME NEW b \in Browsers, ClearStorage(b) PROVE CryptoInv'
  <2>1. KeyInv' /\ HeldStays
    BY <1>h, <1>3, KeysClearStorage
  <2>2. UNCHANGED page /\ UNCHANGED cache /\ UNCHANGED msg /\ NoFault
    BY <1>3 DEF ClearStorage, NoFault
  <2>3. PageTypes' /\ PageInv' /\ SendInv' /\ faults' \in 0..MaxFaults
    BY <1>h, <2>1, <2>2, PageFrame, SendFrame, FaultsCounted
  <2> QED BY <2>1, <2>3, Halves
<1>4. ASSUME UNCHANGED <<keys, overlapped>>, UNCHANGED cache /\ UNCHANGED msg,
             PageTypes', PageInv', Fault \/ NoFault
      PROVE  CryptoInv'
  <2>1. KeyInv' /\ HeldStays
    BY <1>h, <1>4, KeyFrame
  <2>2. SendInv' /\ faults' \in 0..MaxFaults
    BY <1>h, <1>4, <2>1, SendFrame, FaultsCounted
  <2> QED BY <1>4, <2>1, <2>2, Halves
<1>5. ASSUME NEW chat \in Chats, SwitchChat(chat) PROVE CryptoInv'
  <2>1. UNCHANGED <<keys, overlapped>> /\ UNCHANGED cache /\ UNCHANGED msg /\ NoFault
    BY <1>5 DEF SwitchChat, NoFault
  <2> QED BY <1>h, <1>4, <1>5, <2>1, PageSwitchChat
<1>6. ASSUME NEW q \in asked, ReceiveChat(q) PROVE CryptoInv'
  <2>1. /\ UNCHANGED <<keys, overlapped>> /\ UNCHANGED cache /\ UNCHANGED msg
        /\ Fault \/ NoFault
    BY <1>6 DEF ReceiveChat
  <2> QED BY <1>h, <1>4, <1>6, <2>1, PageReceiveChat
<1>7. ASSUME UNCHANGED <<keys, overlapped>>, UNCHANGED page, SendInv', Fault \/ NoFault
      PROVE  CryptoInv'
  BY <1>h, <1>7, KeyFrame, PageFrame, FaultsCounted, Halves
<1>8. ASSUME NEW m \in Messages,
             \/ Send(m) \/ ReadCache(m) \/ FetchBundle(m) \/ CacheBundle(m)
             \/ SealOwnCopy(m) \/ PostMessage(m)
      PROVE  CryptoInv'
  <2>1. SendInv'
    BY <1>h, <1>8, MessageSend, MessageReadCache, MessageFetchBundle, MessageCacheBundle,
       MessageSealOwnCopy, MessagePost
  <2>2. UNCHANGED <<keys, overlapped>> /\ UNCHANGED page /\ (Fault \/ NoFault)
    BY <1>8 DEF Send, ReadCache, FetchBundle, CacheBundle, SealOwnCopy, PostMessage, NoFault
  <2> QED BY <1>7, <2>1, <2>2
<1>9. ASSUME UNCHANGED cryptoVars PROVE CryptoInv'
  <2>1. /\ UNCHANGED <<keys, overlapped>> /\ UNCHANGED page /\ UNCHANGED cache
        /\ UNCHANGED msg /\ NoFault
    BY <1>9 DEF cryptoVars, NoFault
  <2> QED BY <1>h, <1>4, <2>1, PageFrame
<1> QED BY <1>1, <1>2, <1>3, <1>5, <1>6, <1>8, <1>9 DEF CryptoNext, Idle

THEOREM CryptoInvariance == CryptoSpec => []CryptoInv
<1> QED BY CryptoInit_Inv, CryptoNext_Inv, PTL DEF CryptoSpec

\* E2EE.tla: browsers, keys, the data of the page and the messages keep their
\* types, and device_keys has one row for each browser that published.
THEOREM CryptoTypeCorrect == CryptoSpec => []CryptoTypeOK
<1>1. CryptoInv => CryptoTypeOK
  BY DEF CryptoInv
<1> QED BY <1>1, CryptoInvariance, PTL

\* e2ee.js 317-403: what anybody encrypts with can be read by the browser that
\* published it, unless its storage was cleared or runs of publishKeys overlapped.
THEOREM KeysAreHeld == CryptoSpec => []PublishedKeysAreHeld
<1>1. CryptoInv => PublishedKeysAreHeld
  <2> SUFFICES ASSUME CryptoInv, NEW k \in InUse \ {Nil} PROVE Held(k)
    BY DEF PublishedKeysAreHeld, Held
  <2>1. CASE \E b \in Browsers : k = row[b]
    BY <2>1 DEF CryptoInv, RowInv
  <2>2. CASE \E u \in Users : k = cache[u]
    BY <2>2 DEF CryptoInv, CacheInv
  <2>3. CASE \E m \in Messages : k \in {msg[m].key, msg[m].own}
    BY <2>3 DEF CryptoInv, MessageInv, Sound
  <2> QED BY <2>1, <2>2, <2>3 DEF InUse
<1> QED BY <1>1, CryptoInvariance, PTL

\* MessageInput.jsx 79-121, e2ee.js 139-228: a message is encrypted for the peer
\* of the chat it is sent to, and goes out as it is only to a group or after two
\* fetches without a bundle, unless it raced with the data of the chat.
THEOREM EncryptsForPeer == CryptoSpec => []EncryptedForPeer
<1>1. CryptoInv => EncryptedForPeer
  <2> SUFFICES ASSUME CryptoInv, NEW m \in Messages, msg[m].at = "posted", ~msg[m].racing
               PROVE  \/ /\ msg[m].key = Nil
                         /\ PeerOf[msg[m].chat] = Nil \/ msg[m].tries = 2
                      \/ /\ msg[m].key # Nil
                         /\ UserOf[RunIn[msg[m].key]] = PeerOf[msg[m].chat]
    BY DEF EncryptedForPeer
  <2> QED BY DEF CryptoInv, MessageInv, Sound, ForPeer
<1> QED BY <1>1, CryptoInvariance, PTL
=============================================================================
