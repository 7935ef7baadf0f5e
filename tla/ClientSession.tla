---------------------------- MODULE ClientSession ----------------------------
(***************************************************************************)
(* One tab of the web client: Web/src/api/httpClient.js with its queue of  *)
(* calls that wait for a token refresh, contexts/AuthContext.jsx with the  *)
(* session in localStorage, and services/grpcClient.js with the realtime   *)
(* stream.  A step is what runs from one event to the next, promise        *)
(* reactions included; between steps answers arrive in any order.          *)
(*                                                                         *)
(* A token, a refresh token and a user id are named by the login that      *)
(* brought them.  The server may refuse any token, as when it expired.     *)
(***************************************************************************)
EXTENDS Naturals, Sequences, SequencesExt, FiniteSets

CONSTANTS Calls,          \* calls of httpClient
          Kind,           \* "api", "logout", "delete" or "password"
          MaxLogins,      \* bound: logins of this tab
          MaxRefusals,    \* bound: answers 401
          MaxReloads,     \* bound: reloads of the page by the user
          None

Logins == 1..MaxLogins
Known == Logins \cup {None}

ASSUME ClientAssumption ==
    /\ Kind \in [Calls -> {"api", "logout", "delete", "password"}]
    /\ MaxLogins \in Nat /\ MaxRefusals \in Nat /\ MaxReloads \in Nat
    /\ None \notin Nat

VARIABLES
    store,          \* localStorage: access_token, refresh_token, user_id
    user,           \* AuthContext: the user shown as logged in
    isRefreshing,   \* httpClient
    failedQueue,    \* httpClient: calls waiting for the refresh
    posted,         \* the refresh token of the refresh under way
    retried,        \* calls with originalRequest._retry
    pc,             \* where each call is
    conn,           \* grpcClient: stream, token, userId, reconnectTimer; and
                    \* live, the streams opened and neither broken nor cancelled
    logins, refusals, reloads,  \* bounded counters
    refused,        \* history: sessions whose refresh was refused
    crossed,        \* history: the session changed while a refresh was under way
    renewed         \* history: updateToken met a stream since the last connect

http == <<isRefreshing, failedQueue, posted, retried>>
history == <<refused, crossed, renewed>>
vars == <<store, user, http, pc, conn, logins, refusals, reloads, history>>

NoStore == [access |-> None, refresh |-> None, user |-> None]
NoConn == [stream |-> "none", token |-> None, userId |-> None,
           timer |-> FALSE, live |-> 0]

TypeOK ==
    /\ store \in [access : Known, refresh : Known, user : Known]
    /\ user \in Known
    /\ isRefreshing \in BOOLEAN
    /\ failedQueue \in Seq(Calls)
    /\ posted \in Known
    /\ retried \subseteq Calls
    /\ pc \in [Calls -> {"new", "sent", "queued", "refreshing", "settled"}]
    /\ conn \in [stream : {"none", "open", "broken"}, token : Known,
                 userId : Known, timer : BOOLEAN, live : 0..1]
    /\ logins \in 0..MaxLogins
    /\ refusals \in 0..MaxRefusals
    /\ reloads \in 0..MaxReloads
    /\ refused \subseteq Logins
    /\ crossed \in BOOLEAN
    /\ renewed \in BOOLEAN

Init ==
    /\ store = NoStore
    /\ user = None
    /\ isRefreshing = FALSE
    /\ failedQueue = <<>>
    /\ posted = None
    /\ retried = {}
    /\ pc = [c \in Calls |-> "new"]
    /\ conn = NoConn
    /\ logins = 0 /\ refusals = 0 /\ reloads = 0
    /\ refused = {}
    /\ crossed = FALSE
    /\ renewed = FALSE

-----------------------------------------------------------------------------
(* grpcClient                                                              *)

StartStream(g) == [g EXCEPT !.stream = "open", !.live = @ + 1]

\* Mutant: disconnect leaves the timer running.
DisconnectOnly(g) ==
    [NoConn EXCEPT !.live = IF g.stream = "open" THEN g.live - 1 ELSE g.live,
                   !.timer = g.timer]

Disconnect(g) ==
    [NoConn EXCEPT !.live = IF g.stream = "open" THEN g.live - 1 ELSE g.live]

Connect(g, u, t) ==
    LET fresh == IF g.stream # "none" THEN Disconnect(g) ELSE g
    IN StartStream([fresh EXCEPT !.userId = u, !.token = t])

\* disconnect forgets the token that was just set: the new stream has none.
UpdateToken(g, t) ==
    LET told == [g EXCEPT !.token = t]
    IN IF told.stream = "none" THEN told
       ELSE StartStream([Disconnect(told) EXCEPT !.userId = store.user])

\* Mutant: a broken stream is only noted.
StreamBreaksForGood ==
    /\ conn.stream = "open"
    /\ conn' = [conn EXCEPT !.stream = "broken", !.live = @ - 1]
    /\ UNCHANGED <<store, user, http, pc, logins, refusals, reloads, history>>

\* handleDisconnect, on the stream's error or end
StreamBreaks ==
    /\ conn.stream = "open"
    /\ conn' = [conn EXCEPT !.stream = "broken", !.live = @ - 1, !.timer = TRUE]
    /\ UNCHANGED <<store, user, http, pc, logins, refusals, reloads, history>>

\* Mutant: no new stream while this.stream is set, be it broken.
ReconnectIfNone ==
    /\ conn.timer
    /\ LET rung == [conn EXCEPT !.timer = FALSE]
       IN conn' = IF conn.stream = "none" THEN StartStream(rung) ELSE rung
    /\ UNCHANGED <<store, user, http, pc, logins, refusals, reloads, history>>

\* The timer of handleDisconnect
Reconnect ==
    /\ conn.timer
    /\ LET rung == [conn EXCEPT !.timer = FALSE]
       IN conn' = IF conn.userId # None /\ conn.token # None
                    THEN StartStream(rung) ELSE rung
    /\ UNCHANGED <<store, user, http, pc, logins, refusals, reloads, history>>

-----------------------------------------------------------------------------
(* AuthContext                                                             *)

\* The answer to a login; LoginPage shows up whoever is logged in.
Login ==
    /\ logins < MaxLogins
    /\ LET n == logins + 1
       IN /\ logins' = n
          /\ store' = [access |-> n, refresh |-> n, user |-> n]
          /\ user' = n
          /\ conn' = Connect(conn, n, n)
    /\ crossed' = (crossed \/ isRefreshing)
    /\ renewed' = FALSE
    /\ UNCHANGED <<http, pc, refusals, reloads, refused>>

\* Everything in memory goes; the mounted AuthContext connects again if
\* localStorage s has a token and a user.
ReloadWith(s) ==
    /\ store' = s
    /\ LET known == s.access # None /\ s.user # None
       IN /\ user' = IF known THEN s.user ELSE None
          /\ conn' = IF known THEN Connect(NoConn, s.user, s.access) ELSE NoConn
    /\ pc' = [c \in Calls |-> IF pc[c] = "new" THEN "new" ELSE "settled"]
    /\ isRefreshing' = FALSE
    /\ failedQueue' = <<>>
    /\ posted' = None
    /\ retried' = {}
    /\ renewed' = FALSE
    /\ UNCHANGED <<logins, refused>>

Reload ==
    /\ reloads < MaxReloads
    /\ reloads' = reloads + 1
    /\ ReloadWith(store)
    /\ UNCHANGED <<refusals, crossed>>

\* After a logout, or a deletion that went well, the session is given up.
EndsSession(c, well) == Kind[c] = "logout" \/ (well /\ Kind[c] = "delete")

\* The promises of the calls S settle, well or badly, with s in localStorage.
Settle(S, well, s) ==
    /\ pc' = [c \in Calls |-> IF c \in S THEN "settled" ELSE pc[c]]
    /\ IF \E c \in S : EndsSession(c, well)
         THEN /\ store' = NoStore
              /\ user' = None
              /\ conn' = Disconnect(conn)
              /\ crossed' = (crossed \/ \E c \in Calls \ S : pc[c] = "refreshing")
         ELSE store' = s /\ UNCHANGED <<user, conn, crossed>>
    /\ UNCHANGED renewed

-----------------------------------------------------------------------------
(* httpClient                                                              *)

Issue(c) ==
    /\ pc[c] = "new"
    /\ user # None
    /\ pc' = [pc EXCEPT ![c] = "sent"]
    /\ UNCHANGED <<store, user, http, conn, logins, refusals, reloads, history>>

\* Any answer but 401.  A changed password clears localStorage and reloads.
Answered(c, well) ==
    /\ pc[c] = "sent"
    /\ IF well /\ Kind[c] = "password"
         THEN ReloadWith(NoStore) /\ UNCHANGED crossed
         ELSE Settle({c}, well, store) /\ UNCHANGED <<http, logins, refused>>
    /\ UNCHANGED <<refusals, reloads>>

Enqueue(c) ==
    /\ isRefreshing
    /\ failedQueue' = Append(failedQueue, c)
    /\ pc' = [pc EXCEPT ![c] = "queued"]
    /\ UNCHANGED <<isRefreshing, posted, retried>>

StartRefresh(c) ==
    /\ ~isRefreshing
    /\ store.refresh # None
    /\ isRefreshing' = TRUE
    /\ posted' = store.refresh
    /\ retried' = retried \cup {c}
    /\ pc' = [pc EXCEPT ![c] = "refreshing"]
    /\ UNCHANGED failedQueue

\* An answer 401: rejected after a retry and without a refresh token.
Unauthorized(c) ==
    /\ pc[c] = "sent"
    /\ refusals < MaxRefusals
    /\ refusals' = refusals + 1
    /\ IF c \in retried \/ (~isRefreshing /\ store.refresh = None)
         THEN Settle({c}, FALSE, store) /\ UNCHANGED <<http, refused>>
         ELSE /\ Enqueue(c) \/ StartRefresh(c)
              /\ UNCHANGED <<store, user, conn, history>>
    /\ UNCHANGED <<logins, reloads>>

\* Mutant: a refresh that succeeds does not process the queue.
RefreshSucceedsAlone(c) ==
    /\ pc[c] = "refreshing"
    /\ store' = [store EXCEPT !.access = posted]
    /\ conn' = UpdateToken(conn, posted)
    /\ renewed' = (renewed \/ conn.stream # "none")
    /\ pc' = [pc EXCEPT ![c] = "sent"]
    /\ isRefreshing' = FALSE
    /\ posted' = None
    /\ UNCHANGED <<user, failedQueue, retried, logins, refusals, reloads,
                   refused, crossed>>

\* processQueue: the waiting calls are sent again, and so is c.
RefreshSucceeds(c) ==
    /\ pc[c] = "refreshing"
    /\ store' = [store EXCEPT !.access = posted]
    /\ conn' = UpdateToken(conn, posted)
    /\ renewed' = (renewed \/ conn.stream # "none")
    /\ pc' = [d \in Calls |->
                IF d = c \/ d \in ToSet(failedQueue) THEN "sent" ELSE pc[d]]
    /\ failedQueue' = <<>>
    /\ isRefreshing' = FALSE
    /\ posted' = None
    /\ UNCHANGED <<user, retried, logins, refusals, reloads, refused, crossed>>

RefreshFailsFor(c, S, s) ==
    /\ pc[c] = "refreshing"
    /\ failedQueue' = <<>>
    /\ isRefreshing' = FALSE
    /\ posted' = None
    /\ refused' = refused \cup {posted}
    /\ Settle(S, FALSE, s)
    /\ UNCHANGED <<retried, logins, refusals, reloads>>

\* Mutants: a refresh that fails drops the queue; it keeps the refresh token.
RefreshFailsAlone(c) ==
    RefreshFailsFor(c, {c}, [store EXCEPT !.access = None, !.refresh = None])
RefreshFailsHalf(c) ==
    RefreshFailsFor(c, {c} \cup ToSet(failedQueue), [store EXCEPT !.access = None])

\* The refresh is refused or its call fails: c and the queue are rejected.
RefreshFails(c) ==
    /\ pc[c] = "refreshing"
    /\ failedQueue' = <<>>
    /\ isRefreshing' = FALSE
    /\ posted' = None
    /\ refused' = refused \cup {posted}
    /\ Settle({c} \cup ToSet(failedQueue), FALSE,
              [store EXCEPT !.access = None, !.refresh = None])
    /\ UNCHANGED <<retried, logins, refusals, reloads>>

-----------------------------------------------------------------------------
Call(c) ==
    \/ Issue(c) \/ (\E well \in BOOLEAN : Answered(c, well)) \/ Unauthorized(c)
    \/ RefreshSucceeds(c) \/ RefreshFails(c)

Next ==
    \/ \E c \in Calls : Call(c)
    \/ Login \/ Reload \/ StreamBreaks \/ Reconnect

Spec == Init /\ [][Next]_vars

\* Every request is answered, if only by a network error, and timers fire.
Fairness ==
    /\ \A c \in Calls :
         /\ WF_vars(\E well \in BOOLEAN : Answered(c, well))
         /\ WF_vars(RefreshSucceeds(c) \/ RefreshFails(c))
    /\ WF_vars(Reconnect)

FairSpec == Spec /\ Fairness

-----------------------------------------------------------------------------
\* One refresh is under way at a time, exactly while isRefreshing is set, and
\* the queue holds exactly the calls that wait for it: none can be forgotten
\* in the queue after the refresh ended (httpClient.js 43-82).
OneRefreshForAll ==
    /\ LET refreshing == {c \in Calls : pc[c] = "refreshing"}
       IN Cardinality(refreshing) = IF isRefreshing THEN 1 ELSE 0
    /\ IsInjective(failedQueue)
    /\ ToSet(failedQueue) = {c \in Calls : pc[c] = "queued"}
    /\ failedQueue # <<>> => isRefreshing

\* localStorage and the user shown agree: both tokens are of that user's
\* login, or nobody is logged in and nothing is left, or both tokens are gone
\* because the refresh was refused (after a reload nobody is shown then).
\* Only a session that changed while a refresh was under way may break this:
\* the late answer stores its token or removes those of the next session.
StorageMatchesUser ==
    \/ crossed
    \/ user = None /\ store = NoStore
    \/ user # None /\ store = [access |-> user, refresh |-> user, user |-> user]
    \/ /\ store.access = None /\ store.refresh = None
       /\ store.user \in refused
       /\ user \in {store.user, None}

\* The tab never has two streams, which would show every message twice, and
\* none after the logout, whatever timers and refreshes were under way.
OneStreamPerUser ==
    /\ conn.live = IF conn.stream = "open" THEN 1 ELSE 0
    /\ user = None => conn.stream = "none" /\ ~conn.timer

\* The stream of a logged-in user is open or about to be reopened, with that
\* user's token, unless a token refresh restarted it without one.
StreamKeptForUser ==
    user # None /\ ~renewed /\ ~crossed =>
        /\ conn.stream = "open" \/ conn.timer
        /\ conn.token = user /\ conn.userId = user

\* Every call settles: an answer, a failed refresh or a reload ends it,
\* also when it waited in the queue and was refused again after the refresh.
CallsSettle == \A c \in Calls : pc[c] = "sent" ~> pc[c] = "settled"

\* A broken stream is opened again, or its session is over, or a token
\* refresh restarted it without a token.
StreamsReopen ==
    conn.stream = "broken" /\ conn.token # None
        ~> conn.stream # "broken" \/ renewed
=============================================================================
