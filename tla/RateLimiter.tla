----------------------------- MODULE RateLimiter -----------------------------
(***************************************************************************)
(* internal/middleware/rate_limiter.go: the map of per-user counters, the  *)
(* Allow call of every unary request and the worker that removes old       *)
(* entries, each under the mutex.  Time is relative: an entry keeps how    *)
(* many ticks its Reset lies ahead, negative once it has passed, and the   *)
(* ticks beyond the grace period are all alike.                            *)
(***************************************************************************)
EXTENDS Integers

CONSTANTS Callers,
          Limit,    \* requests per window, 50000 in the code
          Window,   \* ticks of a window, one minute
          Grace,    \* ticks an entry is kept after its Reset, five minutes
          Absent    \* no entry in the map

ASSUME LimiterAssumption ==
    /\ Limit \in Nat \ {0} /\ Window \in Nat \ {0} /\ Grace \in Nat
    /\ Absent \notin [count : Int, reset : Int]

VARIABLES
    clients,    \* r.clients: Count, and Reset relative to now
    answer,     \* what Allow last returned for the user
    admitted    \* history: requests admitted in the last n ticks and this one

limiterVars == <<clients, answer, admitted>>

Resets == (-Grace - 1)..Window
Entries == [count : 1..(Limit + 1), reset : Resets]
Ages == 0..Window

LimiterTypeOK ==
    /\ clients \in [Callers -> Entries \cup {Absent}]
    /\ answer \in [Callers -> BOOLEAN]
    /\ admitted \in [Callers -> [Ages -> Nat]]

LimiterInit ==
    /\ clients = [u \in Callers |-> Absent]
    /\ answer = [u \in Callers |-> TRUE]
    /\ admitted = [u \in Callers |-> [a \in Ages |-> 0]]

\* now.After(client.Reset): at the Reset itself the window is still on.
Over(c) == c.reset < 0

\* Counts beyond the limit are all alike.
Increment(n) == IF n > Limit THEN n ELSE n + 1

Touch(c) ==
    IF c = Absent \/ Over(c) THEN [count |-> 1, reset |-> Window]
    ELSE [c EXCEPT !.count = Increment(@)]

\* An admitted request counts in every stretch that ends now.
Admit(u) == admitted' = [admitted EXCEPT ![u] = [a \in Ages |-> @[a] + 1]]

\* Mutant: one request too many.
AllowOneMore(u) ==
    LET c == Touch(clients[u])
        ok == clients[u] = Absent \/ clients[u].count <= Limit
    IN /\ clients' = [clients EXCEPT ![u] = c]
       /\ answer' = [answer EXCEPT ![u] = ok]
       /\ IF ok THEN Admit(u) ELSE UNCHANGED admitted

Allow(u) ==
    LET c == Touch(clients[u])
        ok == c.count <= Limit
    IN /\ clients' = [clients EXCEPT ![u] = c]
       /\ answer' = [answer EXCEPT ![u] = ok]
       /\ IF ok THEN Admit(u) ELSE UNCHANGED admitted

\* Mutant: the grace period is subtracted.
ExpiredEarly(c) == c # Absent /\ c.reset - Grace < 0

Expired(c) == c # Absent /\ c.reset + Grace < 0

\* The cleanup worker; its ticker may fire at any time.
Cleanup ==
    /\ clients' = [u \in Callers |->
                     IF Expired(clients[u]) THEN Absent ELSE clients[u]]
    /\ clients' # clients
    /\ UNCHANGED <<answer, admitted>>

Later(c) == IF c = Absent \/ c.reset = -Grace - 1 THEN c
            ELSE [c EXCEPT !.reset = @ - 1]

Tick ==
    /\ clients' = [u \in Callers |-> Later(clients[u])]
    /\ admitted' = [u \in Callers |->
                      [a \in Ages |-> IF a = 0 THEN 0 ELSE admitted[u][a - 1]]]
    /\ UNCHANGED answer

LimiterNext == (\E u \in Callers : Allow(u)) \/ Cleanup \/ Tick

LimiterSpec == LimiterInit /\ [][LimiterNext]_limiterVars

-----------------------------------------------------------------------------
\* However requests meet the ends of windows and the cleanup, no stretch of
\* Window ticks admits more than two quotas: one at the end of a window and
\* one at the start of the next.
AtMostTwoQuotas ==
    \A u \in Callers : admitted[u][Window] <= 2 * Limit

\* An entry whose Reset has passed is as good as none.
Shown(c) == IF c = Absent \/ Over(c) THEN Absent ELSE c

Promise == INSTANCE Quota WITH
    Users <- Callers,
    Closed <- Absent,
    window <- [u \in Callers |-> Shown(clients[u])]

\* The counters implement per-user windows: the cleanup is invisible, since
\* it removes only entries that the next request would have reset.
ImplementsQuota == Promise!Spec
=============================================================================
