-------------------------------- MODULE Quota --------------------------------
(***************************************************************************)
(* What a rate limiter promises: each user has a window of Window ticks    *)
(* that starts with a request and admits the first Limit requests in it;   *)
(* the first request after it starts another one.                          *)
(***************************************************************************)
EXTENDS Integers

CONSTANTS Users, Limit, Window, Closed

VARIABLES
    window,     \* per user: requests so far and ticks to its end, or Closed
    answer      \* the answer to each user's latest request

Windows == [count : 1..(Limit + 1), reset : 0..Window]

Init ==
    /\ window = [u \in Users |-> Closed]
    /\ answer = [u \in Users |-> TRUE]

\* Requests beyond the quota are all alike.
Counted(w) == [w EXCEPT !.count = IF @ > Limit THEN @ ELSE @ + 1]

Request(u) ==
    /\ window' = [window EXCEPT ![u] =
                    IF @ = Closed THEN [count |-> 1, reset |-> Window]
                    ELSE Counted(@)]
    /\ answer' = [answer EXCEPT ![u] = window'[u].count <= Limit]

Aged(w) == IF w = Closed \/ w.reset = 0 THEN Closed
           ELSE [w EXCEPT !.reset = @ - 1]

Tick ==
    /\ window' = [u \in Users |-> Aged(window[u])]
    /\ UNCHANGED answer

Next == (\E u \in Users : Request(u)) \/ Tick

Spec == Init /\ [][Next]_<<window, answer>>
=============================================================================
