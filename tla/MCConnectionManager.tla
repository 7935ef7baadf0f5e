------------------------ MODULE MCConnectionManager ------------------------
(* Instances of ConnectionManager for TLC. *)
EXTENDS ConnectionManager, TLC

CONSTANTS u1, s1, s2, p1, p2

\* Two streams of one user, as when it has two devices or reconnects before
\* the server noticed that the first stream is gone.
MCOneUser == (s1 :> u1) @@ (s2 :> u1)

\* A single stream among the publishers.
MCOneStream == s1 :> u1

MCSymmetry == Permutations({p1, p2}) \cup Permutations({s1, s2})
=============================================================================
