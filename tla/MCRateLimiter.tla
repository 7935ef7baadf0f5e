--------------------------- MODULE MCRateLimiter ---------------------------
(* An instance of RateLimiter for TLC. *)
EXTENDS RateLimiter, TLC

CONSTANTS u1, u2

MCSymmetry == Permutations({u1, u2})
=============================================================================
