-------------------------- MODULE MCClientSession --------------------------
(* Instances of ClientSession for TLC. *)
EXTENDS ClientSession, TLC

CONSTANTS a1, out, del, pwd

MCKind == [c \in Calls |->
    CASE c = out -> "logout"
      [] c = del -> "delete"
      [] c = pwd -> "password"
      [] OTHER -> "api"]
=============================================================================
