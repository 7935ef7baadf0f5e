----------------------------- MODULE MCChatView -----------------------------
(* Instances of ChatView for TLC. *)
EXTENDS ChatView, TLC

CONSTANTS here, there, theirs, mine

\* A peer's and an own message in one chat; the other chat is empty.
MCChatOf == (theirs :> here) @@ (mine :> here)

\* The peer's message is sent, edited and deleted; the own one changed once.
MCMaxVersion == (theirs :> 3) @@ (mine :> 2)
=============================================================================
