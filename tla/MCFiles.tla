------------------------------ MODULE MCFiles -------------------------------
(* Instances of Files for TLC. *)
EXTENDS Files, TLC

CONSTANTS long, dotted, old

\* A file of two chunks, and a small one with ".." in its name.
MCChunkCount == (long :> 2) @@ (dotted :> 1)

\* Two attachments, or two downloads of one message, which may be about the
\* second attachment when the first one failed.
OneScenario == clicks = 0 \/ (Len(messages) = 1 /\ composer.phase = "idle")
=============================================================================
