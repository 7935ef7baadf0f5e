-------------------------- MODULE MCMessageService --------------------------
(* The instance of MessageService for TLC. *)
EXTENDS MessageService, TLC

CONSTANTS ann, bob, eve, m1, m2, e1, e2, d1

\* ann's message m1 is edited and deleted by herself, quoted by bob's reply m2
\* and edited by bob, who may not.
MCKind == (m1 :> "send") @@ (m2 :> "send") @@ (e1 :> "edit")
          @@ (e2 :> "edit") @@ (d1 :> "delete")
MCBy == (m1 :> ann) @@ (m2 :> bob) @@ (e1 :> ann) @@ (e2 :> bob) @@ (d1 :> ann)
MCTarget == (m1 :> m1) @@ (m2 :> m2) @@ (e1 :> m1) @@ (e2 :> m1) @@ (d1 :> m1)
MCReplyTo == (m1 :> None) @@ (m2 :> m1) @@ (e1 :> None)
             @@ (e2 :> None) @@ (d1 :> None)

On(f) == [r \in Requests |-> f[r]]
KindOf == On(MCKind)
ByOf == On(MCBy)
TargetOf == On(MCTarget)
ReplyToOf == On(MCReplyTo)

\* Scenarios in one run: all requests that come are of one of them.  The
\* participants change once beside a reply and stay while there are more than
\* two requests; with all four of them no statement fails.
OneScenario ==
    LET came == {r \in Requests : pc[r] # "new"}
    IN \/ came \subseteq {m1, m2, e1, d1} /\ changes = 0 /\ faults = 0
       \/ came \subseteq {m1, m2, d1} /\ changes = 0
       \/ came \subseteq {m1, m2, e1} /\ changes = 0
       \/ came \subseteq {m1, e1, d1} /\ changes = 0
       \/ came \subseteq {m1, m2} /\ changes <= 1
       \/ came \subseteq {m1, d1}
       \/ came \subseteq {m1, e2}
=============================================================================
