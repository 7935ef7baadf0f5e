--------------------------- MODULE MCAuthSessions ---------------------------
(* Instances of AuthSessions for TLC. *)
EXTENDS AuthSessions, TLC

CONSTANTS l1, l2, l3, f1, f2, o1, c1, d1, old, new

\* Logins l1 and l2 with the first password and l3 with the new one; two
\* refreshes and a logout with the token of l1; a change and a deletion.
MCKind == (l1 :> "login") @@ (l2 :> "login") @@ (l3 :> "login")
          @@ (f1 :> "refresh") @@ (f2 :> "refresh") @@ (o1 :> "logout")
          @@ (c1 :> "change") @@ (d1 :> "delete")
MCPassword == (l3 :> new) @@ [r \in Requests |-> old]

KindOf == [r \in Requests |-> MCKind[r]]
PasswordOf == [r \in Requests |-> MCPassword[r]]
NewPasswordOf == [r \in Requests |-> new]
PresentsOf == [r \in Requests |-> l1]

\* Two scenarios in one run: the requests that come are all of one of them.
Scenarios == {{l1, l2, f1, f2, o1}, {l1, l2, l3, c1, d1}}
OneScenario == \E S \in Scenarios : {r \in Requests : pc[r] # "new"} \subseteq S
=============================================================================
