------------------------------- MODULE MCChats -------------------------------
(* Instances of Chats for TLC. *)
EXTENDS Chats, TLC

CONSTANTS ann, bob, eve, p1, p2, g1, a1, r1, l1, l2, d1

\* ann and bob each ask for a private chat with the other, ann founds a group
\* with bob; eve is added, bob removed, both leave, and bob deletes a chat.
MCKind == (p1 :> "private") @@ (p2 :> "private") @@ (g1 :> "group")
          @@ (a1 :> "add") @@ (r1 :> "remove") @@ (l1 :> "leave")
          @@ (l2 :> "leave") @@ (d1 :> "delete")
MCBy == (p2 :> bob) @@ (l2 :> bob) @@ (d1 :> bob) @@ [r \in Requests |-> ann]
MCPeople == (p1 :> <<bob>>) @@ (p2 :> <<ann>>) @@ (g1 :> <<bob>>)
            @@ (a1 :> <<bob, eve>>) @@ (r1 :> <<bob>>) @@ [r \in Requests |-> <<>>]

\* The same functions on the requests of one run.
On(f) == [r \in Requests |-> f[r]]
KindOf == On(MCKind)
ByOf == On(MCBy)
PeopleOf == On(MCPeople)

\* Three scenarios in one run: the requests that come are all of one of them.
Scenarios == {{p1, p2, a1, r1, l2}, {p1, g1, a1, r1, l1}, {g1, a1, l1, l2, d1}}
OneScenario == \E S \in Scenarios : {r \in Requests : pc[r] # "new"} \subseteq S
=============================================================================
