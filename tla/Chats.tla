-------------------------------- MODULE Chats --------------------------------
(***************************************************************************)
(* internal/chat: the rows of chats and chat_participants.  Each handler   *)
(* of chat_server.go is a goroutine; it issues one SQL statement after     *)
(* another, each committed by itself except in CreatePrivateChat and       *)
(* CreateGroupChat, which use a READ COMMITTED transaction.  A chat is     *)
(* named by the request that creates it.                                   *)
(*                                                                         *)
(* What a transaction has inserted nobody sees before its COMMIT; but the  *)
(* foreign keys lock the users it refers to (held), and the deletion of    *)
(* such a user waits for its end.                                          *)
(***************************************************************************)
EXTENDS Naturals, Sequences, SequencesExt

CONSTANTS Users, Requests,
          Kind,         \* "private", "group", "add", "remove", "leave" or "delete"
          By,           \* the authenticated user of a request
          People,       \* the users it names, in order
          Quitters,     \* users who may delete their account
          MaxFaults,    \* bound: statements that fail for no reason of their own
          None

Creations == {r \in Requests : Kind[r] \in {"private", "group"}}

ASSUME ChatAssumption ==
    /\ Kind \in [Requests -> {"private", "group", "add", "remove", "leave", "delete"}]
    /\ By \in [Requests -> Users]
    /\ People \in [Requests -> Seq(Users)]
    /\ \A r \in Requests : Kind[r] = "private" => Len(People[r]) = 1
    /\ Quitters \subseteq Users
    /\ MaxFaults \in Nat
    /\ None \notin Requests

VARIABLES
    users,      \* rows of users
    chats,      \* committed rows of chats
    members,    \* committed rows of chat_participants, by chat
    pc,         \* where each handler is
    target,     \* the chat it works on; for a creation, the one it returns
    todo,       \* users its loop has still to insert
    held,       \* participants inserted by its open transaction, and locked
    outcome,    \* what the handler returns
    faults,     \* number of failed statements so far
    known,      \* history: chats that were ever committed
    overlap,    \* history: pairs of creations that ran at the same time
    thinned,    \* history: chats that have lost a participant
    emptier,    \* history: the request whose DELETE left a chat empty last
    joined      \* history: users inserted since a leaving request has counted

db == <<users, chats, members>>
local == <<pc, target, todo, held, outcome>>
vars == <<db, local, faults, known, overlap, thinned, emptier, joined>>

Labels == {"new", "find", "insert", "join", "commit", "add", "remove", "count",
           "drop", "done"}

TypeOK ==
    /\ users \in SUBSET Users
    /\ chats \subseteq known /\ known \in SUBSET Creations
    /\ members \in [Creations -> SUBSET users]
    /\ \A c \in Creations \ chats : members[c] = {}
    /\ pc \in [Requests -> Labels]
    /\ target \in [Requests -> Creations \cup {None}]
    /\ todo \in [Requests -> Seq(Users)]
    /\ held \in [Requests -> SUBSET users]
    /\ outcome \in [Requests -> {"none", "ok", "error"}]
    /\ faults \in 0..MaxFaults
    /\ overlap \in SUBSET (Creations \X Creations)
    /\ thinned \in SUBSET Creations
    /\ emptier \in [Creations -> Requests \cup {None}]
    /\ joined \in [Requests -> SUBSET Users]

Init ==
    /\ users = Users
    /\ chats = {}
    /\ members = [c \in Creations |-> {}]
    /\ pc = [r \in Requests |-> "new"]
    /\ target = [r \in Requests |-> None]
    /\ todo = [r \in Requests |-> <<>>]
    /\ held = [r \in Requests |-> {}]
    /\ outcome = [r \in Requests |-> "none"]
    /\ faults = 0
    /\ known = {}
    /\ overlap = {}
    /\ thinned = {}
    /\ emptier = [c \in Creations |-> None]
    /\ joined = [r \in Requests |-> {}]

Active(r) == pc[r] \notin {"new", "done"}
Goto(r, label) == pc' = [pc EXCEPT ![r] = label] /\ UNCHANGED outcome
\* A handler returns; a transaction it has open is rolled back or committed.
Return(r, result) ==
    /\ pc' = [pc EXCEPT ![r] = "done"]
    /\ outcome' = [outcome EXCEPT ![r] = result]
    /\ held' = [held EXCEPT ![r] = {}]

Fault == faults < MaxFaults /\ faults' = faults + 1
NoFault == UNCHANGED faults

-----------------------------------------------------------------------------
\* A request enters its handler.  Clients know chats that have been committed,
\* and may name them after they are gone.
Start(r) ==
    /\ pc[r] = "new"
    /\ IF r \in Creations THEN UNCHANGED target
       ELSE \E c \in known : target' = [target EXCEPT ![r] = c]
    /\ Goto(r, CASE Kind[r] = "private" -> "find"
                 [] Kind[r] = "group" -> "insert"
                 [] Kind[r] = "add" -> "add"
                 [] Kind[r] \in {"remove", "leave"} -> "remove"
                 [] Kind[r] = "delete" -> "drop")
    /\ todo' = [todo EXCEPT ![r] = IF Kind[r] = "group" THEN Append(People[r], By[r])
                                                        ELSE People[r]]
    /\ overlap' = IF r \in Creations
                  THEN overlap \cup UNION {{<<r, q>>, <<q, r>>} :
                                             q \in {p \in Creations : Active(p)}}
                  ELSE overlap
    /\ UNCHANGED <<db, held, faults, known, thinned, emptier, joined>>

-----------------------------------------------------------------------------
(* CreatePrivateChat and CreateGroupChat                                   *)

Pair(r) == {By[r], Head(People[r])}

\* Mutant: only the chats the caller opened are looked at.
OwnPrivateChats(r) ==
    {c \in chats : Kind[c] = "private" /\ By[c] = By[r] /\ Pair(r) \subseteq members[c]}

\* SELECT ... WHERE type = 'private' AND EXISTS ... AND EXISTS ...
PrivateChats(r) == {c \in chats : Kind[c] = "private" /\ Pair(r) \subseteq members[c]}

\* With no ORDER BY any of them may come first.  After an error of the query
\* the aborted transaction refuses the INSERTs.
FindPrivateChat(r) ==
    /\ pc[r] = "find"
    /\ \/ \E c \in PrivateChats(r) :
            /\ target' = [target EXCEPT ![r] = c]
            /\ Return(r, "ok")
            /\ NoFault
       \/ /\ PrivateChats(r) = {}
          /\ Goto(r, "join")
          /\ NoFault
          /\ UNCHANGED <<target, held>>
       \/ Fault /\ Return(r, "error") /\ UNCHANGED target
    /\ UNCHANGED <<db, todo, known, overlap, thinned, emptier, joined>>

\* INSERT INTO chats of a group: created_by refers to the caller.
InsertGroup(r) ==
    /\ pc[r] = "insert"
    /\ \/ /\ By[r] \in users
          /\ held' = [held EXCEPT ![r] = {By[r]}]
          /\ Goto(r, "join")
          /\ NoFault
       \/ /\ IF By[r] \in users THEN Fault ELSE NoFault
          /\ Return(r, "error")
    /\ UNCHANGED <<db, target, todo, known, overlap, thinned, emptier, joined>>

\* The next users inserted in the open transaction: both of a private chat in
\* one statement, those of a group one by one.
NextPeople(r) == IF Kind[r] = "private" THEN Pair(r) ELSE {Head(todo[r])}

JoinNewChat(r) ==
    /\ pc[r] = "join"
    /\ \/ /\ NextPeople(r) \subseteq users
          /\ held' = [held EXCEPT ![r] = @ \cup NextPeople(r)]
          /\ todo' = [todo EXCEPT ![r] = Tail(@)]
          /\ Goto(r, IF Len(todo[r]) = 1 THEN "commit" ELSE "join")
          /\ NoFault
       \/ /\ IF NextPeople(r) \subseteq users THEN Fault ELSE NoFault
          /\ Return(r, "error")
          /\ UNCHANGED todo
    /\ UNCHANGED <<db, target, known, overlap, thinned, emptier, joined>>

\* COMMIT; when the connection breaks it may have happened or not.
Commit(r) ==
    /\ pc[r] = "commit"
    /\ \/ /\ chats' = chats \cup {r}
          /\ members' = [members EXCEPT ![r] = held[r]]
          /\ known' = known \cup {r}
          /\ \/ NoFault /\ Return(r, "ok") /\ target' = [target EXCEPT ![r] = r]
             \/ Fault /\ Return(r, "error") /\ UNCHANGED target
       \/ Fault /\ Return(r, "error") /\ UNCHANGED <<chats, members, known, target>>
    /\ UNCHANGED <<users, todo, overlap, thinned, emptier, joined>>

-----------------------------------------------------------------------------
(* AddParticipants, RemoveParticipants, LeaveGroup, DeleteChat             *)

\* One INSERT of the loop; the foreign keys need the chat and the user, and an
\* error ends the loop with the users before it inserted.
AddParticipant(r) ==
    LET c == target[r]
        u == Head(todo[r])
        allowed == c \in chats /\ u \in users
    IN /\ pc[r] = "add"
       /\ todo[r] # <<>>
       /\ \/ /\ allowed
             /\ members' = [members EXCEPT ![c] = @ \cup {u}]
             /\ joined' = [q \in Requests |->
                             IF pc[q] = "drop" /\ target[q] = c
                             THEN joined[q] \cup {u} ELSE joined[q]]
             /\ todo' = [todo EXCEPT ![r] = Tail(@)]
             /\ NoFault
             /\ UNCHANGED <<pc, outcome, held>>
          \/ /\ IF allowed THEN Fault ELSE NoFault
             /\ Return(r, "error")
             /\ UNCHANGED <<members, joined, todo>>
       /\ UNCHANGED <<users, chats, target, known, overlap, thinned, emptier>>

AllAdded(r) ==
    /\ pc[r] = "add"
    /\ todo[r] = <<>>
    /\ Return(r, "ok")
    /\ UNCHANGED <<db, target, todo, faults, known, overlap, thinned, emptier, joined>>

\* Participants go: the history remembers what that does to the chats.
Without(gone, who) ==
    /\ members' = gone
    /\ thinned' = thinned \cup {c \in Creations : gone[c] # members[c]}
    /\ emptier' = [c \in Creations |->
                     IF members[c] # {} /\ gone[c] = {} THEN who ELSE emptier[c]]

Removed(r) == IF Kind[r] = "leave" THEN {By[r]} ELSE ToSet(People[r])

\* Mutant: who leaves looks at the participants before it removes itself.
LeaveUnlessLast(r) ==
    /\ pc[r] = "remove"
    /\ Without([members EXCEPT ![target[r]] = @ \ Removed(r)], r)
    /\ IF Kind[r] = "leave" /\ target[r] \in chats /\ members[target[r]] = {}
         THEN Goto(r, "drop") /\ UNCHANGED held
         ELSE Return(r, "ok")
    /\ UNCHANGED <<users, chats, target, todo, faults, known, overlap, joined>>

\* DELETE FROM chat_participants WHERE chat_id AND user_id = ANY($2)
RemoveParticipants(r) ==
    /\ pc[r] = "remove"
    /\ \/ /\ Without([members EXCEPT ![target[r]] = @ \ Removed(r)], r)
          /\ IF Kind[r] = "leave" THEN Goto(r, "count") /\ UNCHANGED held
                                  ELSE Return(r, "ok")
          /\ NoFault
       \/ Fault /\ Return(r, "error") /\ UNCHANGED <<members, thinned, emptier>>
    /\ UNCHANGED <<users, chats, target, todo, known, overlap, joined>>

\* Mutant: a chat with one participant left counts as empty.
CountBelowTwo(r) ==
    /\ pc[r] = "count"
    /\ IF \A u, v \in members[target[r]] : u = v
         THEN Goto(r, "drop") /\ UNCHANGED held
         ELSE Return(r, "ok")
    /\ UNCHANGED <<db, target, todo, faults, known, overlap, thinned, emptier, joined>>

\* LeaveGroup counts after its DELETE and goes on to DeleteChat at zero.
CountParticipants(r) ==
    /\ pc[r] = "count"
    /\ \/ members[target[r]] = {} /\ Goto(r, "drop") /\ NoFault /\ UNCHANGED held
       \/ members[target[r]] # {} /\ Return(r, "ok") /\ NoFault
       \/ Fault /\ Return(r, "error")
    /\ UNCHANGED <<db, target, todo, known, overlap, thinned, emptier, joined>>

\* DELETE FROM chats WHERE id, with ON DELETE CASCADE
DeleteChat(r) ==
    /\ pc[r] = "drop"
    /\ \/ /\ chats' = chats \ {target[r]}
          /\ members' = [members EXCEPT ![target[r]] = {}]
          /\ Return(r, "ok")
          /\ NoFault
       \/ Fault /\ Return(r, "error") /\ UNCHANGED <<chats, members>>
    /\ UNCHANGED <<users, target, todo, known, overlap, thinned, emptier, joined>>

Handler(r) ==
    \/ Start(r) \/ FindPrivateChat(r) \/ InsertGroup(r) \/ JoinNewChat(r)
    \/ Commit(r) \/ AddParticipant(r) \/ AllAdded(r) \/ RemoveParticipants(r)
    \/ CountParticipants(r) \/ DeleteChat(r)

\* DELETE FROM users of DeleteAccount: waits for the transactions that hold the
\* row, then takes the user out of all chats.
DeleteUser(u) ==
    /\ u \in users \cap Quitters
    /\ \A r \in Requests : u \notin held[r]
    /\ users' = users \ {u}
    /\ Without([c \in Creations |-> members[c] \ {u}], None)
    /\ UNCHANGED <<chats, local, faults, known, overlap, joined>>

\* Nobody has to ask for anything.
Idle == (\A r \in Requests : ~Active(r)) /\ UNCHANGED vars

Next == (\E r \in Requests : Handler(r)) \/ (\E u \in Users : DeleteUser(u)) \/ Idle

Spec == Init /\ [][Next]_vars

-----------------------------------------------------------------------------
\* Two users get a second private chat only when both asked at the same time,
\* whoever asked first, unless a participant of the first had been removed
\* (chat_repository.go 36-57: nothing in the schema forbids the second row).
SecondPrivateChatNeedsRace ==
    \A c, d \in chats :
        c # d /\ Kind[c] = "private" /\ Kind[d] = "private" /\ Pair(c) = Pair(d)
        => <<c, d>> \in overlap \/ c \in thinned \/ d \in thinned

\* LeaveGroup (chat_service.go 79-100) deletes the chat together with users who
\* are in it only if they were added after it had counted.
LeaveSparesOthers ==
    [][\A r \in Requests :
          /\ Kind[r] = "leave" /\ pc[r] = "drop"
          /\ target[r] \in chats \ chats'
          /\ outcome'[r] # outcome[r]
          => members[target[r]] \subseteq joined[r]]_vars

\* When the last participant leaves, the chat goes: of users who leave at the
\* same time one sees the empty chat, however their statements interleave.
LastLeaverDeletes ==
    \A c \in chats :
        members[c] = {} /\ emptier[c] # None =>
            LET r == emptier[c]
            IN ~(Kind[r] = "leave" /\ pc[r] = "done" /\ outcome[r] = "ok")
=============================================================================
