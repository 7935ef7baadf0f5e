---------------------------- MODULE MessageService ----------------------------
(***************************************************************************)
(* internal/message/message_server.go, message_service.go and              *)
(* message_repository.go for one chat: the SendMessage, EditMessage and    *)
(* DeleteMessage handlers, each a goroutine that issues one autocommitted  *)
(* SQL statement after another while other handlers change the rows and    *)
(* the chat's participants under it.  A message is named by the request    *)
(* that sends it and a content by the request that wrote it.               *)
(*                                                                         *)
(* feed[u] is what ConnectionManager.Publish was called with for user u,   *)
(* in order; MessageFeed says what becomes of it.  Any statement may fail. *)
(***************************************************************************)
EXTENDS Naturals, Sequences, SequencesExt

CONSTANTS Users, Requests,
          Kind,         \* "send", "edit" or "delete"
          By,           \* the authenticated user of a request
          Target,       \* the message it is about; itself for a send
          ReplyTo,      \* the message a send quotes, or None
          Founders,     \* participants at the start
          MaxChanges,   \* bound: changes of the participants
          MaxFaults,    \* bound: statements that fail for no reason of their own
          Blank,        \* the empty content of a deleted message
          None

Messages == {r \in Requests : Kind[r] = "send"}
Contents == Requests \cup {Blank}

ASSUME MessageAssumption ==
    /\ Kind \in [Requests -> {"send", "edit", "delete"}]
    /\ By \in [Requests -> Users]
    /\ Target \in [Requests -> Messages]
    /\ \A m \in Messages : Target[m] = m
    /\ ReplyTo \in [Requests -> Messages \cup {None}]
    /\ Founders \subseteq Users
    /\ MaxChanges \in Nat /\ MaxFaults \in Nat
    /\ Blank \notin Requests /\ None \notin Contents

VARIABLES
    exists,     \* the chats row
    members,    \* chat_participants of the chat
    row,        \* messages: status and encrypted_content
    logs,       \* audit_logs: by the service and by the interceptor
    feed,       \* events published to each user, in order
    pc,         \* where each handler is
    todo,       \* participants its loop has still to notify
    quote,      \* parent content read by the server and by the service
    outcome,    \* what the handler returns
    changes,    \* number of participant changes so far
    faults,     \* number of failed statements so far
    written,    \* history: contents a message has had
    present,    \* history: users who were members while the handler ran
    stable      \* history: users who were members all that time

db == <<exists, members, row, logs>>
local == <<pc, todo, quote, outcome>>
history == <<changes, written, present, stable>>
vars == <<db, feed, local, faults, history>>

Rows == [status : {"absent", "live", "deleted"}, content : Contents \cup {None}]
NoRow == [status |-> "absent", content |-> None]
Events == [kind : {"new", "edited", "deleted"}, msg : Messages, by : Requests,
           content : Contents, quote : Contents \cup {None}]
Labels == {"new", "parent", "check", "insert", "quote", "update", "audit",
           "audience", "publish", "audience2", "publish2", "log", "done"}

TypeOK ==
    /\ exists \in BOOLEAN
    /\ members \in SUBSET Users
    /\ row \in [Messages -> Rows]
    /\ logs \subseteq Requests \X {"service", "rpc"}
    /\ feed \in [Users -> Seq(Events)]
    /\ pc \in [Requests -> Labels]
    /\ todo \in [Requests -> SUBSET Users]
    /\ quote \in [Requests -> [server : Contents \cup {None},
                               service : Contents \cup {None}]]
    /\ outcome \in [Requests -> {"none", "ok", "error"}]
    /\ changes \in 0..MaxChanges
    /\ faults \in 0..MaxFaults
    /\ written \in [Messages -> SUBSET Contents]
    /\ present \in [Requests -> SUBSET Users]
    /\ stable \in [Requests -> SUBSET Users]

Init ==
    /\ exists = TRUE
    /\ members = Founders
    /\ row = [m \in Messages |-> NoRow]
    /\ logs = {}
    /\ feed = [u \in Users |-> <<>>]
    /\ pc = [r \in Requests |-> "new"]
    /\ todo = [r \in Requests |-> {}]
    /\ quote = [r \in Requests |-> [server |-> None, service |-> None]]
    /\ outcome = [r \in Requests |-> "none"]
    /\ changes = 0
    /\ faults = 0
    /\ written = [m \in Messages |-> {}]
    /\ present = [r \in Requests |-> {}]
    /\ stable = [r \in Requests |-> {}]

Active(r) == pc[r] \notin {"new", "done"}
Goto(r, label) == pc' = [pc EXCEPT ![r] = label]
Return(r, result) ==
    /\ outcome' = [outcome EXCEPT ![r] = result]
    /\ Goto(r, "log")

\* A statement fails: a lost connection, a cancelled request context.
Fault == faults < MaxFaults /\ faults' = faults + 1
NoFault == UNCHANGED faults

-----------------------------------------------------------------------------
(* Handlers                                                                *)

\* A request passes the interceptors and enters its handler.
Start(r) ==
    /\ pc[r] = "new"
    /\ Goto(r, IF Kind[r] # "send" THEN "update"
               ELSE IF ReplyTo[r] # None THEN "parent" ELSE "check")
    /\ present' = [present EXCEPT ![r] = members]
    /\ stable' = [stable EXCEPT ![r] = members]
    /\ UNCHANGED <<db, feed, todo, quote, outcome, faults, changes, written>>

\* GetMessage of the parent: its content, or None for no row or an error.
ReadParentInto(r, reader) ==
    \E seen \in {row[ReplyTo[r]].content, None} :
        /\ quote' = [quote EXCEPT ![r][reader] = seen]
        /\ IF seen = row[ReplyTo[r]].content THEN NoFault ELSE Fault

\* The server handler reads the parent for its own publication.
ReadParent(r) ==
    /\ pc[r] = "parent"
    /\ ReadParentInto(r, "server")
    /\ Goto(r, "check")
    /\ UNCHANGED <<db, feed, todo, outcome, history>>

\* Mutant: the chat is checked, not the membership.
CheckChat(r) ==
    /\ pc[r] = "check"
    /\ IF exists THEN Goto(r, "insert") /\ UNCHANGED outcome
                 ELSE Return(r, "error")
    /\ UNCHANGED <<db, feed, todo, quote, faults, history>>

\* service.SendMessage, IsParticipant
CheckParticipant(r) ==
    /\ pc[r] = "check"
    /\ \/ By[r] \in members /\ NoFault /\ Goto(r, "insert") /\ UNCHANGED outcome
       \/ By[r] \notin members /\ NoFault /\ Return(r, "error")
       \/ Fault /\ Return(r, "error")
    /\ UNCHANGED <<db, feed, todo, quote, history>>

\* INSERT INTO messages; the foreign keys need the chat and the parent row.
InsertAllowed(r) ==
    /\ exists
    /\ ReplyTo[r] # None => row[ReplyTo[r]].status # "absent"

\* Mutant: the error of the INSERT is ignored.
InsertUnchecked(r) ==
    /\ pc[r] = "insert"
    /\ \/ /\ InsertAllowed(r)
          /\ row' = [row EXCEPT ![r] = [status |-> "live", content |-> r]]
          /\ written' = [written EXCEPT ![r] = {r}]
          /\ NoFault
       \/ Fault /\ UNCHANGED <<row, written>>
    /\ Goto(r, IF ReplyTo[r] # None THEN "quote" ELSE "audience")
    /\ UNCHANGED <<exists, members, logs, feed, todo, quote, outcome,
                   changes, present, stable>>

InsertMessage(r) ==
    /\ pc[r] = "insert"
    /\ \/ /\ InsertAllowed(r)
          /\ row' = [row EXCEPT ![r] = [status |-> "live", content |-> r]]
          /\ written' = [written EXCEPT ![r] = {r}]
          /\ Goto(r, IF ReplyTo[r] # None THEN "quote" ELSE "audience")
          /\ NoFault
          /\ UNCHANGED outcome
       \/ /\ IF InsertAllowed(r) THEN Fault ELSE NoFault
          /\ Return(r, "error")
          /\ UNCHANGED <<row, written>>
    /\ UNCHANGED <<exists, members, logs, feed, todo, quote,
                   changes, present, stable>>

\* The service reads the parent again, after the INSERT.
ReadQuote(r) ==
    /\ pc[r] = "quote"
    /\ ReadParentInto(r, "service")
    /\ Goto(r, "audience")
    /\ UNCHANGED <<db, feed, todo, outcome, history>>

\* Mutant: the UPDATE without is_deleted = false.
EditsDeleted(r) ==
    /\ row[Target[r]].status # "absent"
    /\ By[Target[r]] = By[r]

\* UPDATE messages SET encrypted_content WHERE ... AND is_deleted = false
EditMatches(r) ==
    /\ row[Target[r]].status = "live"
    /\ By[Target[r]] = By[r]

\* UPDATE messages SET encrypted_content = '', is_deleted = true WHERE ...
DeleteMatches(r) ==
    /\ row[Target[r]].status # "absent"
    /\ By[Target[r]] = By[r]

\* Mutant: a deletion sets is_deleted and keeps the content.
FlaggedRow(r) ==
    IF Kind[r] = "edit" THEN [status |-> "live", content |-> r]
    ELSE [status |-> "deleted", content |-> row[Target[r]].content]

NewRow(r) == IF Kind[r] = "edit" THEN [status |-> "live", content |-> r]
                                 ELSE [status |-> "deleted", content |-> Blank]

UpdateMatches(r) == IF Kind[r] = "edit" THEN EditMatches(r) ELSE DeleteMatches(r)

\* An UPDATE that matches no row returns none: message not found or access denied.
UpdateMessage(r) ==
    /\ pc[r] = "update"
    /\ \/ /\ UpdateMatches(r)
          /\ row' = [row EXCEPT ![Target[r]] = NewRow(r)]
          /\ written' = [written EXCEPT ![Target[r]] = @ \cup {NewRow(r).content}]
          /\ Goto(r, "audit")
          /\ NoFault
          /\ UNCHANGED outcome
       \/ /\ IF UpdateMatches(r) THEN Fault ELSE NoFault
          /\ Return(r, "error")
          /\ UNCHANGED <<row, written>>
    /\ UNCHANGED <<exists, members, logs, feed, todo, quote,
                   changes, present, stable>>

InsertLog(entry) ==
    \/ logs' = logs \cup {entry} /\ NoFault
    \/ Fault /\ UNCHANGED logs

\* auditService.CreateLog, its error ignored
AuditChange(r) ==
    /\ pc[r] = "audit"
    /\ InsertLog(<<r, "service">>)
    /\ Goto(r, "audience")
    /\ UNCHANGED <<exists, members, row, feed, todo, quote, outcome, history>>

\* GetChatParticipants, excluding the sender.  An error of the query skips the
\* loop; one between two rows ends the list early (rows.Err is not asked).
\* A send reads them twice: in the service, then again in the server.
ReadAudience(r) ==
    /\ \/ pc[r] = "audience" /\ Goto(r, "publish")
       \/ pc[r] = "audience2" /\ Goto(r, "publish2")
    /\ \/ /\ todo' = [todo EXCEPT ![r] = members \ {By[r]}]
          /\ NoFault
          /\ UNCHANGED stable
       \/ /\ Fault
          /\ \E part \in SUBSET (members \ {By[r]}) :
               todo' = [todo EXCEPT ![r] = part]
          /\ stable' = [stable EXCEPT ![r] = {}]
    /\ UNCHANGED <<db, feed, quote, outcome, changes, written, present>>

\* The second publication of a send carries the quote the server read first.
EventOf(r) ==
    [kind |-> CASE Kind[r] = "send" -> "new"
                [] Kind[r] = "edit" -> "edited"
                [] Kind[r] = "delete" -> "deleted",
     msg |-> Target[r],
     by |-> r,
     content |-> IF Kind[r] = "delete" THEN Blank ELSE r,
     quote |-> IF pc[r] = "publish2" THEN quote[r].server ELSE quote[r].service]

\* One Publish call of the loop over the participants.
Publish(r, u) ==
    /\ pc[r] \in {"publish", "publish2"}
    /\ u \in todo[r]
    /\ feed' = [feed EXCEPT ![u] = Append(@, EventOf(r))]
    /\ todo' = [todo EXCEPT ![r] = @ \ {u}]
    /\ UNCHANGED <<db, pc, quote, outcome, faults, history>>

\* Mutant: only the service publishes a new message.
LoopEndsOnce(r) ==
    /\ pc[r] \in {"publish", "publish2"}
    /\ todo[r] = {}
    /\ Return(r, "ok")
    /\ UNCHANGED <<db, feed, todo, quote, faults, history>>

LoopEnds(r) ==
    /\ pc[r] \in {"publish", "publish2"}
    /\ todo[r] = {}
    /\ IF pc[r] = "publish" /\ Kind[r] = "send"
         THEN Goto(r, "audience2") /\ UNCHANGED outcome
         ELSE Return(r, "ok")
    /\ UNCHANGED <<db, feed, todo, quote, faults, history>>

\* AuditMiddleware.Unary after the handler; a failed INSERT is only logged.
AuditRequest(r) ==
    /\ pc[r] = "log"
    /\ InsertLog(<<r, "rpc">>)
    /\ Goto(r, "done")
    /\ UNCHANGED <<exists, members, row, feed, todo, quote, outcome, history>>

Handler(r) ==
    \/ Start(r) \/ ReadParent(r) \/ CheckParticipant(r) \/ InsertMessage(r)
    \/ ReadQuote(r) \/ UpdateMessage(r) \/ AuditChange(r) \/ ReadAudience(r)
    \/ (\E u \in Users : Publish(r, u)) \/ LoopEnds(r) \/ AuditRequest(r)

-----------------------------------------------------------------------------
(* The chat service, changing the participants meanwhile.  LeaveGroup is a *)
(* removal, followed by DeleteChat when nobody is left.                    *)

SetMembers(M) ==
    /\ changes < MaxChanges
    /\ changes' = changes + 1
    /\ members' = M
    /\ present' = [r \in Requests |->
                     IF Active(r) THEN present[r] \cup M ELSE present[r]]
    /\ stable' = [r \in Requests |->
                    IF Active(r) THEN stable[r] \cap M ELSE stable[r]]
    /\ UNCHANGED <<logs, feed, local, faults, written>>

\* One INSERT of the loop of AddParticipants
AddParticipant(u) ==
    /\ exists
    /\ u \notin members
    /\ SetMembers(members \cup {u})
    /\ UNCHANGED <<exists, row>>

\* DELETE FROM chat_participants WHERE ... user_id = ANY($2)
RemoveParticipants(U) ==
    /\ U # {}
    /\ SetMembers(members \ U)
    /\ UNCHANGED <<exists, row>>

\* DELETE FROM chats; participants and messages go by ON DELETE CASCADE.
DeleteChat ==
    /\ exists
    /\ exists' = FALSE
    /\ row' = [m \in Messages |-> NoRow]
    /\ SetMembers({})

ChatService ==
    \/ \E u \in Users : AddParticipant(u)
    \/ \E U \in SUBSET members : RemoveParticipants(U)
    \/ DeleteChat

\* Nothing is running, and nobody has to ask for anything.
Idle == (\A r \in Requests : ~Active(r)) /\ UNCHANGED vars

Next == (\E r \in Requests : Handler(r)) \/ ChatService \/ Idle

Spec == Init /\ [][Next]_vars

-----------------------------------------------------------------------------
\* Nothing is announced that is not in the database: an event for a message
\* carries a content, the blank one of a deletion included, that was committed
\* to its row before.
EventsFollowCommits ==
    \A u \in Users : \A e \in ToSet(feed[u]) : e.content \in written[e.msg]

\* A deleted message stays deleted and blank, whatever edits of it are under
\* way (message_repository.go 187-188); only the deletion of the chat removes it.
DeletedIsFinal ==
    [][\A m \in Messages :
          row[m].status = "deleted" => row'[m] \in {row[m], NoRow}]_vars

\* A reply that reads its parent after the parent's deletion committed quotes
\* nothing of it, in either of the two publications.
DeletedIsNotQuoted ==
    [][\A r \in Messages :
          ReplyTo[r] # None /\ row[ReplyTo[r]].status = "deleted"
          /\ quote'[r] # quote[r]
          => \E f \in {"server", "service"} :
               \E c \in {None, Blank} : quote'[r] = [quote[r] EXCEPT ![f] = c]]_vars

AudienceWereMembers ==
    \A u \in Users : \A e \in ToSet(feed[u]) :
        u \in present[e.by] \ {By[e.by]}

PostersWereMembers ==
    \A m \in Messages : written[m] # {} => By[m] \in present[m]

\* Only participants take part, although the check, the INSERT and two reads of
\* the participants are separate statements: a message gets into the chat only
\* from a user who was a participant while the request ran, and only users who
\* were, the sender excepted, hear of a request.
OnlyMembersTakePart == PostersWereMembers /\ AudienceWereMembers

Notices(r, u) == Cardinality({i \in DOMAIN feed[u] : feed[u][i].by = r})

\* Who was a participant during the whole of a successful request, and was
\* read as one, has been notified when it returns: once of an edit or deletion
\* and, because service and server both publish, twice of a new message.
StableMembersNotified ==
    \A r \in Requests :
        outcome[r] = "ok" =>
            \A u \in stable[r] \ {By[r]} :
                Notices(r, u) = IF Kind[r] = "send" THEN 2 ELSE 1
=============================================================================
