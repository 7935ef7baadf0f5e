------------------------------ MODULE Contacts ------------------------------
(***************************************************************************)
(* ContactsModal.jsx with updateBlockedUsers of AuthContext.jsx, and the   *)
(* handlers of internal/contact.  A block is two facts: a row of           *)
(* blocked_contacts, which no handler asks for, and an entry of            *)
(* blockedUsers, which hides messages and stops the composer.  Nothing     *)
(* loads the second from the first.                                        *)
(***************************************************************************)
EXTENDS Shell

NewBox == [tab |-> "contacts", contacts |-> {}, loading |-> TRUE, details |-> {},
           detailsLoading |-> FALSE, results |-> {}]

OpenBox ==
    /\ user # None /\ NoModal
    /\ Count
    /\ box' = NewBox
    /\ calls' = Started(calls, "contacts", None, "box")
    /\ stale' = stale \ {"contacts", "details"}
    /\ UNCHANGED <<server, session, page, sidebar, dialog, info, faults, excused, searched>>

CloseBox ==
    /\ box # None
    /\ box' = None
    /\ calls' = Orphaned(calls, "box")
    /\ UNCHANGED <<server, session, page, sidebar, dialog, info, bounds, history>>

\* The effect on activeTab loads the list of the tab.
SwitchTab ==
    /\ box # None
    /\ Count
    /\ IF box.tab = "blocked"
         THEN /\ box' = [box EXCEPT !.tab = "contacts", !.loading = TRUE]
              /\ calls' = Started(calls, "contacts", None, "box")
         ELSE /\ box' = [box EXCEPT !.tab = "blocked", !.detailsLoading = TRUE]
              /\ calls' = Started(calls, "details", None, "box")
    /\ UNCHANGED <<server, session, page, sidebar, dialog, info, faults, history>>

\* The buttons of the modal and the checks of their handlers.
Offered(op, v) ==
    /\ box # None
    /\ CASE op = "search" -> box.tab = "contacts" /\ v = None
         [] op = "add" -> box.tab = "contacts" /\ v \in box.results /\ v # user
         [] op \in {"delete", "chat"} -> box.tab = "contacts" /\ ~box.loading /\ v \in box.contacts
         [] op = "block" -> /\ box.tab = "contacts" /\ ~box.loading
                            /\ v \in box.contacts \ blockedUsers
         [] op = "unblock" -> box.tab = "blocked" /\ ~box.detailsLoading /\ v \in box.details

Click(op, v) ==
    /\ Offered(op, v)
    /\ Count
    /\ calls' = Started(calls, op, v, "box")
    /\ UNCHANGED <<server, session, page, sidebar, modals, faults, history>>

-----------------------------------------------------------------------------
(* internal/contact                                                        *)

ContactOps == {"contacts", "details", "search", "add", "delete", "block", "unblock", "chat"}

\* SearchUsers, GetContacts and GetBlockedUsers join users.
AnswerOf(c) ==
    CASE c.op = "contacts" -> ContactsOf(c.by)
      [] c.op = "details" -> BlockedBy(c.by) \cap accounts
      [] c.op = "search" -> accounts
      [] c.op = "chat" -> PrivateChatIn(c.by, c.arg)
      [] OTHER -> {}

\* contacts and chat_participants refer to users, blocked_contacts does not.
MayServe(c) == c.by \in accounts /\ (c.op \in {"add", "chat"} => c.arg \in accounts)

\* AddContact, DeleteContact, BlockContact, UnblockContact and the reads
ServeContacts(c) ==
    /\ c.phase = "sent" /\ c.op \in ContactOps
    /\ MayServe(c)
    /\ LET row == <<c.by, c.arg>>
       IN /\ contacts' = CASE c.op = "add" -> contacts \cup {row}
                           [] c.op = "delete" -> contacts \ {row}
                           [] OTHER -> contacts
          /\ blocked' = CASE c.op = "block" -> blocked \cup {row}
                          [] c.op = "unblock" -> blocked \ {row}
                          [] OTHER -> blocked
    /\ chats' = IF c.op = "chat" THEN WithPrivateChat(c.by, c.arg) ELSE chats
    /\ calls' = Answered(calls, c, AnswerOf(c))
    /\ excused' = (excused \/ (c.home = "dead" /\ blocked' # blocked))
    /\ stale' = stale \cup (IF chats' # chats THEN {"sidebar"} ELSE {})
                      \cup (IF c.home # "box" THEN {"contacts", "details"} ELSE {})
                      \cup (IF c.op = "block" THEN {"details"} ELSE {})
    /\ UNCHANGED <<accounts, session, page, sidebar, modals, bounds, searched>>

-----------------------------------------------------------------------------
(* Answers                                                                 *)

\* Mutant: the list of the page is left to the next login.
BlocksUnchanged(c) == blockedUsers

\* updateBlockedUsers, of the context and therefore also after the modal is gone.
BlocksAfter(c) ==
    CASE c.op = "block" -> blockedUsers \cup {c.arg}
      [] c.op = "unblock" -> blockedUsers \ {c.arg}
      [] OTHER -> blockedUsers

\* Answers about blocks that the page has not got yet.
BlockAnswers(cs) ==
    {<<d.op, d.arg>> : d \in {e \in cs : e.phase = "answered" /\ e.op \in {"block", "unblock"}}}

SaysOf(isBlocked) == IF isBlocked THEN "block" ELSE "unblock"

\* What the answer says is not what the server says by now, and the answer that
\* says so has come before; or the user is another one.
Crossed(c) ==
    /\ c.op \in {"block", "unblock"}
    /\ \/ c.by # user
       \/ LET now == SaysOf(c.arg \in BlockedBy(user))
          IN c.op # now /\ <<now, c.arg>> \notin BlockAnswers(calls)

LoadAfter(op) == IF op = "unblock" THEN "details" ELSE "contacts"

\* loadContacts or loadBlockedUsers after a change, by the handler of the change
ReloadAfter(c) ==
    /\ calls' = GoesOn(calls, c, LoadAfter(c.op))
    /\ box' = IF c.home # "box" THEN box
              ELSE IF c.op = "unblock" THEN [box EXCEPT !.detailsLoading = TRUE]
              ELSE [box EXCEPT !.loading = TRUE]

SettleChange(c) ==
    /\ c.phase = "answered" /\ c.op \in {"add", "delete", "block", "unblock"}
    /\ blockedUsers' = BlocksAfter(c)
    /\ ReloadAfter(c)
    /\ excused' = (excused \/ Crossed(c))
    /\ UNCHANGED <<server, user, page, sidebar, dialog, info, bounds, stale, searched>>

\* setContacts, setBlockedDetails and setSearchResults; finally ends the loading.
SettleContacts(c) ==
    /\ c.phase = "answered" /\ c.op \in {"contacts", "details", "search"}
    /\ calls' = calls \ {c}
    /\ IF c.home # "box" THEN UNCHANGED <<box, stale>>
       ELSE CASE c.op = "contacts" ->
                   /\ box' = [box EXCEPT !.contacts = c.answer, !.loading = FALSE]
                   /\ SetList("contacts", c.answer, ContactsOf(user))
              [] c.op = "details" ->
                   /\ box' = [box EXCEPT !.details = c.answer, !.detailsLoading = FALSE]
                   /\ SetList("details", c.answer, BlockedBy(user) \cap accounts)
              [] c.op = "search" ->
                   /\ box' = [box EXCEPT !.results = c.answer]
                   /\ UNCHANGED stale
    /\ UNCHANGED <<server, session, page, sidebar, dialog, info, bounds, excused, searched>>

\* openChat goes to the chat and closes the modal of its AppLayout, this one or
\* the next; the list of chats is not loaded again.
SettleOpenChat(c) ==
    /\ c.phase = "answered" /\ c.op = "chat"
    /\ \E i \in c.answer : /\ Navigate(i)
                           /\ calls' = InfoFollows(i, IF c.home = "left" THEN calls \ {c}
                                                      ELSE Orphaned(calls \ {c}, "box"))
    /\ box' = IF c.home = "left" THEN box ELSE None
    /\ UNCHANGED <<server, session, sidebar, dialog, bounds, history>>

\* The request is refused or fails, or its answer is lost: a message, and
\* finally ends the loading.
FailContacts(c) ==
    /\ c.op \in ContactOps
    /\ IF c.phase = "sent" /\ (~MayServe(c) \/ c.home = "dead") THEN UNCHANGED faults ELSE Fault
    /\ calls' = calls \ {c}
    /\ box' = CASE c.home = "box" /\ c.op = "contacts" -> [box EXCEPT !.loading = FALSE]
                [] c.home = "box" /\ c.op = "details" -> [box EXCEPT !.detailsLoading = FALSE]
                [] OTHER -> box
    /\ excused' = (excused \/ (c.phase = "answered" /\ c.op \in {"block", "unblock"}))
    /\ stale' = IF c.home = "box" THEN stale \cup {"contacts", "details"} ELSE stale
    /\ UNCHANGED <<server, session, page, sidebar, dialog, info, ops, searched>>

ContactsNext ==
    \/ OpenBox \/ CloseBox \/ SwitchTab
    \/ \E op \in ContactOps, v \in Users \cup {None} :
         op \notin {"contacts", "details"} /\ Click(op, v)
    \/ \E c \in calls : \/ ServeContacts(c) \/ SettleChange(c) \/ SettleContacts(c)
                        \/ SettleOpenChat(c) \/ FailContacts(c)
=============================================================================
