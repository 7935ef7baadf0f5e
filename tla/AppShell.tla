------------------------------ MODULE AppShell ------------------------------
(***************************************************************************)
(* Contacts and ChatDialogs in one page, with the beginning and the end of *)
(* its sessions, and other browsers and users at work meanwhile.           *)
(***************************************************************************)
EXTENDS Contacts, ChatDialogs

CONSTANTS FirstUser,     \* user who is logged in at the start
          FirstContacts, \* rows of contacts at the start
          FirstChats     \* chats at the start

\* None is no modal that is open.
Boxes == [tab : {"contacts", "blocked"}, contacts : SUBSET Users, loading : BOOLEAN,
          details : SUBSET Users, detailsLoading : BOOLEAN, results : SUBSET Users]
Dialogs == [type : {"private", "group"}, step : {"search", "confirm"}, target : Users \cup {None},
            members : SUBSET Users, results : SUBSET Users, loading : BOOLEAN]
Infos == [tab : {"participants", "add", "logs"}, participants : SUBSET Users,
          loading : BOOLEAN, results : SUBSET Users, logs : Nat]

ASSUME NoneAssumption == None \notin Boxes \cup Dialogs \cup Infos

\* Who has made a group takes part in it, as long as there is one: the client
\* offers its creator neither to leave nor to remove himself.
Chats == [type : {"private", "group"}, creator : Users, members : SUBSET Users]
KeepsCreator(chat) ==
    chat.type = "group" /\ chat.creator \in Local /\ chat.members # {} =>
        chat.creator \in chat.members

ASSUME FirstAssumption ==
    /\ FirstUser \in Local
    /\ FirstChats \in Seq(Chats)
    /\ \A i \in DOMAIN FirstChats : KeepsCreator(FirstChats[i])

Init ==
    /\ accounts = Users
    /\ contacts = FirstContacts /\ blocked = {} /\ chats = FirstChats
    /\ user = FirstUser /\ blockedUsers = {}
    /\ page = 0 /\ sidebar = ChatsOf(FirstUser)
    /\ box = None /\ dialog = None /\ info = None
    /\ calls = {} /\ ops = 0 /\ faults = 0
    /\ excused = FALSE /\ stale = {} /\ searched = FALSE

\* A link of the list of chats.
OpenChat(i) ==
    /\ user # None /\ NoModal
    /\ i \in sidebar \ {page}
    /\ page' = i
    /\ UNCHANGED <<server, session, sidebar, modals, calls, bounds, history>>

\* login leaves blockedUsers as the last session left it.
Login(u) ==
    /\ user = None
    /\ Count
    /\ user' = u
    /\ calls' = StartedBy(u, 0, calls, "chats", None, "page")
    /\ excused' = (blockedUsers # BlockedBy(u))
    /\ stale' = stale \ {"sidebar"}
    /\ UNCHANGED <<server, blockedUsers, page, sidebar, modals, faults, searched>>

\* logout: AppLayout goes, its calls stay.
Logout ==
    /\ user # None
    /\ Count
    /\ user' = None
    /\ blockedUsers' = {}
    /\ page' = 0 /\ sidebar' = {}
    /\ box' = None /\ dialog' = None /\ info' = None
    /\ calls' = {[c EXCEPT !.home = IF @ = "dead" THEN @ ELSE "left"] : c \in calls}
    /\ UNCHANGED <<server, faults, history>>

\* The password was changed, or the page is loaded by hand; blockedUsers comes
\* back from localStorage.
LeavePage ==
    /\ user # None
    /\ Count
    /\ \E u \in {user, None} : LoadPage(u)
    /\ UNCHANGED <<server, blockedUsers, faults, searched>>

-----------------------------------------------------------------------------
(* Elsewhere                                                               *)

\* The user blocks or unblocks somebody in another browser.
BlockElsewhere(u, v) ==
    /\ Count
    /\ u # v
    /\ blocked' = IF <<u, v>> \in blocked THEN blocked \ {<<u, v>>} ELSE blocked \cup {<<u, v>>}
    /\ excused' = TRUE
    /\ stale' = stale \cup {"details"}
    /\ UNCHANGED <<accounts, contacts, chats, session, page, sidebar, modals, calls, faults,
                   searched>>

\* Another user's account is deleted, and with it all but the blocks.
AccountDeleted(v) ==
    /\ Count
    /\ v \in accounts \ Local
    /\ accounts' = accounts \ {v}
    /\ contacts' = {row \in contacts : v \notin {row[1], row[2]}}
    /\ chats' = [i \in DOMAIN chats |-> [chats[i] EXCEPT !.members = @ \ {v}]]
    /\ stale' = stale \cup {"contacts", "details", "participants"}
    /\ UNCHANGED <<blocked, session, page, sidebar, modals, calls, faults, excused, searched>>

\* Another user makes a group with this one.
Invited(v) ==
    /\ Count
    /\ user # None /\ v \in accounts \ {user}
    /\ chats' = Append(chats, [type |-> "group", creator |-> v, members |-> {v, user}])
    /\ stale' = stale \cup {"sidebar"}
    /\ UNCHANGED <<accounts, contacts, blocked, session, page, sidebar, modals, calls, faults,
                   excused, searched>>

\* The creator of a group removes this user from it.
Removed(i) ==
    /\ Count
    /\ user # None /\ chats[i].type = "group" /\ user \in chats[i].members
    /\ chats[i].creator \in chats[i].members \ {user}
    /\ chats' = [chats EXCEPT ![i].members = @ \ {user}]
    /\ stale' = stale \cup {"sidebar", "participants"}
    /\ UNCHANGED <<accounts, contacts, blocked, session, page, sidebar, modals, calls, faults,
                   excused, searched>>

Next ==
    \/ ContactsNext \/ DialogsNext
    \/ \E i \in sidebar : OpenChat(i)
    \/ \E u \in Local : Login(u)
    \/ Logout \/ LeavePage
    \/ \E u \in Local, v \in Users : BlockElsewhere(u, v)
    \/ \E v \in Users : AccountDeleted(v) \/ Invited(v)
    \/ \E i \in DOMAIN chats : Removed(i)

Spec == Init /\ [][Next]_vars

-----------------------------------------------------------------------------
\* Once no block is under way, the page hides and refuses whom the server has
\* as blocked, although nothing compares the two (AuthContext.jsx 11-18 and
\* 171-179, ContactsModal.jsx 95-124).  Excused is only a user who logged in
\* with other blocks than the page had, who blocked somebody elsewhere, whose
\* answer was lost with the page or on its way, or came after an opposite one
\* or in another session.
BlockListsAgree ==
    /\ user # None
    /\ ~excused
    /\ \A c \in calls : c.op \notin {"block", "unblock"}
    => blockedUsers = BlockedBy(user)

\* When no call is under way each list that is shown is the server's, and the
\* journal, of which only the chat is kept, that of the open chat.  Excused is a
\* list that other users or browsers, a request that failed or was refused, a
\* modal that was closed or an answer that was old when it came may have
\* changed, the list of chats after openChat made one (ContactsModal.jsx
\* 126-140), and the list of blocks when a block is served later than it:
\* blockContact only loads the contacts again (ContactsModal.jsx 95-111).
ListsFreshWhenQuiet ==
    calls = {} /\ user # None =>
        /\ box # None /\ box.tab = "contacts" /\ "contacts" \notin stale =>
             box.contacts = ContactsOf(user)
        /\ box # None /\ box.tab = "blocked" /\ "details" \notin stale =>
             box.details = BlockedBy(user) \cap accounts
        /\ "sidebar" \notin stale => sidebar = ChatsOf(user)
        /\ info # None /\ "participants" \notin stale => info.participants = MembersOf(page)
        /\ info # None /\ info.tab = "logs" /\ ShowsLogs(page) /\ "logs" \notin stale =>
             info.logs = page

\* One dialog creates two chats at a time only when a search ended while it
\* created the first: both share the flag that disables the button
\* (CreateChatModal.jsx 18-30, 58-116).
TwoCreationsNeedSearch ==
    (\E c, d \in calls : /\ c # d /\ c.home = "dialog" /\ d.home = "dialog"
                         /\ c.op \in Creations /\ d.op \in Creations)
    => searched
=============================================================================
