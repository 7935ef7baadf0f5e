-------------------------------- MODULE Shell -------------------------------
(***************************************************************************)
(* What the screens around the chat share: AppLayout.jsx with its modals,  *)
(* the list of blocked users in AuthContext.jsx, the requests of chatApi.js *)
(* that are under way, and the rows of contacts, blocked_contacts and of   *)
(* the chats that the server keeps for them.  Contacts and ChatDialogs     *)
(* extend this module, AppShell puts them together.                        *)
(*                                                                         *)
(* An asynchronous handler of the client is a call: it is sent, served or  *)
(* refused, and settled, in any order, and when it goes on with another    *)
(* request it stays the same call.  A call of a modal that was closed goes *)
(* on and what it sets in the modal is lost; a page that is loaded anew    *)
(* forgets its calls, and the server may still serve them.                 *)
(***************************************************************************)
EXTENDS Naturals, Sequences, FiniteSets

CONSTANTS Users,
          Local,    \* users who log in to this browser
          MaxOps,   \* bound: clicks and events elsewhere
          MaxFaults,\* bound: requests that fail or whose answer is lost
          None

ASSUME ShellAssumption ==
    /\ Local \subseteq Users
    /\ MaxOps \in Nat /\ MaxFaults \in Nat
    /\ None \notin Users

VARIABLES
    accounts,       \* users
    contacts,       \* rows of contacts: pairs of an owner and another user
    blocked,        \* rows of blocked_contacts
    chats,          \* chats with their participants; no participants: deleted
    user,           \* user of the page, or None
    blockedUsers,   \* AuthContext, and by its effect localStorage
    page,           \* AppLayout: chat that was opened last, or 0
    sidebar,        \* useChats: chats of the list
    box,            \* ContactsModal, or None
    dialog,         \* CreateChatModal, or None
    info,           \* ChatInfoModal, or None
    calls,          \* calls under way
    ops, faults,    \* numbers of what the bounds limit
    excused,        \* history: the two lists of blocks may differ
    stale,          \* history: lists that may be out of date
    searched        \* history: a search ended in this dialog while a creation was under way

server == <<accounts, contacts, blocked, chats>>
session == <<user, blockedUsers>>
modals == <<box, dialog, info>>
bounds == <<ops, faults>>
history == <<excused, stale, searched>>
vars == <<server, session, page, sidebar, modals, calls, bounds, history>>

ListNames == {"contacts", "details", "sidebar", "participants", "logs"}

\* Where the state of a handler is: in an open modal, in AppLayout, gone with a
\* modal, left with AppLayout by a logout, or dead with the page.
Homes == {"box", "dialog", "info", "page", "gone", "left", "dead"}

Count == ops < MaxOps /\ ops' = ops + 1
Fault == faults < MaxFaults /\ faults' = faults + 1

NewId(cs) == CHOOSE n \in 1..(Cardinality(cs) + 1) : \A c \in cs : c.n # n

\* An asynchronous handler starts, with the user and the chat of this rendering.
StartedBy(u, i, cs, op, arg, home) ==
    cs \cup {[n |-> NewId(cs), op |-> op, arg |-> arg, by |-> u, chat |-> i, home |-> home,
              phase |-> "sent", answer |-> {}]}
Started(cs, op, arg, home) == StartedBy(user, page, cs, op, arg, home)

\* A handler goes on with another request, with the token of now.
GoesOn(cs, c, op) ==
    (cs \ {c}) \cup {[c EXCEPT !.op = op, !.by = user, !.phase = "sent", !.answer = {}]}

\* The modal is closed, and with it the state of its handlers.
Orphaned(cs, home) == {IF c.home = home THEN [c EXCEPT !.home = "gone"] ELSE c : c \in cs}

\* The page is left: only what the server has not served yet can have an effect.
Abandoned(cs) == {[c EXCEPT !.home = "dead"] : c \in {d \in cs : d.phase = "sent"}}

Answered(cs, c, value) ==
    IF c.home = "dead" THEN cs \ {c}
    ELSE (cs \ {c}) \cup {[c EXCEPT !.phase = "answered", !.answer = value]}

\* Lists as the server would give them now.
ContactsOf(u) == {v \in accounts : <<u, v>> \in contacts}
BlockedBy(u) == {v \in Users : <<u, v>> \in blocked}
ChatsOf(u) == {i \in DOMAIN chats : u \in chats[i].members}
MembersOf(i) == IF i = 0 THEN {} ELSE chats[i].members
NoModal == box = None /\ dialog = None /\ info = None

PrivateChatOf(u, v) == {i \in DOMAIN chats : chats[i].type = "private" /\ chats[i].members = {u, v}}

\* createPrivateChat answers with the chat there is or a new one.
WithPrivateChat(u, v) ==
    IF PrivateChatOf(u, v) # {} THEN chats
    ELSE Append(chats, [type |-> "private", creator |-> u, members |-> {u, v}])
PrivateChatIn(u, v) ==
    IF PrivateChatOf(u, v) # {} THEN PrivateChatOf(u, v) ELSE {Len(chats) + 1}

ShowsLogs(i) == chats[i].type = "private" \/ chats[i].creator = user

\* The effects of ChatInfoModal on its chatId: it loads the other chat.
InfoFollows(i, cs) ==
    LET loading == StartedBy(user, i, cs, "info", None, "info")
    IN IF info = None \/ i = page THEN cs
       ELSE IF info.tab = "logs" /\ ShowsLogs(i)
              THEN StartedBy(user, i, loading, "logs", None, "info")
              ELSE loading

\* Without a user every path leads to the login.
Navigate(i) ==
    /\ page' = IF user = None THEN 0 ELSE i
    /\ info' = IF info = None \/ i = page THEN info ELSE [info EXCEPT !.loading = TRUE]

\* A list that is set is out of date if the server's has changed since it was read.
SetList(name, answer, now) ==
    stale' = IF answer = now THEN stale \ {name} ELSE stale \cup {name}
=============================================================================
