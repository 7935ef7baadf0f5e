----------------------------- MODULE ChatDialogs ----------------------------
(***************************************************************************)
(* The list of chats (useChats.js), CreateChatModal.jsx and                *)
(* ChatInfoModal.jsx.  The handlers of internal/chat are one step each:    *)
(* their statements are the subject of Chats.  Names, roles and messages   *)
(* on the screen are left out, and so is the menu that a click opens and   *)
(* closes; of ChatPage it is taken that the data of the open chat have     *)
(* come (E2EE has them late).                                              *)
(***************************************************************************)
EXTENDS Shell

NewDialog == [type |-> "private", step |-> "search", target |-> None, members |-> {},
              results |-> {}, loading |-> FALSE]
NewInfo == [tab |-> "participants", participants |-> {}, loading |-> TRUE, results |-> {},
            logs |-> 0]

Creations == {"createPrivate", "createGroup"}
DialogOps == Creations \cup {"find"}
InfoLoads == {"info", "infoAdded", "logs"}
InfoOps == InfoLoads \cup {"findMembers", "addMember", "removeMember", "leave", "deleteChat"}

-----------------------------------------------------------------------------
(* CreateChatModal                                                         *)

SetDialog(d) ==
    /\ dialog' = d
    /\ UNCHANGED <<server, session, page, sidebar, box, info, calls, bounds, history>>

OpenDialog ==
    /\ user # None /\ NoModal
    /\ Count
    /\ dialog' = NewDialog
    /\ searched' = FALSE
    /\ UNCHANGED <<server, session, page, sidebar, box, info, calls, faults, excused, stale>>

CloseDialog ==
    /\ dialog # None
    /\ dialog' = None
    /\ calls' = Orphaned(calls, "dialog")
    /\ UNCHANGED <<server, session, page, sidebar, box, info, bounds, history>>

\* reset forgets all but loading.
ChooseType(type) ==
    /\ dialog # None
    /\ SetDialog([NewDialog EXCEPT !.type = type, !.loading = dialog.loading])

SelectUser(v) ==
    /\ dialog # None /\ dialog.type = "private" /\ dialog.step = "search"
    /\ v \in dialog.results \ {user}
    /\ SetDialog([dialog EXCEPT !.step = "confirm", !.target = v])

StepBack ==
    /\ dialog # None /\ dialog.type = "private" /\ dialog.step = "confirm"
    /\ SetDialog([dialog EXCEPT !.step = "search"])

AddToGroup(v) ==
    /\ dialog # None /\ dialog.type = "group"
    /\ v \in dialog.results \ {user}
    /\ SetDialog([dialog EXCEPT !.members = @ \cup {v}, !.results = {}])

RemoveFromGroup(v) ==
    /\ dialog # None /\ dialog.type = "group"
    /\ v \in dialog.members
    /\ SetDialog([dialog EXCEPT !.members = @ \ {v}])

\* Mutant: the button to create does not look at loading.
MayCreateAgain == TRUE

\* The button is disabled while something loads, whatever it is.
MayCreate == ~dialog.loading

\* searchUsers, handleCreatePrivate and handleCreateGroup share one flag.
DialogCall(op, arg) ==
    /\ dialog # None
    /\ CASE op = "find" -> arg = None /\ (dialog.type = "group" \/ dialog.step = "search")
         [] op = "createPrivate" -> /\ dialog.type = "private" /\ dialog.step = "confirm"
                                    /\ arg = dialog.target /\ MayCreate
         [] op = "createGroup" -> /\ dialog.type = "group" /\ dialog.members # {}
                                  /\ arg = dialog.members /\ MayCreate
    /\ Count
    /\ dialog' = [dialog EXCEPT !.loading = TRUE]
    /\ calls' = Started(calls, op, arg, "dialog")
    /\ UNCHANGED <<server, session, page, sidebar, box, info, faults, history>>

-----------------------------------------------------------------------------
(* ChatInfoModal                                                           *)

IsGroup == chats[page].type = "group"
IsCreator == chats[page].creator = user

ShowParticipants(i) == [i EXCEPT !.tab = "participants", !.results = {}]

OpenInfo ==
    /\ user # None /\ page # 0 /\ NoModal
    /\ Count
    /\ info' = NewInfo
    /\ calls' = Started(calls, "info", None, "info")
    /\ stale' = stale \ {"participants", "logs"}
    /\ UNCHANGED <<server, session, page, sidebar, box, dialog, faults, excused, searched>>

CloseInfo ==
    /\ info # None
    /\ info' = None
    /\ calls' = Orphaned(calls, "info")
    /\ UNCHANGED <<server, session, page, sidebar, box, dialog, bounds, history>>

ChooseTab(tab) ==
    /\ info # None /\ ~info.loading /\ tab # info.tab
    /\ tab = "add" => IsGroup /\ IsCreator
    /\ IF tab # "logs" THEN UNCHANGED <<calls, ops>>
       ELSE ShowsLogs(page) /\ Count /\ calls' = Started(calls, "logs", None, "info")
    /\ info' = [info EXCEPT !.tab = tab]
    /\ UNCHANGED <<server, session, page, sidebar, box, dialog, faults, history>>

CancelSearch ==
    /\ info # None /\ ~info.loading /\ info.tab = "add" /\ IsGroup /\ IsCreator
    /\ info' = ShowParticipants(info)
    /\ UNCHANGED <<server, session, page, sidebar, box, dialog, calls, bounds, history>>

\* While participants load the modal has no buttons but the one to close it.
InfoCall(op, v) ==
    /\ info # None /\ ~info.loading
    /\ CASE op = "findMembers" -> info.tab = "add" /\ IsGroup /\ IsCreator /\ v = info.participants
         [] op = "addMember" -> info.tab = "add" /\ IsGroup /\ IsCreator /\ v \in info.results
         [] op = "removeMember" -> /\ info.tab = "participants" /\ IsGroup /\ IsCreator
                                   /\ v \in info.participants \ {user}
         [] op = "leave" -> IsGroup /\ ~IsCreator /\ v = None
         [] op = "deleteChat" -> (IsGroup => IsCreator) /\ v = None
    /\ Count
    /\ calls' = Started(calls, op, v, "info")
    /\ UNCHANGED <<server, session, page, sidebar, modals, faults, history>>

-----------------------------------------------------------------------------
(* The server: internal/chat, one handler a step                           *)

\* GetChat asks whether the caller takes part, which nobody does of a chat that
\* is gone; GetChatLogs does not.
MayServeChat(c) ==
    /\ c.by \in accounts
    /\ CASE c.op = "createPrivate" -> c.arg \in accounts
         [] c.op = "createGroup" -> c.arg \subseteq accounts
         [] c.op \in {"info", "infoAdded"} -> c.by \in MembersOf(c.chat)
         [] c.op = "addMember" -> c.arg \in accounts /\ MembersOf(c.chat) # {}
         [] OTHER -> TRUE

\* Of a change nobody looks whether the caller takes part or has created the chat.
ChatsAfter(c) ==
    CASE c.op = "createPrivate" -> WithPrivateChat(c.by, c.arg)
      [] c.op = "createGroup" ->
           Append(chats, [type |-> "group", creator |-> c.by, members |-> c.arg \cup {c.by}])
      [] c.op = "addMember" -> [chats EXCEPT ![c.chat].members = @ \cup {c.arg}]
      [] c.op = "removeMember" -> [chats EXCEPT ![c.chat].members = @ \ {c.arg}]
      [] c.op = "leave" -> [chats EXCEPT ![c.chat].members = @ \ {c.by}]
      [] c.op = "deleteChat" -> [chats EXCEPT ![c.chat].members = {}]
      [] OTHER -> chats

\* createPrivateChat tells whether the chat was there before; then the dialog
\* does not go to it.
ChatAnswer(c) ==
    CASE c.op = "chats" -> ChatsOf(c.by)
      [] c.op = "names" -> c.answer
      [] c.op \in {"find", "findMembers"} -> accounts
      [] c.op \in {"info", "infoAdded"} -> MembersOf(c.chat)
      [] c.op = "logs" -> {c.chat}
      [] c.op = "createPrivate" -> IF PrivateChatOf(c.by, c.arg) = {} THEN {Len(chats) + 1} ELSE {}
      [] c.op = "createGroup" -> {Len(chats) + 1}
      [] OTHER -> {}

ShellOps == DialogOps \cup InfoOps \cup {"chats", "names"}

\* What changes participants or chats for a modal that is gone is not seen.
ServeChats(c) ==
    /\ c.phase = "sent" /\ c.op \in ShellOps
    /\ MayServeChat(c)
    /\ chats' = ChatsAfter(c)
    /\ calls' = Answered(calls, c, ChatAnswer(c))
    /\ stale' = IF chats' = chats \/ c.home = "info" THEN stale
                ELSE stale \cup {"participants"}
                           \cup (IF c.home \in {"dead", "left"} THEN {"sidebar"} ELSE {})
    /\ UNCHANGED <<accounts, contacts, blocked, session, page, sidebar, modals, bounds,
                   excused, searched>>

-----------------------------------------------------------------------------
(* Answers                                                                 *)

\* fetchChats asks for the participants of each private chat for its name; one
\* that cannot be had only lacks the name.
AskNames(c) ==
    /\ c.phase = "answered" /\ c.op = "chats"
    /\ calls' = (calls \ {c}) \cup {[c EXCEPT !.op = "names", !.phase = "sent"]}
    /\ UNCHANGED <<server, session, page, sidebar, modals, bounds, history>>

\* setChats: the last answer wins.
SettleChats(c) ==
    /\ c.phase = "answered" /\ c.op = "names"
    /\ calls' = calls \ {c}
    /\ IF c.home # "page" THEN UNCHANGED <<sidebar, stale>>
       ELSE /\ sidebar' = c.answer
            /\ SetList("sidebar", c.answer, ChatsOf(user))
    /\ UNCHANGED <<server, session, page, modals, bounds, excused, searched>>

\* finally ends the loading, also that of a creation that is under way.
SettleFind(c) ==
    /\ c.phase = "answered" /\ c.op = "find"
    /\ calls' = calls \ {c}
    /\ IF c.home # "dialog" THEN UNCHANGED <<dialog, searched>>
       ELSE /\ dialog' = [dialog EXCEPT !.results = c.answer \ {user}, !.loading = FALSE]
            /\ searched' = (searched \/ \E d \in calls : d.op \in Creations)
    /\ UNCHANGED <<server, session, page, sidebar, box, info, bounds, excused, stale>>

\* Mutant: the new chat is opened and not listed.
NavigateOnly(i, cs, home) == InfoFollows(i, cs)

\* handleChatCreated of AppLayout: fetchChats is not awaited.
ChatCreated(i, cs, home) ==
    Started(InfoFollows(i, cs), "chats", None, IF home = "left" THEN home ELSE "page")

\* onChatCreated and onClose also of a dialog that is gone; onClose then closes
\* the one that is open.
SettleCreation(c) ==
    /\ c.phase = "answered" /\ c.op \in Creations
    /\ IF c.answer # {}
         THEN LET open == c.home # "left"
                  rest == IF open THEN Orphaned(calls \ {c}, "dialog") ELSE calls \ {c}
              IN /\ \E i \in c.answer : Navigate(i) /\ calls' = ChatCreated(i, rest, c.home)
                 /\ dialog' = IF open THEN None ELSE dialog
         ELSE /\ calls' = calls \ {c}
              /\ dialog' = IF c.home = "dialog" THEN [dialog EXCEPT !.loading = FALSE] ELSE dialog
              /\ UNCHANGED <<page, info>>
    /\ UNCHANGED <<server, session, sidebar, box, bounds, history>>

\* setParticipants, setChatLogs and setSearchResults, without those who take part
\* by the list of the click; after an addition the participants are shown.
SettleInfo(c) ==
    /\ c.phase = "answered" /\ c.op \in InfoLoads \cup {"findMembers"}
    /\ calls' = calls \ {c}
    /\ LET loaded == [info EXCEPT !.participants = c.answer, !.loading = FALSE]
       IN IF c.home # "info" THEN UNCHANGED <<info, stale>>
          ELSE CASE c.op = "findMembers" ->
                      /\ info' = [info EXCEPT !.results = c.answer \ c.arg]
                      /\ UNCHANGED stale
                 [] c.op = "logs" ->
                      /\ info' = [info EXCEPT !.logs = c.chat]
                      /\ SetList("logs", c.chat, page)
                 [] OTHER ->
                      /\ info' = IF c.op = "info" THEN loaded ELSE ShowParticipants(loaded)
                      /\ SetList("participants", c.answer, MembersOf(page))
    /\ UNCHANGED <<server, session, page, sidebar, box, dialog, bounds, excused, searched>>

\* loadChatInfo by the handler of the change, of the chat it was made in.
SettleMembers(c) ==
    /\ c.phase = "answered" /\ c.op \in {"addMember", "removeMember"}
    /\ calls' = GoesOn(calls, c, IF c.op = "addMember" THEN "infoAdded" ELSE "info")
    /\ info' = IF c.home = "info" THEN [info EXCEPT !.loading = TRUE] ELSE info
    /\ UNCHANGED <<server, session, page, sidebar, box, dialog, bounds, history>>

\* window.location.href: the page is loaded anew.
LoadPage(u) ==
    /\ user' = u
    /\ page' = 0 /\ sidebar' = {}
    /\ box' = None /\ dialog' = None /\ info' = None
    /\ calls' = IF u = None THEN Abandoned(calls)
                ELSE StartedBy(u, 0, Abandoned(calls), "chats", None, "page")
    /\ stale' = stale \ {"sidebar"}
    /\ excused' = (excused \/ \E c \in calls : /\ c.phase = "answered"
                                             /\ c.op \in {"block", "unblock"})

SettleLeave(c) ==
    /\ c.phase = "answered" /\ c.op \in {"leave", "deleteChat"}
    /\ LoadPage(user)
    /\ UNCHANGED <<server, blockedUsers, bounds, searched>>

\* A message; what was loading is not any more, and what was to be listed may
\* be missing.
FailShell(c) ==
    /\ c.op \in ShellOps \ {"names"}
    /\ IF c.phase = "sent" /\ (~MayServeChat(c) \/ c.home = "dead") THEN UNCHANGED faults
       ELSE Fault
    /\ calls' = calls \ {c}
    /\ dialog' = IF c.home = "dialog" THEN [dialog EXCEPT !.loading = FALSE] ELSE dialog
    /\ info' = CASE c.home = "info" /\ c.op = "info" -> [info EXCEPT !.loading = FALSE]
                 [] c.home = "info" /\ c.op = "infoAdded" ->
                      ShowParticipants([info EXCEPT !.loading = FALSE])
                 [] OTHER -> info
    /\ searched' = (searched \/ (c.home = "dialog" /\ c.op = "find"))
    /\ stale' = stale \cup {"sidebar", "participants", "logs"}
    /\ UNCHANGED <<server, session, page, sidebar, box, ops, excused>>

DialogsNext ==
    \/ OpenDialog \/ CloseDialog \/ StepBack \/ OpenInfo \/ CloseInfo \/ CancelSearch
    \/ \E type \in {"private", "group"} : ChooseType(type)
    \/ \E v \in Users : SelectUser(v) \/ AddToGroup(v) \/ RemoveFromGroup(v)
    \/ \E op \in DialogOps, arg \in Users \cup {None} \cup SUBSET Users : DialogCall(op, arg)
    \/ \E tab \in {"participants", "add", "logs"} : ChooseTab(tab)
    \/ \E op \in InfoOps \ InfoLoads, v \in Users \cup {None} \cup SUBSET Users : InfoCall(op, v)
    \/ \E c \in calls : \/ ServeChats(c) \/ AskNames(c) \/ SettleChats(c) \/ SettleFind(c)
                        \/ SettleCreation(c) \/ SettleInfo(c) \/ SettleMembers(c)
                        \/ SettleLeave(c) \/ FailShell(c)
=============================================================================
