------------------------------ MODULE ChatView ------------------------------
(***************************************************************************)
(* The messages on the screen of one client: services/hooks/useMessages.js *)
(* with the data handler of services/grpcClient.js and the decryption and  *)
(* filter of MessageList.jsx, against the rows of messages that            *)
(* GetMessages reads and the events the server publishes.                  *)
(*                                                                         *)
(* The contents of a message are its versions: 1 as sent, one more for     *)
(* each edit and one, without text, for its deletion.  A step is what      *)
(* JavaScript runs from one event to the next.  A list of messages is kept *)
(* as the list of the entries of each one: the order of different messages *)
(* is left out, that one is listed twice is not.  MessageFeed stands behind *)
(* channel: events of one stream arrive in the order of their publication  *)
(* unless a full queue or a broken stream loses them; due holds what the   *)
(* handlers of MessageService have still to publish.                       *)
(*                                                                         *)
(* MessageList decrypts a copy of the list for each change of it and sets  *)
(* what it draws when all promises of that run are settled; nothing stops  *)
(* a run that was overtaken.                                               *)
(***************************************************************************)
EXTENDS Naturals, Sequences

CONSTANTS Chats, MessageIds,
          ChatOf,       \* the chat of a message
          Own,          \* messages of the user at this screen
          FirstChat,    \* the chat that is open at the start
          MaxVersion,   \* bound: versions of each message
          MaxSwitches,  \* bound: openings of another chat
          MaxLost,      \* bound: lost events and answers
          MaxFailed,    \* bound: failed or truncated fetches
          MaxRuns,      \* bound: decryptions of the list at one time
          None

Calls == [kind : {"send", "edit", "delete"}, chat : Chats,
          phase : {"sent", "ok", "error"}]
Events == [msg : MessageIds, version : Nat, blank : BOOLEAN, copy : {"first", "second"}]
Entries == [version : Nat, blank : BOOLEAN, flag : BOOLEAN]
Lists == [MessageIds -> Seq(Entries)]
Fetches == [chat : Chats, answered : BOOLEAN, list : Lists]

ASSUME ViewAssumption ==
    /\ ChatOf \in [MessageIds -> Chats]
    /\ Own \subseteq MessageIds
    /\ FirstChat \in Chats
    /\ MaxVersion \in [MessageIds -> Nat]
    /\ MaxSwitches \in Nat /\ MaxLost \in Nat /\ MaxFailed \in Nat
    /\ MaxRuns \in Nat \ {0}
    /\ None \notin Calls \cup Fetches

VARIABLES
    row,        \* messages: version, 0 for no row, and is_deleted
    due,        \* events that handlers of other users have still to publish
    channel,    \* events on their way to this client
    posts,      \* the user's own call about a message, or None
    open,       \* chatId of the hook
    screen,     \* messages: the list the hook keeps
    fetch,      \* the fetch that was not aborted, or None
    loading,    \* loading: ChatPage does not mount MessageList
    runs,       \* decryptions under way, in the order of their start
    drawn,      \* decryptedMessages
    switches, lost, failed,     \* numbers of what the bounds limit
    heard,      \* history: newest version this client was told of, or was to be told
    excused,    \* history: messages whose newest version the hook cannot know
    crossed,    \* history: a late call fetched a chat that is not open, and no list came since
    overtaken   \* history: what is drawn came from a run that a later one had overtaken

server == <<row, due>>
history == <<switches, lost, failed, heard, excused, crossed>>
list == <<loading, runs, drawn, overtaken>>
viewVars == <<server, channel, posts, open, screen, fetch, list, history>>

ViewTypeOK ==
    /\ row \in [MessageIds -> [version : Nat, deleted : BOOLEAN]]
    /\ due \subseteq Events
    /\ channel \in Seq(Events)
    /\ posts \in [MessageIds -> Calls \cup {None}]
    /\ open \in Chats
    /\ screen \in Lists
    /\ fetch \in Fetches \cup {None}
    /\ loading \in BOOLEAN
    /\ Len(runs) <= MaxRuns
    /\ runs \in Seq([copy : Lists, late : BOOLEAN])
    /\ drawn \in Lists
    /\ switches \in 0..MaxSwitches /\ lost \in 0..MaxLost /\ failed \in 0..MaxFailed
    /\ heard \in [MessageIds -> Nat]
    /\ excused \subseteq MessageIds
    /\ crossed \in BOOLEAN /\ overtaken \in BOOLEAN
    /\ \A m \in MessageIds : heard[m] <= row[m].version /\ row[m].version <= MaxVersion[m]

Live(m) == row[m].version > 0 /\ ~row[m].deleted

NoMessages == [m \in MessageIds |-> <<>>]

Asked(chat) == [chat |-> chat, answered |-> FALSE, list |-> NoMessages]

ViewInit ==
    /\ row = [m \in MessageIds |-> [version |-> 0, deleted |-> FALSE]]
    /\ due = {}
    /\ channel = <<>>
    /\ posts = [m \in MessageIds |-> None]
    /\ open = FirstChat
    /\ screen = NoMessages
    /\ fetch = Asked(FirstChat)
    /\ switches = 0 /\ lost = 0 /\ failed = 0
    /\ heard = [m \in MessageIds |-> 0]
    /\ excused = MessageIds
    /\ crossed = FALSE
    /\ loading = TRUE /\ runs = <<>> /\ drawn = NoMessages /\ overtaken = FALSE

-----------------------------------------------------------------------------
(* The server                                                              *)

NextVersion(m, deletes) == [version |-> row[m].version + 1, deleted |-> deletes]

\* The statement of another user's request commits; its events follow.  A new
\* message is published twice, by the service and by the server.
PeerCommits(m) ==
    /\ m \notin Own
    /\ row[m].version < MaxVersion[m]
    /\ \E deletes \in BOOLEAN :
        /\ IF row[m].version = 0 THEN ~deletes ELSE Live(m)
        /\ row' = [row EXCEPT ![m] = NextVersion(m, deletes)]
        /\ due' = due \cup
             {[msg |-> m, version |-> row'[m].version, blank |-> deletes, copy |-> k] :
                k \in IF row[m].version = 0 THEN {"first", "second"} ELSE {"first"}}
    /\ UNCHANGED <<channel, posts, open, screen, fetch, list, history>>

\* Handlers of different requests publish in any order.
Publish(e) ==
    /\ e \in due
    /\ e.copy = "second" => [e EXCEPT !.copy = "first"] \notin due
    /\ due' = due \ {e}
    /\ channel' = Append(channel, e)
    /\ UNCHANGED <<row, posts, open, screen, fetch, list, history>>

\* A full queue or a broken stream loses an event; nobody fetches because of it.
LoseEvent ==
    /\ channel # <<>>
    /\ lost < MaxLost
    /\ lost' = lost + 1
    /\ LET e == Head(channel)
       IN /\ excused' = excused \cup {e.msg}
          /\ heard' = [heard EXCEPT ![e.msg] = IF e.version > @ THEN e.version ELSE @]
    /\ channel' = Tail(channel)
    /\ UNCHANGED <<server, posts, open, screen, fetch, list, switches, failed, crossed>>

\* GetMessages: the rows of the chat, deleted ones with their flag and no text.
Rows(chat) == {m \in MessageIds : ChatOf[m] = chat /\ row[m].version > 0}

Listed(read) ==
    [m \in MessageIds |->
        IF m \in read THEN <<[version |-> row[m].version, blank |-> row[m].deleted,
                             flag |-> row[m].deleted]>>
        ELSE <<>>]

\* An error between two rows ends the list early: rows.Err is not asked.
AnswerFetch ==
    /\ fetch # None
    /\ ~fetch.answered
    /\ \E read \in SUBSET Rows(fetch.chat) :
         /\ fetch' = [fetch EXCEPT !.answered = TRUE, !.list = Listed(read)]
         /\ \/ read = Rows(fetch.chat) /\ UNCHANGED failed
            \/ read # Rows(fetch.chat) /\ failed < MaxFailed /\ failed' = failed + 1
    /\ UNCHANGED <<server, channel, posts, open, screen, list, switches, lost,
                   heard, excused, crossed>>

\* The request of the user commits or is refused; what commits is published to
\* others only.
ServePost(m) ==
    /\ posts[m] # None
    /\ posts[m].phase = "sent"
    /\ LET allowed == IF posts[m].kind = "send" THEN row[m].version = 0 ELSE Live(m)
       IN \/ /\ allowed
             /\ row' = [row EXCEPT ![m] = NextVersion(m, posts[m].kind = "delete")]
             /\ posts' = [posts EXCEPT ![m].phase = "ok"]
          \/ /\ posts' = [posts EXCEPT ![m].phase = "error"]
             /\ UNCHANGED row
    /\ UNCHANGED <<due, channel, open, screen, fetch, list, history>>

\* The row is committed, but its answer is lost with the connection, or the
\* handler failed after the statement: to the client it is an error.  Nobody
\* fetches because of it, and no event comes to who has sent the request.
LoseAnswer(m) ==
    /\ posts[m] # None
    /\ posts[m].phase = "ok"
    /\ lost < MaxLost
    /\ lost' = lost + 1
    /\ posts' = [posts EXCEPT ![m].phase = "error"]
    /\ heard' = [heard EXCEPT ![m] = row[m].version]
    /\ excused' = excused \cup {m}
    /\ UNCHANGED <<server, channel, open, screen, fetch, list, switches, failed, crossed>>

-----------------------------------------------------------------------------
(* The client                                                              *)

Without(m) == [screen EXCEPT ![m] = <<>>]

\* MessageList shows what has text and is not marked as deleted: the places of
\* the entries of m that it shows.
Shown(m) == {i \in DOMAIN drawn[m] : ~drawn[m][i].flag /\ ~drawn[m][i].blank}

AllLate(rs) == [i \in DOMAIN rs |-> [rs[i] EXCEPT !.late = TRUE]]

\* The effect of MessageList for the list l: an empty one is drawn at once.
Decrypt(l) ==
    IF l = NoMessages THEN /\ drawn' = NoMessages
                           /\ runs' = AllLate(runs)
                           /\ overtaken' = FALSE
    ELSE /\ Len(runs) < MaxRuns
         /\ runs' = Append(runs, [copy |-> l, late |-> FALSE])
         /\ UNCHANGED <<drawn, overtaken>>

\* setMessages while MessageList may be mounted.
SetMessages(l) ==
    /\ screen' = l
    /\ IF loading THEN UNCHANGED <<runs, drawn, overtaken>> ELSE Decrypt(l)
    /\ UNCHANGED loading

\* setLoading(false): MessageList is mounted, if it is not.
StopLoading(l) ==
    /\ loading' = FALSE
    /\ IF loading THEN Decrypt(l) ELSE UNCHANGED <<runs, drawn, overtaken>>

\* All promises of a run are settled.
FinishDecryption(i) ==
    /\ i \in DOMAIN runs
    /\ drawn' = runs[i].copy
    /\ overtaken' = runs[i].late
    /\ runs' = AllLate(SubSeq(runs, 1, i - 1)) \o SubSeq(runs, i + 1, Len(runs))
    /\ UNCHANGED <<server, channel, posts, open, screen, fetch, loading, history>>

\* The names or the type of the chat have come: the same list once more.
Redraw ==
    /\ ~loading
    /\ Decrypt(screen)
    /\ UNCHANGED <<server, channel, posts, open, screen, fetch, loading, history>>

\* Mutant: an event appends its message without a look at the list.
AppendEntry(m, new) == [screen EXCEPT ![m] = Append(@, new)]

\* handleNewMessage
Merge(m, new) ==
    IF screen[m] # <<>>
      THEN IF new.flag THEN Without(m)
           ELSE [screen EXCEPT ![m] = [i \in DOMAIN @ |-> new]]
      ELSE IF new.flag THEN screen ELSE [screen EXCEPT ![m] = <<new>>]

\* The data handler passes on neither isDeleted nor isEdited.
Decode(e) == [version |-> e.version, blank |-> e.blank, flag |-> FALSE]

\* Only the open chat has a subscriber.  An event older than what is on the
\* screen turns it back.
ReceiveEvent ==
    /\ channel # <<>>
    /\ channel' = Tail(channel)
    /\ LET e == Head(channel)
       IN /\ heard' = [heard EXCEPT ![e.msg] = IF e.version > @ THEN e.version ELSE @]
          /\ IF ChatOf[e.msg] = open
               THEN /\ SetMessages(Merge(e.msg, Decode(e)))
                    /\ excused' = IF \E i \in DOMAIN screen[e.msg] :
                                       screen[e.msg][i].version > e.version
                                  THEN excused \cup {e.msg} ELSE excused
               ELSE UNCHANGED <<screen, list, excused>>
    /\ UNCHANGED <<server, posts, open, fetch, switches, lost, failed, crossed>>

\* setMessages(data.messages).  A change the client was told of before, but
\* that is not in the answer, is lost to the screen.
DeliverFetch ==
    /\ fetch # None
    /\ fetch.answered
    /\ screen' = fetch.list
    /\ Decrypt(fetch.list)
    /\ loading' = FALSE
    /\ fetch' = None
    /\ crossed' = (crossed /\ fetch.chat # open)
    /\ excused' = IF fetch.chat # open THEN MessageIds
                  ELSE {m \in MessageIds : ChatOf[m] = open /\ heard[m] > 0
                          /\ \A i \in DOMAIN fetch.list[m] :
                               fetch.list[m][i].version < heard[m]}
    /\ UNCHANGED <<server, channel, posts, open, switches, lost, failed, heard>>

\* Failed to load messages
FailFetch ==
    /\ fetch # None
    /\ failed < MaxFailed
    /\ failed' = failed + 1
    /\ fetch' = None
    /\ StopLoading(screen)
    /\ excused' = MessageIds
    /\ UNCHANGED <<server, channel, posts, open, screen, switches, lost, heard, crossed>>

\* What becomes of MessageList: without a fetch it is unmounted until the next
\* list comes.  A fetch that is aborted ends the loading at once, before or
\* after MessageList was unmounted, and decryptions go on if it was not.
Remount ==
    /\ drawn' = NoMessages
    /\ overtaken' = FALSE
    /\ \/ runs' = <<>> /\ loading' = (fetch = None)
       \/ fetch # None /\ runs' = AllLate(runs) /\ loading' = FALSE

\* Mutant: the fetch of the chat that was open before is not aborted.
SwitchWithoutAbort(chat) ==
    /\ chat # open
    /\ switches < MaxSwitches
    /\ switches' = switches + 1
    /\ open' = chat
    /\ screen' = NoMessages
    /\ Remount
    /\ fetch' = IF fetch = None THEN Asked(chat) ELSE fetch
    /\ excused' = MessageIds
    /\ crossed' = FALSE
    /\ UNCHANGED <<server, channel, posts, lost, failed, heard>>

\* Another chatId: the effects clear the list, abort the fetch that is under
\* way, start one and subscribe to the new chat in place of the old.
SwitchChat(chat) ==
    /\ chat # open
    /\ switches < MaxSwitches
    /\ switches' = switches + 1
    /\ open' = chat
    /\ screen' = NoMessages
    /\ Remount
    /\ fetch' = Asked(chat)
    /\ excused' = MessageIds
    /\ crossed' = FALSE
    /\ UNCHANGED <<server, channel, posts, lost, failed, heard>>

\* sendMessage to the open chat, editMessage or deleteMessage of a message that
\* is shown.
Post(m, kind) ==
    /\ m \in Own
    /\ ~loading
    /\ posts[m] = None
    /\ row[m].version < MaxVersion[m]
    /\ IF kind = "send" THEN row[m].version = 0 /\ ChatOf[m] = open
       ELSE Shown(m) # {}
    /\ posts' = [posts EXCEPT ![m] = [kind |-> kind, chat |-> open, phase |-> "sent"]]
    /\ UNCHANGED <<server, channel, open, screen, fetch, list, history>>

\* The answer: a send or an edit fetches the chat it was made in, even when
\* another one is open by now, and aborts any fetch under way, which ends the
\* loading; a deletion takes its message off the screen.  An error is thrown to
\* the caller.
SettlePost(m) ==
    /\ posts[m] # None
    /\ posts[m].phase # "sent"
    /\ posts' = [posts EXCEPT ![m] = None]
    /\ LET call == posts[m]
       IN IF call.phase = "error" THEN UNCHANGED <<screen, fetch, list, heard, excused, crossed>>
          ELSE /\ heard' = [heard EXCEPT ![m] = row[m].version]
               /\ IF call.kind = "delete"
                    THEN SetMessages(Without(m)) /\ UNCHANGED <<fetch, excused, crossed>>
                    ELSE /\ fetch' = Asked(call.chat)
                         /\ crossed' = (crossed \/ call.chat # open)
                         /\ excused' = IF call.chat = open THEN excused ELSE MessageIds
                         /\ IF fetch = None THEN UNCHANGED list ELSE StopLoading(screen)
                         /\ UNCHANGED screen
    /\ UNCHANGED <<server, channel, open, switches, lost, failed>>

\* Nobody has to do anything.
Quiet ==
    /\ due = {} /\ channel = <<>> /\ fetch = None /\ runs = <<>>
    /\ \A m \in MessageIds : posts[m] = None

Idle == Quiet /\ UNCHANGED viewVars

ViewNext ==
    \/ \E m \in MessageIds : PeerCommits(m) \/ ServePost(m) \/ LoseAnswer(m) \/ SettlePost(m)
    \/ \E m \in MessageIds, kind \in {"send", "edit", "delete"} : Post(m, kind)
    \/ \E e \in due : Publish(e)
    \/ \E chat \in Chats : SwitchChat(chat)
    \/ \E i \in 1..MaxRuns : FinishDecryption(i)
    \/ Redraw
    \/ LoseEvent \/ AnswerFetch \/ ReceiveEvent \/ DeliverFetch \/ FailFetch \/ Idle

ViewSpec == ViewInit /\ [][ViewNext]_viewVars

-----------------------------------------------------------------------------
\* The list is the open chat's, unless the answer of a fetch that a send or an
\* edit made for the chat that was open before (useMessages.js 83-92) came in.
ScreenIsOpenChat ==
    \A m \in MessageIds : screen[m] # <<>> => ChatOf[m] = open \/ crossed

\* When everything has arrived the screen shows each message of the open chat
\* once and in its newest version, and no deleted one or one of another chat,
\* whatever came in which order.  A message is excused only until a list comes
\* that was read later, and only when an event of it was lost or overtaken, when
\* the answer to the user's own call about it was lost (useMessages.js 83-92 and
\* 119-135 then neither fetch nor change the list), or when the list itself
\* could not be fetched; the whole screen only when decryptions ended in another
\* order than they were started (MessageList.jsx 325-460: a run that is no
\* longer wanted still draws).
ShowsNewestWhenQuiet ==
    Quiet /\ ~overtaken => \A m \in MessageIds \ excused :
        IF ChatOf[m] = open /\ Live(m)
          THEN \E i \in Shown(m) : Shown(m) = {i} /\ drawn[m][i].version = row[m].version
          ELSE Shown(m) = {}
=============================================================================
