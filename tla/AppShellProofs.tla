--------------------------- MODULE AppShellProofs ---------------------------
(* Proofs about AppShell, for any users, bounds and rows at the start.     *)
EXTENDS AppShell, TLAPS

\* A call by its fields
IsCall(c) ==
    c \in [n : {c.n}, op : {c.op}, arg : {c.arg}, by : {c.by}, chat : {c.chat},
           home : {c.home}, phase : {c.phase}, answer : {c.answer}]

BlockOps == {"block", "unblock"}
UserLists == {"contacts", "details", "search", "find"}

CallsTyped(cs) ==
    \A c \in cs : /\ IsCall(c)
                  /\ c.op \in BlockOps => c.arg \in Users
                  /\ c.op \in UserLists => c.answer \subseteq Users
                  /\ c.home = "dialog" => c.op \in DialogOps

HomesOf(cs) == {c.home : c \in cs}
Creating(cs) == {c \in cs : c.home = "dialog" /\ c.op \in Creations}

\* The modals and the lists of users they are made of
ShellType ==
    /\ accounts \subseteq Users
    /\ blockedUsers \subseteq Users
    /\ box \in Boxes \cup {None}
    /\ dialog \in Dialogs \cup {None}
    /\ CallsTyped(calls)

\* A call whose home is a modal has it open.
HomesInv ==
    /\ "box" \in HomesOf(calls) => box # None
    /\ "dialog" \in HomesOf(calls) => dialog # None

\* Where the page and the server disagree about a user, an answer is on its way
\* that will tell the page.
BlocksInv ==
    user # None /\ ~excused =>
        \A v \in Users : \/ v \in blockedUsers <=> v \in BlockedBy(user)
                         \/ <<SaysOf(v \in BlockedBy(user)), v>> \in BlockAnswers(calls)

\* Until a search interferes, a creation has the flag to itself.
CreationInv ==
    ~searched =>
        /\ \A c, d \in Creating(calls) : c = d
        /\ Creating(calls) # {} => dialog.loading

ShellInv == ShellType /\ HomesInv /\ BlocksInv /\ CreationInv

-----------------------------------------------------------------------------
(* Lists that are out of date                                              *)

\* What a call is about; "made" is a creation that was answered with a chat.
Doing(c) == IF c.op \in Creations /\ c.answer # {} THEN "made" ELSE c.op
Signs(cs) == {<<c.home, Doing(c)>> : c \in cs}
Waits(W, cs) == \E sign \in W : sign \in Signs(cs)

\* Where the page has not left a call
Attached == {"box", "dialog", "info", "page", "gone"}

\* The calls that will end with a new list, each where its modal is open
ContactsWaits == {"box"} \X {"contacts", "add", "delete"}
DetailsWaits == {"box"} \X {"details", "unblock"}
SidebarWaits ==
    ({"page"} \X {"chats", "names"}) \cup (Attached \X {"leave", "deleteChat", "made"})
ParticipantsWaits ==
    {"info"} \X {"info", "infoAdded", "addMember", "removeMember", "leave", "deleteChat"}
LogsWaits == {"info"} \X {"logs"}

\* A list that is shown and not known to be out of date is the server's, or a
\* call will set it.
ContactsFresh ==
    box # None /\ box.tab = "contacts" /\ "contacts" \notin stale =>
        box.contacts = ContactsOf(user) \/ Waits(ContactsWaits, calls)
DetailsFresh ==
    box # None /\ box.tab = "blocked" /\ "details" \notin stale =>
        box.details = BlockedBy(user) \cap accounts \/ Waits(DetailsWaits, calls)
SidebarFresh ==
    user # None /\ "sidebar" \notin stale =>
        sidebar = ChatsOf(user) \/ Waits(SidebarWaits, calls)
ParticipantsFresh ==
    info # None /\ "participants" \notin stale =>
        info.participants = MembersOf(page) \/ Waits(ParticipantsWaits, calls)
LogsFresh ==
    info # None /\ info.tab = "logs" /\ ShowsLogs(page) /\ "logs" \notin stale =>
        info.logs = page \/ Waits(LogsWaits, calls)

\* The chats of the server
AllRows(rows) == rows \in Seq(Chats) /\ \A i \in DOMAIN rows : KeepsCreator(rows[i])

RowsInv == AllRows(chats)

\* The page of a user, and of nobody
PageInv ==
    /\ user \in Local \cup {None}
    /\ info \in Infos \cup {None}
    /\ page \in 0..Len(chats)
    /\ sidebar \subseteq DOMAIN chats
    /\ user = None => NoModal /\ \A c \in calls : c.home \in {"left", "dead"}
    /\ info # None => page # 0
    /\ "info" \in HomesOf(calls) => info # None

\* A call that its page has not left is the user's; its chat is there, and what
\* the buttons ask of the chat's creator stays true of it.
Sound(c, u, rows) ==
    /\ c.home \in Homes
    /\ c.home \in Attached => c.by = u
    /\ c.home = "dead" => c.phase = "sent"
    /\ c.chat \in 0..Len(rows)
    /\ c.op \in {"addMember", "removeMember", "leave"} =>
         /\ c.chat # 0 /\ rows[c.chat].type = "group"
         /\ IF c.op = "leave" THEN rows[c.chat].creator # c.by
            ELSE rows[c.chat].creator = c.by
    /\ c.op = "removeMember" => c.arg # c.by
    /\ c.op \in {"chats", "names", "chat"} \cup Creations => c.answer \subseteq DOMAIN rows
    /\ c.op \in {"info", "infoAdded", "findMembers"} => c.answer \subseteq Users
    /\ c.op \in Creations /\ c.phase = "sent" => c.answer = {}

AllSound(cs, u, rows) == \A c \in cs : Sound(c, u, rows)

CallsInv == AllSound(calls, user, chats)

Lists ==
    /\ RowsInv /\ PageInv /\ CallsInv
    /\ ContactsFresh /\ DetailsFresh /\ SidebarFresh /\ ParticipantsFresh /\ LogsFresh

-----------------------------------------------------------------------------
(* What happens to the calls                                               *)

LEMMA StartedFacts ==
    ASSUME NEW cs, CallsTyped(cs), NEW u, NEW i, NEW op, NEW arg, NEW home,
           op \in BlockOps => arg \in Users,
           home = "dialog" => op \in DialogOps
    PROVE  LET new == StartedBy(u, i, cs, op, arg, home)
           IN /\ CallsTyped(new)
              /\ BlockAnswers(cs) \subseteq BlockAnswers(new)
              /\ HomesOf(new) = HomesOf(cs) \cup {home}
              /\ \E c : Creating(new) \subseteq Creating(cs) \cup {c}
              /\ home # "dialog" => Creating(new) = Creating(cs)
              /\ op \notin Creations => Creating(new) = Creating(cs)
<1> DEFINE c == [n |-> NewId(cs), op |-> op, arg |-> arg, by |-> u, chat |-> i, home |-> home,
                 phase |-> "sent", answer |-> {}]
           new == StartedBy(u, i, cs, op, arg, home)
<1>1. new = cs \cup {c}
  BY DEF StartedBy
<1>2. IsCall(c) /\ c.op = op /\ c.arg = arg /\ c.home = home /\ c.phase = "sent" /\ c.answer = {}
  BY DEF IsCall
<1> HIDE DEF c, new
<1>3. CallsTyped(new)
  BY <1>1, <1>2 DEF CallsTyped
<1>4. BlockAnswers(cs) \subseteq BlockAnswers(new)
  BY <1>1 DEF BlockAnswers
<1>5. HomesOf(new) = HomesOf(cs) \cup {home}
  BY <1>1, <1>2 DEF HomesOf
<1>6. /\ Creating(new) \subseteq Creating(cs) \cup {c}
      /\ home # "dialog" \/ op \notin Creations => Creating(new) = Creating(cs)
  BY <1>1, <1>2 DEF Creating
<1> QED BY <1>3, <1>4, <1>5, <1>6 DEF new

LEMMA OrphanedFacts ==
    ASSUME NEW cs, CallsTyped(cs), NEW home, home # "gone"
    PROVE  LET new == Orphaned(cs, home)
           IN /\ CallsTyped(new)
              /\ BlockAnswers(cs) \subseteq BlockAnswers(new)
              /\ HomesOf(new) \subseteq (HomesOf(cs) \ {home}) \cup {"gone"}
              /\ Creating(new) \subseteq Creating(cs)
<1> DEFINE new == Orphaned(cs, home)
           after(c) == IF c.home = home THEN [c EXCEPT !.home = "gone"] ELSE c
<1>1. new = {after(c) : c \in cs}
  BY DEF Orphaned
<1>2. ASSUME NEW c \in cs
      PROVE  /\ IsCall(after(c))
             /\ after(c).op = c.op /\ after(c).arg = c.arg /\ after(c).phase = c.phase
             /\ after(c).answer = c.answer
             /\ after(c).home = IF c.home = home THEN "gone" ELSE c.home
             /\ c.home # home => after(c) = c
  BY <1>2 DEF CallsTyped, IsCall
<1> HIDE DEF after, new
<1>3. CallsTyped(new)
  BY <1>1, <1>2 DEF CallsTyped
<1>4. BlockAnswers(cs) \subseteq BlockAnswers(new)
  BY <1>1, <1>2 DEF BlockAnswers
<1>5. HomesOf(new) \subseteq (HomesOf(cs) \ {home}) \cup {"gone"}
  BY <1>1, <1>2 DEF HomesOf
<1>6. Creating(new) \subseteq Creating(cs)
  BY <1>1, <1>2 DEF Creating
<1> QED BY <1>3, <1>4, <1>5, <1>6 DEF new

LEMMA RemovedFacts ==
    ASSUME NEW cs, CallsTyped(cs), NEW c \in cs, NEW new, new = cs \ {c}
    PROVE  /\ CallsTyped(new)
           /\ BlockAnswers(cs) \subseteq BlockAnswers(new) \cup {<<c.op, c.arg>>}
           /\ c.phase # "answered" \/ c.op \notin BlockOps =>
                BlockAnswers(cs) \subseteq BlockAnswers(new)
           /\ HomesOf(new) \subseteq HomesOf(cs)
           /\ Creating(new) \subseteq Creating(cs)
           /\ c \notin Creating(new)
<1>1. CallsTyped(new)
  BY DEF CallsTyped
<1>2. /\ BlockAnswers(cs) \subseteq BlockAnswers(new) \cup {<<c.op, c.arg>>}
      /\ c.phase # "answered" \/ c.op \notin BlockOps =>
           BlockAnswers(cs) \subseteq BlockAnswers(new)
  BY DEF BlockAnswers, BlockOps
<1>3. HomesOf(new) \subseteq HomesOf(cs)
  BY DEF HomesOf
<1>4. Creating(new) \subseteq Creating(cs) /\ c \notin Creating(new)
  BY DEF Creating
<1> QED BY <1>1, <1>2, <1>3, <1>4

LEMMA GoesOnFacts ==
    ASSUME NEW cs, CallsTyped(cs), NEW c \in cs, c.op \notin DialogOps,
           NEW op, op \notin BlockOps \cup Creations
    PROVE  LET new == GoesOn(cs, c, op)
           IN /\ CallsTyped(new)
              /\ BlockAnswers(cs) \subseteq BlockAnswers(new) \cup {<<c.op, c.arg>>}
              /\ c.phase # "answered" \/ c.op \notin BlockOps =>
                   BlockAnswers(cs) \subseteq BlockAnswers(new)
              /\ HomesOf(new) \subseteq HomesOf(cs)
              /\ Creating(new) \subseteq Creating(cs)
<1> DEFINE d == [c EXCEPT !.op = op, !.by = user, !.phase = "sent", !.answer = {}]
           new == GoesOn(cs, c, op)
<1>1. new = (cs \ {c}) \cup {d}
  BY DEF GoesOn
<1>2. IsCall(d) /\ d.op = op /\ d.home = c.home /\ d.answer = {}
  <2>1. IsCall(c)
    BY DEF CallsTyped
  <2> QED BY <2>1 DEF IsCall
<1>d. c.home # "dialog"
  BY DEF CallsTyped
<1> HIDE DEF d, new
<1>3. CallsTyped(new)
  BY <1>1, <1>2, <1>d DEF CallsTyped, UserLists
<1>4. /\ BlockAnswers(cs) \subseteq BlockAnswers(new) \cup {<<c.op, c.arg>>}
      /\ c.phase # "answered" \/ c.op \notin BlockOps =>
           BlockAnswers(cs) \subseteq BlockAnswers(new)
  BY <1>1 DEF BlockAnswers, BlockOps
<1>5. HomesOf(new) \subseteq HomesOf(cs)
  BY <1>1, <1>2 DEF HomesOf
<1>6. Creating(new) \subseteq Creating(cs)
  BY <1>1, <1>2 DEF Creating
<1> QED BY <1>3, <1>4, <1>5, <1>6 DEF new

LEMMA AnsweredFacts ==
    ASSUME NEW cs, CallsTyped(cs), NEW c \in cs, c.phase = "sent", NEW value,
           c.op \in UserLists => value \subseteq Users
    PROVE  LET new == Answered(cs, c, value)
           IN /\ CallsTyped(new)
              /\ BlockAnswers(cs) \subseteq BlockAnswers(new)
              /\ c.home # "dead" /\ c.op \in BlockOps => <<c.op, c.arg>> \in BlockAnswers(new)
              /\ HomesOf(new) \subseteq HomesOf(cs)
              /\ Creating(new) # {} => Creating(cs) # {}
              /\ (\A a, b \in Creating(cs) : a = b) => \A a, b \in Creating(new) : a = b
<1> DEFINE d == [c EXCEPT !.phase = "answered", !.answer = value]
           new == Answered(cs, c, value)
<1>1. CASE c.home = "dead"
  <2>1. new = cs \ {c}
    BY <1>1 DEF Answered
  <2>2. /\ CallsTyped(cs \ {c})
        /\ BlockAnswers(cs) \subseteq BlockAnswers(cs \ {c})
        /\ HomesOf(cs \ {c}) \subseteq HomesOf(cs)
        /\ Creating(cs \ {c}) \subseteq Creating(cs)
    BY RemovedFacts
  <2> QED BY <1>1, <2>1, <2>2
<1>2. CASE c.home # "dead"
  <2>1. new = (cs \ {c}) \cup {d}
    BY <1>2 DEF Answered
  <2>2. /\ IsCall(d) /\ d.op = c.op /\ d.arg = c.arg /\ d.home = c.home
        /\ d.phase = "answered" /\ d.answer = value
    <3>1. IsCall(c)
      BY DEF CallsTyped
    <3> QED BY <3>1 DEF IsCall
  <2> HIDE DEF d, new
  <2>3. CallsTyped(new)
    BY <2>1, <2>2 DEF CallsTyped
  <2>4. /\ BlockAnswers(cs) \subseteq BlockAnswers(new)
        /\ c.op \in BlockOps => <<c.op, c.arg>> \in BlockAnswers(new)
    BY <2>1, <2>2 DEF BlockAnswers, BlockOps
  <2>5. HomesOf(new) \subseteq HomesOf(cs)
    BY <2>1, <2>2 DEF HomesOf
  <2>6. \/ c \in Creating(cs) /\ Creating(new) = (Creating(cs) \ {c}) \cup {d}
        \/ c \notin Creating(cs) /\ Creating(new) = Creating(cs)
    BY <2>1, <2>2 DEF Creating
  <2> QED BY <2>3, <2>4, <2>5, <2>6 DEF new
<1> QED BY <1>1, <1>2

LEMMA AbandonedFacts ==
    ASSUME NEW cs, CallsTyped(cs)
    PROVE  /\ CallsTyped(Abandoned(cs))
           /\ HomesOf(Abandoned(cs)) \subseteq {"dead"}
           /\ Creating(Abandoned(cs)) = {}
<1> DEFINE after(c) == [c EXCEPT !.home = "dead"]
<1>1. Abandoned(cs) = {after(c) : c \in {d \in cs : d.phase = "sent"}}
  BY DEF Abandoned
<1>2. ASSUME NEW c \in cs
      PROVE  /\ IsCall(after(c)) /\ after(c).op = c.op /\ after(c).arg = c.arg
             /\ after(c).answer = c.answer /\ after(c).home = "dead"
  BY <1>2 DEF CallsTyped, IsCall
<1> HIDE DEF after
<1> QED BY <1>1, <1>2 DEF CallsTyped, HomesOf, Creating
LEMMA InfoFollowsFacts ==
    ASSUME NEW cs, CallsTyped(cs), NEW i
    PROVE  LET new == InfoFollows(i, cs)
           IN /\ CallsTyped(new)
              /\ BlockAnswers(cs) \subseteq BlockAnswers(new)
              /\ HomesOf(new) \subseteq HomesOf(cs) \cup {"info"}
              /\ Creating(new) = Creating(cs)
<1> DEFINE one == StartedBy(user, i, cs, "info", None, "info")
           two == StartedBy(user, i, one, "logs", None, "info")
<1>1. InfoFollows(i, cs) \in {cs, one, two}
  BY DEF InfoFollows
<1>2. /\ CallsTyped(one) /\ BlockAnswers(cs) \subseteq BlockAnswers(one)
      /\ HomesOf(one) = HomesOf(cs) \cup {"info"} /\ Creating(one) = Creating(cs)
  BY StartedFacts DEF BlockOps
<1> HIDE DEF one
<1>3. /\ CallsTyped(two) /\ BlockAnswers(one) \subseteq BlockAnswers(two)
      /\ HomesOf(two) = HomesOf(one) \cup {"info"} /\ Creating(two) = Creating(one)
  BY <1>2, StartedFacts DEF BlockOps
<1> QED BY <1>1, <1>2, <1>3

-----------------------------------------------------------------------------
(* What a step leaves alone                                                *)

LEMMA BlocksFrame ==
    ASSUME BlocksInv, UNCHANGED <<user, blockedUsers, blocked>>, excused => excused',
           BlockAnswers(calls) \subseteq BlockAnswers(calls')
    PROVE  BlocksInv'
  BY DEF BlocksInv, BlockedBy

LEMMA HomesFrame ==
    ASSUME HomesInv, UNCHANGED <<box, dialog>>,
           HomesOf(calls') \cap {"box", "dialog"} \subseteq HomesOf(calls)
    PROVE  HomesInv'
  BY DEF HomesInv

LEMMA CreationFrame ==
    ASSUME CreationInv, UNCHANGED dialog, searched => searched',
           Creating(calls') \subseteq Creating(calls)
    PROVE  CreationInv'
<1> SUFFICES ASSUME ~searched'
             PROVE  /\ \A c, d \in Creating(calls') : c = d
                    /\ Creating(calls') # {} => dialog'.loading
  BY DEF CreationInv, Creating
<1> QED BY DEF CreationInv

\* A step that leaves the calls and the modals alone.
LEMMA Elsewhere ==
    ASSUME ShellInv, UNCHANGED <<user, blockedUsers, blocked, box, dialog, calls, searched>>,
           accounts' \subseteq accounts, excused => excused'
    PROVE  ShellInv'
<1>1. ShellType'
  BY DEF ShellInv, ShellType, CallsTyped, IsCall
<1> QED BY <1>1, BlocksFrame, HomesFrame, CreationFrame DEF ShellInv

\* A step that only changes the calls.
LEMMA CallsFrame ==
    ASSUME ShellInv, UNCHANGED <<user, blockedUsers, blocked, accounts, box, dialog, searched>>,
           excused => excused',
           CallsTyped(calls'),
           BlockAnswers(calls) \subseteq BlockAnswers(calls'),
           HomesOf(calls') \cap {"box", "dialog"} \subseteq HomesOf(calls),
           Creating(calls') \subseteq Creating(calls)
    PROVE  ShellInv'
<1>1. ShellType'
  BY DEF ShellInv, ShellType, CallsTyped, IsCall
<1> QED BY <1>1, BlocksFrame, HomesFrame, CreationFrame DEF ShellInv

LEMMA NewBoxType == NewBox \in Boxes /\ NewBox # None
<1>1. NewBox \in Boxes
  BY DEF NewBox, Boxes
<1> QED BY <1>1, NoneAssumption

LEMMA NewDialogType == NewDialog \in Dialogs /\ NewDialog # None /\ NewDialog.loading = FALSE
<1>1. NewDialog \in Dialogs /\ NewDialog.loading = FALSE
  BY DEF NewDialog, Dialogs
<1> QED BY <1>1, NoneAssumption

-----------------------------------------------------------------------------
(* The same five changes, and what becomes of the lists that are awaited   *)

Kept(W, cs, new) == Waits(W, cs) => Waits(W, new)

LEMMA KeptBySigns ==
    ASSUME NEW cs, NEW new, Signs(cs) \subseteq Signs(new)
    PROVE  \A W : Kept(W, cs, new)
  BY DEF Kept, Waits

LEMMA StartedLists ==
    ASSUME NEW cs, NEW u, NEW i, NEW op, NEW arg, NEW home
    PROVE  LET new == StartedBy(u, i, cs, op, arg, home)
           IN /\ Signs(new) = Signs(cs) \cup {<<home, op>>}
              /\ \A W : Kept(W, cs, new)
<1> DEFINE c == [n |-> NewId(cs), op |-> op, arg |-> arg, by |-> u, chat |-> i, home |-> home,
                 phase |-> "sent", answer |-> {}]
           new == StartedBy(u, i, cs, op, arg, home)
<1>1. new = cs \cup {c}
  BY DEF StartedBy
<1>2. c.home = home /\ Doing(c) = op
  BY DEF Doing
<1> HIDE DEF c, new
<1>3. Signs(new) = Signs(cs) \cup {<<home, op>>}
  BY <1>1, <1>2 DEF Signs
<1> QED BY <1>3, KeptBySigns DEF new

LEMMA StartedSound ==
    ASSUME NEW cs, NEW u, NEW rows, AllSound(cs, u, rows),
           NEW i \in 0..Len(rows), NEW op, NEW arg, NEW home \in Homes,
           op \in {"addMember", "removeMember", "leave"} =>
             /\ i # 0 /\ rows[i].type = "group"
             /\ IF op = "leave" THEN rows[i].creator # u ELSE rows[i].creator = u,
           op = "removeMember" => arg # u
    PROVE  AllSound(StartedBy(u, i, cs, op, arg, home), u, rows)
<1> DEFINE c == [n |-> NewId(cs), op |-> op, arg |-> arg, by |-> u, chat |-> i, home |-> home,
                 phase |-> "sent", answer |-> {}]
<1>1. Sound(c, u, rows)
  BY DEF Sound
<1> QED BY <1>1 DEF AllSound, StartedBy

LEMMA OrphanedLists ==
    ASSUME NEW cs, CallsTyped(cs), NEW home
    PROVE  LET new == Orphaned(cs, home)
           IN /\ \A u, rows : AllSound(cs, u, rows) /\ home \in Attached => AllSound(new, u, rows)
              /\ \A W : (\A sign \in W : sign[1] # home \/ <<"gone", sign[2]>> \in W)
                        => Kept(W, cs, new)
<1> DEFINE new == Orphaned(cs, home)
           after(c) == IF c.home = home THEN [c EXCEPT !.home = "gone"] ELSE c
<1>1. new = {after(c) : c \in cs}
  BY DEF Orphaned
<1>2. ASSUME NEW c \in cs
      PROVE  /\ after(c).op = c.op /\ after(c).arg = c.arg /\ after(c).by = c.by
             /\ after(c).chat = c.chat /\ after(c).phase = c.phase
             /\ after(c).answer = c.answer
             /\ after(c).home = IF c.home = home THEN "gone" ELSE c.home
  BY <1>2 DEF CallsTyped, IsCall
<1> HIDE DEF after, new
<1>3. ASSUME NEW u, NEW rows, AllSound(cs, u, rows), home \in Attached
      PROVE  AllSound(new, u, rows)
  <2> SUFFICES ASSUME NEW c \in cs PROVE Sound(after(c), u, rows)
    BY <1>1 DEF AllSound
  <2>1. Sound(c, u, rows)
    BY <1>3 DEF AllSound
  <2> QED BY <1>2, <1>3, <2>1 DEF Sound, Homes, Attached
<1>4. ASSUME NEW W, \A sign \in W : sign[1] # home \/ <<"gone", sign[2]>> \in W,
             Waits(W, cs)
      PROVE  Waits(W, new)
  <2>1. PICK c \in cs : <<c.home, Doing(c)>> \in W
    BY <1>4 DEF Waits, Signs
  <2>2. Doing(after(c)) = Doing(c) /\ after(c) \in new
    BY <1>1, <1>2 DEF Doing
  <2>3. <<after(c).home, Doing(c)>> \in W
    <3>1. <<c.home, Doing(c)>>[1] = c.home /\ <<c.home, Doing(c)>>[2] = Doing(c)
      OBVIOUS
    <3> QED BY <1>2, <1>4, <2>1, <3>1
  <2> QED BY <2>2, <2>3 DEF Waits, Signs
<1> QED BY <1>3, <1>4 DEF new, Kept

LEMMA RemovedLists ==
    ASSUME NEW cs, NEW c \in cs
    PROVE  /\ \A u, rows : AllSound(cs, u, rows) => AllSound(cs \ {c}, u, rows)
           /\ \A W : <<c.home, Doing(c)>> \notin W => Kept(W, cs, cs \ {c})
<1>1. Signs(cs) \subseteq Signs(cs \ {c}) \cup {<<c.home, Doing(c)>>}
  BY DEF Signs
<1> QED BY <1>1 DEF AllSound, Kept, Waits

LEMMA GoesOnLists ==
    ASSUME NEW cs, CallsTyped(cs), NEW c \in cs,
           NEW op \in {"contacts", "details", "info", "infoAdded"}
    PROVE  LET new == GoesOn(cs, c, op)
           IN /\ \A rows : AllSound(cs, user, rows) => AllSound(new, user, rows)
              /\ \A W : <<c.home, Doing(c)>> \notin W \/ <<c.home, op>> \in W => Kept(W, cs, new)
<1> DEFINE d == [c EXCEPT !.op = op, !.by = user, !.phase = "sent", !.answer = {}]
           new == GoesOn(cs, c, op)
<1>1. new = (cs \ {c}) \cup {d}
  BY DEF GoesOn
<1>2. /\ d.op = op /\ d.home = c.home /\ d.answer = {} /\ d.by = user /\ d.chat = c.chat
      /\ d.phase = "sent" /\ op \notin Creations
  BY DEF CallsTyped, IsCall, Creations
<1> HIDE DEF d, new
<1>3. ASSUME NEW rows, AllSound(cs, user, rows)
      PROVE  AllSound(new, user, rows)
  <2>1. Sound(c, user, rows)
    BY <1>3 DEF AllSound
  <2>2. Sound(d, user, rows)
    BY <1>2, <2>1 DEF Sound
  <2> QED BY <1>1, <1>3, <2>2 DEF AllSound
<1>4. Doing(d) = op
  BY <1>2 DEF Doing
<1>5. Signs(new) = Signs(cs \ {c}) \cup {<<c.home, op>>}
  BY <1>1, <1>2, <1>4 DEF Signs
<1>6. Signs(cs) \subseteq Signs(cs \ {c}) \cup {<<c.home, Doing(c)>>}
  BY DEF Signs
<1> QED BY <1>3, <1>5, <1>6 DEF new, Kept, Waits

LEMMA AnsweredLists ==
    ASSUME NEW cs, CallsTyped(cs), NEW c \in cs, c.phase = "sent", NEW value,
           c.op \in Creations => c.answer = {}
    PROVE  LET new == Answered(cs, c, value)
               sign == <<c.home, IF c.op \in Creations /\ value # {} THEN "made" ELSE c.op>>
           IN /\ \A u, rows : /\ AllSound(cs, u, rows)
                              /\ c.op \in {"chats", "names", "chat"} \cup Creations =>
                                   value \subseteq DOMAIN rows
                              /\ c.op \in {"info", "infoAdded", "findMembers"} =>
                                   value \subseteq Users
                              => AllSound(new, u, rows)
              /\ c.home # "dead" => sign \in Signs(new)
              /\ \A W : (\A s \in W : s[1] # "dead" /\ s[2] \notin Creations)
                        => Kept(W, cs, new)
<1> DEFINE d == [c EXCEPT !.phase = "answered", !.answer = value]
           new == Answered(cs, c, value)
           sign == <<c.home, IF c.op \in Creations /\ value # {} THEN "made" ELSE c.op>>
<1>1. /\ d.op = c.op /\ d.arg = c.arg /\ d.home = c.home /\ d.by = c.by /\ d.chat = c.chat
      /\ d.phase = "answered" /\ d.answer = value
  BY DEF CallsTyped, IsCall
<1>2. IF c.home = "dead" THEN new = cs \ {c} ELSE new = (cs \ {c}) \cup {d}
  BY DEF Answered
<1> HIDE DEF d, new
<1>3. ASSUME NEW u, NEW rows, AllSound(cs, u, rows),
             c.op \in {"chats", "names", "chat"} \cup Creations => value \subseteq DOMAIN rows,
             c.op \in {"info", "infoAdded", "findMembers"} => value \subseteq Users
      PROVE  AllSound(new, u, rows)
  <2>1. Sound(c, u, rows)
    BY <1>3 DEF AllSound
  <2>2. c.home # "dead" => Sound(d, u, rows)
    BY <1>1, <1>3, <2>1 DEF Sound
  <2> QED BY <1>2, <1>3, <2>2 DEF AllSound
<1>4. <<d.home, Doing(d)>> = sign /\ Doing(c) = c.op
  BY <1>1 DEF Doing
<1>5. c.home # "dead" => sign \in Signs(new)
  BY <1>2, <1>4 DEF Signs
<1>6. Signs(cs) \subseteq Signs(new) \cup {<<c.home, c.op>>}
  BY <1>2, <1>4 DEF Signs
<1>7. ASSUME NEW W, \A s \in W : s[1] # "dead" /\ s[2] \notin Creations, Waits(W, cs)
      PROVE  Waits(W, new)
  <2>1. PICK s \in W : s \in Signs(cs)
    BY <1>7 DEF Waits
  <2>2. CASE s \in Signs(new)
    BY <2>2 DEF Waits
  <2>3. CASE s = <<c.home, c.op>>
    <3>1. c.home # "dead" /\ c.op \notin Creations
      BY <1>7, <2>3
    <3>2. s = sign
      BY <2>3, <3>1
    <3> QED BY <1>5, <3>1, <3>2 DEF Waits
  <2> QED BY <1>6, <2>1, <2>2, <2>3
<1> QED BY <1>3, <1>5, <1>7 DEF new, Kept

LEMMA AbandonedLists ==
    ASSUME NEW cs, CallsTyped(cs), NEW v
    PROVE  \A u, rows : AllSound(cs, u, rows) => AllSound(Abandoned(cs), v, rows)
<1> DEFINE after(c) == [c EXCEPT !.home = "dead"]
<1>1. Abandoned(cs) = {after(c) : c \in {d \in cs : d.phase = "sent"}}
  BY DEF Abandoned
<1>2. ASSUME NEW c \in cs
      PROVE  /\ after(c).op = c.op /\ after(c).arg = c.arg /\ after(c).by = c.by
             /\ after(c).chat = c.chat /\ after(c).phase = c.phase
             /\ after(c).answer = c.answer /\ after(c).home = "dead"
  BY <1>2 DEF CallsTyped, IsCall
<1> HIDE DEF after
<1> SUFFICES ASSUME NEW u, NEW rows, NEW c \in cs, c.phase = "sent", Sound(c, u, rows)
             PROVE  Sound(after(c), v, rows)
  BY <1>1 DEF AllSound
<1> QED BY <1>2 DEF Sound, Homes, Attached

LEMMA InfoFollowsLists ==
    ASSUME NEW cs, AllSound(cs, user, chats), NEW i \in 0..Len(chats)
    PROVE  LET new == InfoFollows(i, cs)
           IN /\ AllSound(new, user, chats)
              /\ \A W : Kept(W, cs, new)
              /\ info # None /\ i # page => <<"info", "info">> \in Signs(new)
              /\ info # None /\ i # page /\ info.tab = "logs" /\ ShowsLogs(i) =>
                   <<"info", "logs">> \in Signs(new)
<1> DEFINE one == StartedBy(user, i, cs, "info", None, "info")
           two == StartedBy(user, i, one, "logs", None, "info")
<1>1. "info" \in Homes
  BY DEF Homes
<1>2. /\ AllSound(one, user, chats) /\ \A W : Kept(W, cs, one)
      /\ Signs(one) = Signs(cs) \cup {<<"info", "info">>}
  BY <1>1, StartedLists, StartedSound
<1> HIDE DEF one
<1>3. /\ AllSound(two, user, chats) /\ \A W : Kept(W, one, two)
      /\ Signs(two) = Signs(one) \cup {<<"info", "logs">>}
  BY <1>1, <1>2, StartedLists, StartedSound
<1>4. InfoFollows(i, cs) = IF info = None \/ i = page THEN cs
                           ELSE IF info.tab = "logs" /\ ShowsLogs(i) THEN two ELSE one
  BY DEF InfoFollows, one
<1> HIDE DEF two
<1>5. \A W : Kept(W, cs, cs) /\ Kept(W, cs, two)
  BY <1>2, <1>3 DEF Kept
<1> QED BY <1>2, <1>3, <1>4, <1>5

\* The user is gone, and his calls are nobody's.
LEMMA LeftSound ==
    ASSUME NEW cs, CallsTyped(cs), NEW u, NEW v, NEW rows, AllSound(cs, u, rows)
    PROVE  LET new == {[c EXCEPT !.home = IF @ = "dead" THEN @ ELSE "left"] : c \in cs}
           IN AllSound(new, v, rows) /\ \A c \in new : c.home \in {"left", "dead"}
<1> DEFINE after(c) == [c EXCEPT !.home = IF @ = "dead" THEN @ ELSE "left"]
<1>1. ASSUME NEW c \in cs
      PROVE  /\ after(c).op = c.op /\ after(c).arg = c.arg /\ after(c).by = c.by
             /\ after(c).chat = c.chat /\ after(c).phase = c.phase
             /\ after(c).answer = c.answer
             /\ after(c).home = IF c.home = "dead" THEN "dead" ELSE "left"
  BY <1>1 DEF CallsTyped, IsCall
<1> HIDE DEF after
<1>2. ASSUME NEW c \in cs PROVE Sound(after(c), v, rows)
  <2>1. Sound(c, u, rows)
    BY DEF AllSound
  <2> QED BY <1>1, <2>1 DEF Sound, Homes, Attached
<1>3. \A c \in {after(d) : d \in cs} : Sound(c, v, rows) /\ c.home \in {"left", "dead"}
  BY <1>1, <1>2
<1> QED BY <1>3 DEF AllSound, after

\* Chats are added, and none changes its type or its creator.
Grown(rows, new) ==
    /\ AllRows(new) /\ Len(rows) <= Len(new)
    /\ \A i \in DOMAIN rows : new[i].type = rows[i].type /\ new[i].creator = rows[i].creator

LEMMA GrownSound ==
    ASSUME NEW rows, NEW new, AllRows(rows), Grown(rows, new), NEW cs, NEW u,
           AllSound(cs, u, rows)
    PROVE  AllSound(cs, u, new)
<1>1. /\ Len(rows) \in Nat /\ Len(new) \in Nat /\ Len(rows) <= Len(new)
      /\ DOMAIN rows = 1..Len(rows) /\ DOMAIN new = 1..Len(new)
  BY DEF Grown, AllRows
<1>2. 0..Len(rows) \subseteq 0..Len(new) /\ DOMAIN rows \subseteq DOMAIN new
  BY <1>1
<1>3. \A i \in 0..Len(rows) : i # 0 => i \in DOMAIN rows
  BY <1>1
<1>4. \A i \in DOMAIN rows : new[i].type = rows[i].type /\ new[i].creator = rows[i].creator
  BY DEF Grown
<1> SUFFICES ASSUME NEW c \in cs, Sound(c, u, rows) PROVE Sound(c, u, new)
  BY DEF AllSound
<1> QED BY <1>2, <1>3, <1>4 DEF Sound

LEMMA AppendGrows ==
    ASSUME AllRows(chats), NEW chat \in Chats, KeepsCreator(chat)
    PROVE  /\ Grown(chats, Append(chats, chat))
           /\ DOMAIN Append(chats, chat) = DOMAIN chats \cup {Len(chats) + 1}
           /\ \A i \in DOMAIN chats : Append(chats, chat)[i] = chats[i]
           /\ Append(chats, chat)[Len(chats) + 1] = chat
<1> DEFINE new == Append(chats, chat)
<1>1. chats \in Seq(Chats) /\ Len(chats) \in Nat /\ DOMAIN chats = 1..Len(chats)
  BY DEF AllRows
<1>2. /\ new \in Seq(Chats) /\ Len(new) = Len(chats) + 1
      /\ \A i \in 1..Len(chats) : new[i] = chats[i]
      /\ new[Len(chats) + 1] = chat
  BY <1>1
<1> HIDE DEF new
<1>3. DOMAIN new = DOMAIN chats \cup {Len(chats) + 1}
  BY <1>1, <1>2
<1>4. AllRows(new)
  BY <1>1, <1>2, <1>3 DEF AllRows
<1> QED BY <1>1, <1>2, <1>3, <1>4 DEF Grown, new

-----------------------------------------------------------------------------
LEMMA Initially == Init => ShellInv
<1> SUFFICES ASSUME Init PROVE ShellInv
  OBVIOUS
<1>1. CallsTyped({}) /\ HomesOf({}) = {} /\ Creating({}) = {}
  BY DEF CallsTyped, HomesOf, Creating
<1>2. BlocksInv
  BY DEF Init, BlocksInv, BlockedBy
<1> QED BY <1>1, <1>2 DEF Init, ShellInv, ShellType, HomesInv, CreationInv

(* Contacts *)

LEMMA ContactsStep ==
    ASSUME ShellInv,
           OpenBox \/ CloseBox \/ SwitchTab
           \/ \E op \in ContactOps, v \in Users \cup {None} : Click(op, v)
    PROVE  ShellInv'
<1> USE DEF server, session, modals, bounds, history
<1>t. CallsTyped(calls) /\ ShellType /\ HomesInv /\ BlocksInv /\ CreationInv
  BY DEF ShellInv, ShellType
<1>1. CASE OpenBox
  <2>1. /\ CallsTyped(calls') /\ BlockAnswers(calls) \subseteq BlockAnswers(calls')
        /\ HomesOf(calls') = HomesOf(calls) \cup {"box"} /\ Creating(calls') = Creating(calls)
    BY <1>t, <1>1, StartedFacts DEF OpenBox, Started, BlockOps
  <2>2. UNCHANGED <<user, blockedUsers, blocked, accounts, dialog, searched, excused>>
        /\ box' = NewBox
    BY <1>1 DEF OpenBox
  <2>3. ShellType'
    BY <1>t, <2>1, <2>2, NewBoxType DEF ShellType, CallsTyped, IsCall
  <2>4. HomesInv'
    BY <1>t, <2>1, <2>2, NewBoxType DEF HomesInv
  <2> QED BY <1>t, <2>1, <2>2, <2>3, <2>4, BlocksFrame, CreationFrame DEF ShellInv
<1>2. CASE CloseBox
  <2>1. /\ CallsTyped(calls') /\ BlockAnswers(calls) \subseteq BlockAnswers(calls')
        /\ HomesOf(calls') \subseteq (HomesOf(calls) \ {"box"}) \cup {"gone"}
        /\ Creating(calls') \subseteq Creating(calls)
    BY <1>t, <1>2, OrphanedFacts DEF CloseBox
  <2>2. UNCHANGED <<user, blockedUsers, blocked, accounts, dialog, searched, excused>>
        /\ box' = None
    BY <1>2 DEF CloseBox
  <2>3. ShellType'
    BY <1>t, <2>1, <2>2 DEF ShellType, CallsTyped, IsCall
  <2>4. HomesInv'
    BY <1>t, <2>1, <2>2 DEF HomesInv
  <2> QED BY <1>t, <2>1, <2>2, <2>3, <2>4, BlocksFrame, CreationFrame DEF ShellInv
<1>3. CASE SwitchTab
  <2>1. /\ CallsTyped(calls') /\ BlockAnswers(calls) \subseteq BlockAnswers(calls')
        /\ HomesOf(calls') = HomesOf(calls) \cup {"box"} /\ Creating(calls') = Creating(calls)
    BY <1>t, <1>3, StartedFacts DEF SwitchTab, Started, BlockOps
  <2>2. UNCHANGED <<user, blockedUsers, blocked, accounts, dialog, searched, excused>>
    BY <1>3 DEF SwitchTab
  <2>3. box' \in Boxes
    BY <1>t, <1>3 DEF SwitchTab, ShellType, Boxes
  <2>4. ShellType'
    BY <1>t, <2>1, <2>2, <2>3 DEF ShellType, CallsTyped, IsCall
  <2>5. HomesInv'
    BY <1>t, <2>1, <2>2, <2>3, NoneAssumption DEF HomesInv
  <2> QED BY <1>t, <2>1, <2>2, <2>4, <2>5, BlocksFrame, CreationFrame DEF ShellInv
<1>4. ASSUME NEW op \in ContactOps, NEW v \in Users \cup {None}, Click(op, v)
      PROVE  ShellInv'
  <2>1. box # None /\ box \in Boxes
    BY <1>t, <1>4 DEF Click, Offered, ShellType
  <2>2. op \in BlockOps => v \in Users
    BY <1>4, <2>1 DEF Click, Offered, BlockOps, Boxes
  <2>3. op \notin Creations
    BY DEF ContactOps, Creations
  <2>4. /\ CallsTyped(calls') /\ BlockAnswers(calls) \subseteq BlockAnswers(calls')
        /\ HomesOf(calls') = HomesOf(calls) \cup {"box"} /\ Creating(calls') = Creating(calls)
    BY <1>t, <1>4, <2>2, <2>3, StartedFacts DEF Click, Started
  <2>5. UNCHANGED <<user, blockedUsers, blocked, accounts, box, dialog, searched, excused>>
    BY <1>4 DEF Click
  <2>6. ShellType'
    BY <1>t, <2>4, <2>5 DEF ShellType, CallsTyped, IsCall
  <2>7. HomesInv'
    BY <1>t, <2>1, <2>4, <2>5 DEF HomesInv
  <2> QED BY <1>t, <2>4, <2>5, <2>6, <2>7, BlocksFrame, CreationFrame DEF ShellInv
<1> QED BY <1>1, <1>2, <1>3, <1>4

\* Where a block changes what the server says, its answer is on its way, unless
\* the page that asked is gone.
LEMMA ServeContactsStep ==
    ASSUME ShellInv, NEW c \in calls, ServeContacts(c)
    PROVE  ShellInv'
<1> USE DEF server, session, modals, bounds, history
<1>t. CallsTyped(calls) /\ ShellType /\ HomesInv /\ BlocksInv /\ CreationInv
  BY DEF ShellInv, ShellType
<1>1. /\ c.phase = "sent" /\ c.op \in ContactOps
      /\ UNCHANGED <<user, blockedUsers, accounts, box, dialog, searched>>
      /\ excused' = (excused \/ (c.home = "dead" /\ blocked' # blocked))
      /\ calls' = Answered(calls, c, AnswerOf(c))
      /\ blocked' = CASE c.op = "block" -> blocked \cup {<<c.by, c.arg>>}
                       [] c.op = "unblock" -> blocked \ {<<c.by, c.arg>>}
                       [] OTHER -> blocked
  BY DEF ServeContacts
<1>2. c.op \in UserLists => AnswerOf(c) \subseteq Users
  BY <1>t, <1>1 DEF AnswerOf, UserLists, ContactOps, ContactsOf, BlockedBy, ShellType
<1>3. /\ CallsTyped(calls') /\ BlockAnswers(calls) \subseteq BlockAnswers(calls')
      /\ c.home # "dead" /\ c.op \in BlockOps => <<c.op, c.arg>> \in BlockAnswers(calls')
      /\ HomesOf(calls') \subseteq HomesOf(calls)
      /\ Creating(calls') # {} => Creating(calls) # {}
      /\ (\A a, b \in Creating(calls) : a = b) => \A a, b \in Creating(calls') : a = b
  BY <1>t, <1>1, <1>2, AnsweredFacts
<1>4. ShellType'
  BY <1>t, <1>1, <1>3 DEF ShellType, CallsTyped, IsCall
<1>5. HomesInv'
  BY <1>t, <1>1, <1>3, HomesFrame
<1>6. CreationInv'
  BY <1>t, <1>1, <1>3 DEF CreationInv
<1>7. BlocksInv'
  <2> SUFFICES ASSUME user # None, ~excused', NEW v \in Users
               PROVE  \/ v \in blockedUsers <=> v \in BlockedBy(user)'
                      \/ <<SaysOf(v \in BlockedBy(user)'), v>> \in BlockAnswers(calls')
    BY <1>1 DEF BlocksInv
  <2>1. CASE v \in BlockedBy(user)' <=> v \in BlockedBy(user)
    BY <1>t, <1>1, <1>3, <2>1 DEF BlocksInv, SaysOf
  <2>2. CASE ~(v \in BlockedBy(user)' <=> v \in BlockedBy(user))
    <3>1. /\ blocked' # blocked /\ c.op \in BlockOps /\ c.arg = v
          /\ c.op = SaysOf(v \in BlockedBy(user)')
      BY <1>1, <2>2 DEF BlockedBy, SaysOf, BlockOps
    <3> QED BY <1>1, <1>3, <3>1
  <2> QED BY <2>1, <2>2
<1> QED BY <1>4, <1>5, <1>6, <1>7 DEF ShellInv

\* The page believes the last answer that comes; it is right or crossed.
LEMMA SettleChangeStep ==
    ASSUME ShellInv, NEW c \in calls, SettleChange(c)
    PROVE  ShellInv'
<1> USE DEF server, session, modals, bounds, history
<1>t. CallsTyped(calls) /\ ShellType /\ HomesInv /\ BlocksInv /\ CreationInv
  BY DEF ShellInv, ShellType
<1>1. /\ c.phase = "answered" /\ c.op \in {"add", "delete", "block", "unblock"}
      /\ UNCHANGED <<user, blocked, accounts, dialog, searched>>
      /\ blockedUsers' = BlocksAfter(c)
      /\ excused' = (excused \/ Crossed(c))
      /\ calls' = GoesOn(calls, c, LoadAfter(c.op))
  BY DEF SettleChange, ReloadAfter
<1>2. LoadAfter(c.op) \notin BlockOps \cup Creations
  BY DEF LoadAfter, BlockOps, Creations
<1>3. /\ CallsTyped(calls')
      /\ BlockAnswers(calls) \subseteq BlockAnswers(calls') \cup {<<c.op, c.arg>>}
      /\ c.op \notin BlockOps => BlockAnswers(calls) \subseteq BlockAnswers(calls')
      /\ HomesOf(calls') \subseteq HomesOf(calls)
      /\ Creating(calls') \subseteq Creating(calls)
  BY <1>t, <1>1, <1>2, GoesOnFacts DEF DialogOps, Creations
<1>4. c.home = "box" => box \in Boxes
  BY <1>t DEF HomesInv, HomesOf, ShellType
<1>5. IF c.home = "box" THEN box' \in Boxes ELSE box' = box
  BY <1>4 DEF SettleChange, ReloadAfter, Boxes
<1>6. c.op \in BlockOps => c.arg \in Users
  BY <1>t DEF CallsTyped
<1>7. ShellType'
  <2>1. box' \in Boxes \cup {None}
    BY <1>t, <1>5 DEF ShellType
  <2>2. blockedUsers' \subseteq Users
    BY <1>t, <1>1, <1>6 DEF ShellType, BlocksAfter, BlockOps
  <2> QED BY <1>t, <1>1, <1>3, <2>1, <2>2 DEF ShellType, CallsTyped, IsCall
<1>8. HomesInv'
  BY <1>t, <1>1, <1>3, <1>5, NoneAssumption DEF HomesInv
<1>9. CreationInv'
  BY <1>t, <1>1, <1>3, CreationFrame
<1>10. BlocksInv'
  <2> SUFFICES ASSUME user # None, ~excused', NEW v \in Users
               PROVE  \/ v \in blockedUsers' <=> v \in BlockedBy(user)
                      \/ <<SaysOf(v \in BlockedBy(user)), v>> \in BlockAnswers(calls')
    BY <1>1 DEF BlocksInv, BlockedBy
  <2>1. \/ v \in blockedUsers <=> v \in BlockedBy(user)
        \/ <<SaysOf(v \in BlockedBy(user)), v>> \in BlockAnswers(calls)
    BY <1>t, <1>1 DEF BlocksInv
  <2>2. CASE c.op \notin BlockOps
    BY <1>1, <1>3, <2>1, <2>2 DEF BlocksAfter, BlockOps
  <2>3. CASE c.op \in BlockOps /\ v # c.arg
    <3>1. v \in blockedUsers' <=> v \in blockedUsers
      BY <1>1, <2>3 DEF BlocksAfter, BlockOps
    <3> QED BY <1>3, <2>1, <2>3, <3>1
  <2>4. CASE c.op \in BlockOps /\ v = c.arg
    <3>1. CASE c.op = SaysOf(v \in BlockedBy(user))
      BY <1>1, <2>4, <3>1 DEF BlocksAfter, BlockOps, SaysOf
    <3>2. CASE c.op # SaysOf(v \in BlockedBy(user))
      <4>1. <<SaysOf(v \in BlockedBy(user)), v>> \in BlockAnswers(calls)
        BY <1>1, <2>4, <3>2 DEF Crossed, BlockOps
      <4> QED BY <1>3, <3>2, <4>1
    <3> QED BY <3>1, <3>2
  <2> QED BY <2>2, <2>3, <2>4
<1> QED BY <1>7, <1>8, <1>9, <1>10 DEF ShellInv

LEMMA SettleContactsStep ==
    ASSUME ShellInv, NEW c \in calls, SettleContacts(c)
    PROVE  ShellInv'
<1> USE DEF server, session, modals, bounds, history
<1>t. CallsTyped(calls) /\ ShellType /\ HomesInv /\ BlocksInv /\ CreationInv
  BY DEF ShellInv, ShellType
<1>1. /\ c.op \in {"contacts", "details", "search"} /\ calls' = calls \ {c}
      /\ UNCHANGED <<user, blockedUsers, blocked, accounts, dialog, searched, excused>>
  BY DEF SettleContacts
<1>2. /\ CallsTyped(calls') /\ BlockAnswers(calls) \subseteq BlockAnswers(calls')
      /\ HomesOf(calls') \subseteq HomesOf(calls) /\ Creating(calls') \subseteq Creating(calls)
  BY <1>t, <1>1, RemovedFacts DEF BlockOps
<1>3. c.answer \subseteq Users
  BY <1>t, <1>1 DEF CallsTyped, UserLists
<1>4. c.home = "box" => box \in Boxes
  BY <1>t DEF HomesInv, HomesOf, ShellType
<1>5. IF c.home = "box" THEN box' \in Boxes ELSE box' = box
  <2>1. ASSUME c.home = "box" PROVE box' \in Boxes
    <3>1. \/ box' = [box EXCEPT !.contacts = c.answer, !.loading = FALSE]
          \/ box' = [box EXCEPT !.details = c.answer, !.detailsLoading = FALSE]
          \/ box' = [box EXCEPT !.results = c.answer]
      BY <1>1, <2>1 DEF SettleContacts
    <3> QED BY <1>3, <1>4, <2>1, <3>1 DEF Boxes
  <2> QED BY <2>1 DEF SettleContacts
<1>6. ShellType'
  <2>1. box' \in Boxes \cup {None}
    BY <1>t, <1>5 DEF ShellType
  <2> QED BY <1>t, <1>1, <1>2, <2>1 DEF ShellType, CallsTyped, IsCall
<1>7. HomesInv'
  BY <1>t, <1>1, <1>2, <1>5, NoneAssumption DEF HomesInv
<1> QED BY <1>t, <1>1, <1>2, <1>6, <1>7, BlocksFrame, CreationFrame DEF ShellInv

LEMMA SettleOpenChatStep ==
    ASSUME ShellInv, NEW c \in calls, SettleOpenChat(c)
    PROVE  ShellInv'
<1> USE DEF server, session, modals, bounds, history
<1>t. CallsTyped(calls) /\ ShellType /\ HomesInv /\ BlocksInv /\ CreationInv
  BY DEF ShellInv, ShellType
<1>1. /\ c.op = "chat"
      /\ UNCHANGED <<user, blockedUsers, blocked, accounts, dialog, searched, excused>>
      /\ box' = IF c.home = "left" THEN box ELSE None
  BY DEF SettleOpenChat
<1> DEFINE rest == calls \ {c}
           kept == IF c.home = "left" THEN rest ELSE Orphaned(rest, "box")
<1>2. PICK i \in c.answer : calls' = InfoFollows(i, kept)
  BY DEF SettleOpenChat
<1>3. /\ CallsTyped(rest) /\ BlockAnswers(calls) \subseteq BlockAnswers(rest)
      /\ HomesOf(rest) \subseteq HomesOf(calls) /\ Creating(rest) \subseteq Creating(calls)
  BY <1>t, <1>1, RemovedFacts DEF BlockOps
<1> HIDE DEF rest
<1>4. /\ CallsTyped(kept) /\ BlockAnswers(rest) \subseteq BlockAnswers(kept)
      /\ HomesOf(kept) \subseteq HomesOf(rest) \cup {"gone"}
      /\ c.home # "left" => "box" \notin HomesOf(kept)
      /\ Creating(kept) \subseteq Creating(rest)
  BY <1>3, OrphanedFacts
<1> HIDE DEF kept
<1>5. /\ CallsTyped(calls') /\ BlockAnswers(kept) \subseteq BlockAnswers(calls')
      /\ HomesOf(calls') \subseteq HomesOf(kept) \cup {"info"}
      /\ Creating(calls') \subseteq Creating(kept)
  BY <1>2, <1>4, InfoFollowsFacts
<1>6. ShellType'
  BY <1>t, <1>1, <1>5 DEF ShellType, CallsTyped, IsCall
<1>7. HomesInv'
  BY <1>t, <1>1, <1>3, <1>4, <1>5 DEF HomesInv
<1> QED BY <1>t, <1>1, <1>3, <1>4, <1>5, <1>6, <1>7, BlocksFrame, CreationFrame DEF ShellInv

LEMMA FailContactsStep ==
    ASSUME ShellInv, NEW c \in calls, FailContacts(c)
    PROVE  ShellInv'
<1> USE DEF server, session, modals, bounds, history
<1>t. CallsTyped(calls) /\ ShellType /\ HomesInv /\ BlocksInv /\ CreationInv
  BY DEF ShellInv, ShellType
<1>1. /\ calls' = calls \ {c}
      /\ UNCHANGED <<user, blockedUsers, blocked, accounts, dialog, searched>>
      /\ excused' = (excused \/ (c.phase = "answered" /\ c.op \in BlockOps))
  BY DEF FailContacts, BlockOps
<1>2. /\ CallsTyped(calls')
      /\ excused' \/ BlockAnswers(calls) \subseteq BlockAnswers(calls')
      /\ HomesOf(calls') \subseteq HomesOf(calls) /\ Creating(calls') \subseteq Creating(calls)
  BY <1>t, <1>1, RemovedFacts
<1>3. c.home = "box" => box \in Boxes
  BY <1>t DEF HomesInv, HomesOf, ShellType
<1>4. IF c.home = "box" THEN box' \in Boxes ELSE box' = box
  BY <1>3 DEF FailContacts, Boxes
<1>5. ShellType'
  <2>1. box' \in Boxes \cup {None}
    BY <1>t, <1>4 DEF ShellType
  <2> QED BY <1>t, <1>1, <1>2, <2>1 DEF ShellType, CallsTyped, IsCall
<1>6. HomesInv'
  BY <1>t, <1>1, <1>2, <1>4, NoneAssumption DEF HomesInv
<1>7. BlocksInv'
  BY <1>t, <1>1, <1>2, BlocksFrame DEF BlocksInv
<1> QED BY <1>t, <1>1, <1>2, <1>5, <1>6, <1>7, CreationFrame DEF ShellInv

-----------------------------------------------------------------------------
(* CreateChatModal                                                         *)

LEMMA OpenDialogStep ==
    ASSUME ShellInv, OpenDialog
    PROVE  ShellInv'
<1> USE DEF server, session, modals, bounds, history
<1>t. CallsTyped(calls) /\ ShellType /\ HomesInv /\ BlocksInv /\ CreationInv
  BY DEF ShellInv, ShellType
<1>1. /\ dialog = None /\ dialog' = NewDialog
      /\ UNCHANGED <<user, blockedUsers, blocked, accounts, box, calls, excused>>
  BY DEF OpenDialog, NoModal
<1>2. Creating(calls) = {}
  BY <1>t, <1>1 DEF HomesInv, HomesOf, Creating
<1>3. ShellType'
  BY <1>t, <1>1, NewDialogType DEF ShellType, CallsTyped, IsCall
<1>4. HomesInv'
  BY <1>t, <1>1, NewDialogType DEF HomesInv
<1>5. CreationInv'
  BY <1>1, <1>2 DEF CreationInv
<1> QED BY <1>t, <1>1, <1>3, <1>4, <1>5, BlocksFrame DEF ShellInv

LEMMA CloseDialogStep ==
    ASSUME ShellInv, CloseDialog
    PROVE  ShellInv'
<1> USE DEF server, session, modals, bounds, history
<1>t. CallsTyped(calls) /\ ShellType /\ HomesInv /\ BlocksInv /\ CreationInv
  BY DEF ShellInv, ShellType
<1>1. /\ dialog' = None /\ calls' = Orphaned(calls, "dialog")
      /\ UNCHANGED <<user, blockedUsers, blocked, accounts, box, searched, excused>>
  BY DEF CloseDialog
<1>2. /\ CallsTyped(calls') /\ BlockAnswers(calls) \subseteq BlockAnswers(calls')
      /\ HomesOf(calls') \subseteq (HomesOf(calls) \ {"dialog"}) \cup {"gone"}
  BY <1>t, <1>1, OrphanedFacts
<1>3. Creating(calls') = {}
  BY <1>2 DEF HomesOf, Creating
<1>4. ShellType'
  BY <1>t, <1>1, <1>2 DEF ShellType, CallsTyped, IsCall
<1>5. HomesInv'
  BY <1>t, <1>1, <1>2 DEF HomesInv
<1>6. CreationInv'
  BY <1>3 DEF CreationInv
<1> QED BY <1>t, <1>1, <1>2, <1>4, <1>5, <1>6, BlocksFrame DEF ShellInv

\* What is chosen in the dialog leaves its flag alone.
LEMMA ChooseStep ==
    ASSUME ShellInv,
           \/ \E type \in {"private", "group"} : ChooseType(type)
           \/ \E v \in Users : SelectUser(v) \/ AddToGroup(v) \/ RemoveFromGroup(v)
           \/ StepBack
    PROVE  ShellInv'
<1> USE DEF server, session, modals, bounds, history
<1>t. CallsTyped(calls) /\ ShellType /\ HomesInv /\ BlocksInv /\ CreationInv
  BY DEF ShellInv, ShellType
<1>1. /\ dialog # None
      /\ UNCHANGED <<user, blockedUsers, blocked, accounts, box, calls, searched, excused>>
  BY DEF ChooseType, SelectUser, AddToGroup, RemoveFromGroup, StepBack, SetDialog
<1>2. dialog \in Dialogs
  BY <1>t, <1>1 DEF ShellType
<1>3. dialog' \in Dialogs /\ dialog'.loading = dialog.loading
  <2>1. ASSUME NEW type \in {"private", "group"}, ChooseType(type)
        PROVE  dialog' \in Dialogs /\ dialog'.loading = dialog.loading
    BY <1>2, <2>1 DEF ChooseType, SetDialog, NewDialog, Dialogs
  <2>2. ASSUME NEW v \in Users, SelectUser(v) \/ AddToGroup(v) \/ RemoveFromGroup(v)
        PROVE  dialog' \in Dialogs /\ dialog'.loading = dialog.loading
    <3>1. CASE SelectUser(v)
      BY <1>2, <3>1 DEF SelectUser, SetDialog, Dialogs
    <3>2. CASE AddToGroup(v)
      BY <1>2, <3>2 DEF AddToGroup, SetDialog, Dialogs
    <3>3. CASE RemoveFromGroup(v)
      BY <1>2, <3>3 DEF RemoveFromGroup, SetDialog, Dialogs
    <3> QED BY <2>2, <3>1, <3>2, <3>3
  <2>3. ASSUME StepBack PROVE dialog' \in Dialogs /\ dialog'.loading = dialog.loading
    BY <1>2, <2>3 DEF StepBack, SetDialog, Dialogs
  <2> QED BY <2>1, <2>2, <2>3
<1>4. ShellType'
  BY <1>t, <1>1, <1>3 DEF ShellType, CallsTyped, IsCall
<1>5. HomesInv'
  BY <1>t, <1>1, <1>3, NoneAssumption DEF HomesInv
<1>6. CreationInv'
  BY <1>t, <1>1, <1>3 DEF CreationInv
<1> QED BY <1>t, <1>1, <1>4, <1>5, <1>6, BlocksFrame DEF ShellInv

\* The button is enabled only if no creation of this dialog is under way.
LEMMA DialogCallStep ==
    ASSUME ShellInv, NEW op \in DialogOps, NEW arg, DialogCall(op, arg)
    PROVE  ShellInv'
<1> USE DEF server, session, modals, bounds, history
<1>t. CallsTyped(calls) /\ ShellType /\ HomesInv /\ BlocksInv /\ CreationInv
  BY DEF ShellInv, ShellType
<1>1. /\ dialog # None /\ dialog' = [dialog EXCEPT !.loading = TRUE]
      /\ op \in Creations => ~dialog.loading
      /\ calls' = StartedBy(user, page, calls, op, arg, "dialog")
      /\ UNCHANGED <<user, blockedUsers, blocked, accounts, box, searched, excused>>
  BY DEF DialogCall, Started, MayCreate, DialogOps, Creations
<1>2. dialog' \in Dialogs /\ dialog'.loading
  BY <1>t, <1>1 DEF ShellType, Dialogs
<1>3. /\ CallsTyped(calls') /\ BlockAnswers(calls) \subseteq BlockAnswers(calls')
      /\ HomesOf(calls') = HomesOf(calls) \cup {"dialog"}
      /\ \E c : Creating(calls') \subseteq Creating(calls) \cup {c}
      /\ op \notin Creations => Creating(calls') = Creating(calls)
  BY <1>t, <1>1, StartedFacts DEF DialogOps, Creations, BlockOps
<1>4. ShellType'
  BY <1>t, <1>1, <1>2, <1>3 DEF ShellType, CallsTyped, IsCall
<1>5. HomesInv'
  BY <1>t, <1>1, <1>2, <1>3, NoneAssumption DEF HomesInv
<1>6. CreationInv'
  <2> SUFFICES ASSUME ~searched PROVE \A c, d \in Creating(calls') : c = d
    BY <1>1, <1>2 DEF CreationInv
  <2>1. CASE op \notin Creations
    BY <1>t, <1>3, <2>1 DEF CreationInv
  <2>2. CASE op \in Creations
    <3>1. Creating(calls) = {}
      BY <1>t, <1>1, <2>2 DEF CreationInv
    <3> QED BY <1>3, <3>1
  <2> QED BY <2>1, <2>2
<1> QED BY <1>t, <1>1, <1>3, <1>4, <1>5, <1>6, BlocksFrame DEF ShellInv

\* A search that ends leaves its mark.
LEMMA SettleFindStep ==
    ASSUME ShellInv, NEW c \in calls, SettleFind(c)
    PROVE  ShellInv'
<1> USE DEF server, session, modals, bounds, history
<1>t. CallsTyped(calls) /\ ShellType /\ HomesInv /\ BlocksInv /\ CreationInv
  BY DEF ShellInv, ShellType
<1>1. /\ c.op = "find" /\ calls' = calls \ {c}
      /\ UNCHANGED <<user, blockedUsers, blocked, accounts, box, excused>>
  BY DEF SettleFind
<1>2. /\ CallsTyped(calls') /\ BlockAnswers(calls) \subseteq BlockAnswers(calls')
      /\ HomesOf(calls') \subseteq HomesOf(calls) /\ Creating(calls') \subseteq Creating(calls)
  BY <1>t, <1>1, RemovedFacts DEF BlockOps
<1>3. c.home = "dialog" => dialog \in Dialogs
  BY <1>t DEF HomesInv, HomesOf, ShellType
<1>4. c.answer \subseteq Users
  BY <1>t, <1>1 DEF CallsTyped, UserLists
<1>5. IF c.home = "dialog" THEN dialog' \in Dialogs ELSE dialog' = dialog
  BY <1>3, <1>4 DEF SettleFind, Dialogs
<1>6. ShellType'
  <2>1. dialog' \in Dialogs \cup {None}
    BY <1>t, <1>5 DEF ShellType
  <2> QED BY <1>t, <1>1, <1>2, <2>1 DEF ShellType, CallsTyped, IsCall
<1>7. HomesInv'
  BY <1>t, <1>1, <1>2, <1>5, NoneAssumption DEF HomesInv
<1>8. CreationInv'
  <2>1. CASE c.home # "dialog"
    BY <1>t, <1>2, <1>5, <2>1, CreationFrame DEF SettleFind
  <2>2. CASE c.home = "dialog"
    <3>1. ~searched' => Creating(calls) = {}
      BY <2>2 DEF SettleFind, Creating
    <3> QED BY <1>2, <3>1 DEF CreationInv
  <2> QED BY <2>1, <2>2
<1> QED BY <1>t, <1>1, <1>2, <1>6, <1>7, <1>8, BlocksFrame DEF ShellInv

LEMMA SettleCreationStep ==
    ASSUME ShellInv, NEW c \in calls, SettleCreation(c)
    PROVE  ShellInv'
<1> USE DEF server, session, modals, bounds, history
<1>t. CallsTyped(calls) /\ ShellType /\ HomesInv /\ BlocksInv /\ CreationInv
  BY DEF ShellInv, ShellType
<1>1. /\ c.op \in Creations /\ c.op \notin BlockOps
      /\ UNCHANGED <<user, blockedUsers, blocked, accounts, box, searched, excused>>
  BY DEF SettleCreation, Creations, BlockOps
<1> DEFINE rest == calls \ {c}
           kept == IF c.home # "left" THEN Orphaned(rest, "dialog") ELSE rest
<1>2. /\ CallsTyped(rest) /\ BlockAnswers(calls) \subseteq BlockAnswers(rest)
      /\ HomesOf(rest) \subseteq HomesOf(calls) /\ Creating(rest) \subseteq Creating(calls)
      /\ c \notin Creating(rest)
  BY <1>t, <1>1, RemovedFacts
<1>3. CASE c.answer = {}
  <2>1. /\ calls' = rest
        /\ dialog' = IF c.home = "dialog" THEN [dialog EXCEPT !.loading = FALSE] ELSE dialog
    BY <1>3 DEF SettleCreation
  <2> HIDE DEF rest
  <2>2. c.home = "dialog" => dialog \in Dialogs
    BY <1>t DEF HomesInv, HomesOf, ShellType
  <2>3. IF c.home = "dialog" THEN dialog' \in Dialogs ELSE dialog' = dialog
    BY <2>1, <2>2 DEF Dialogs
  <2>4. ShellType'
    <3>1. dialog' \in Dialogs \cup {None}
      BY <1>t, <2>3 DEF ShellType
    <3> QED BY <1>t, <1>1, <1>2, <2>1, <3>1 DEF ShellType, CallsTyped, IsCall
  <2>5. HomesInv'
    BY <1>t, <1>1, <1>2, <2>1, <2>3, NoneAssumption DEF HomesInv
  <2>6. CreationInv'
    <3>1. CASE c.home # "dialog"
      BY <1>t, <1>1, <1>2, <2>1, <3>1, CreationFrame
    <3>2. CASE c.home = "dialog"
      <4>1. c \in Creating(calls)
        BY <1>1, <3>2 DEF Creating
      <4>2. ~searched => Creating(rest) = {}
        BY <1>t, <1>2, <4>1 DEF CreationInv
      <4> QED BY <1>1, <2>1, <4>2 DEF CreationInv
    <3> QED BY <3>1, <3>2
  <2> QED BY <1>t, <1>1, <1>2, <2>1, <2>4, <2>5, <2>6, BlocksFrame DEF ShellInv
<1>4. CASE c.answer # {}
  <2>1. PICK i \in c.answer : calls' = ChatCreated(i, kept, c.home)
    BY <1>4 DEF SettleCreation
  <2>2. dialog' = IF c.home # "left" THEN None ELSE dialog
    BY <1>4 DEF SettleCreation
  <2> HIDE DEF rest
  <2>3. /\ CallsTyped(kept) /\ BlockAnswers(rest) \subseteq BlockAnswers(kept)
        /\ HomesOf(kept) \subseteq HomesOf(rest) \cup {"gone"}
        /\ c.home # "left" => "dialog" \notin HomesOf(kept)
        /\ Creating(kept) \subseteq Creating(rest)
    BY <1>2, OrphanedFacts
  <2> HIDE DEF kept
  <2> DEFINE shown == InfoFollows(i, kept)
             home == IF c.home = "left" THEN c.home ELSE "page"
  <2>4. /\ CallsTyped(shown) /\ BlockAnswers(kept) \subseteq BlockAnswers(shown)
        /\ HomesOf(shown) \subseteq HomesOf(kept) \cup {"info"}
        /\ Creating(shown) = Creating(kept)
    BY <2>3, InfoFollowsFacts
  <2>5. calls' = StartedBy(user, page, shown, "chats", None, home)
    BY <2>1 DEF ChatCreated, Started
  <2>6. home \in {"left", "page"}
    OBVIOUS
  <2> HIDE DEF shown, home
  <2>7. /\ CallsTyped(calls') /\ BlockAnswers(shown) \subseteq BlockAnswers(calls')
        /\ HomesOf(calls') = HomesOf(shown) \cup {home}
        /\ Creating(calls') = Creating(shown)
    BY <2>4, <2>5, <2>6, StartedFacts DEF BlockOps
  <2>8. ShellType'
    BY <1>t, <1>1, <2>2, <2>7 DEF ShellType, CallsTyped, IsCall
  <2>9. HomesInv'
    BY <1>t, <1>1, <1>2, <2>2, <2>3, <2>4, <2>6, <2>7 DEF HomesInv
  <2>10. CreationInv'
    <3>1. CASE c.home = "left"
      BY <1>t, <1>1, <1>2, <2>2, <2>3, <2>4, <2>7, <3>1, CreationFrame
    <3>2. CASE c.home # "left"
      <4>1. Creating(kept) = {}
        BY <2>3, <3>2 DEF HomesOf, Creating
      <4> QED BY <2>4, <2>7, <4>1 DEF CreationInv
    <3> QED BY <3>1, <3>2
  <2>11. BlockAnswers(calls) \subseteq BlockAnswers(calls')
    BY <1>2, <2>3, <2>4, <2>7
  <2> QED BY <1>t, <1>1, <2>8, <2>9, <2>10, <2>11, BlocksFrame DEF ShellInv
<1> QED BY <1>3, <1>4

LEMMA FailShellStep ==
    ASSUME ShellInv, NEW c \in calls, FailShell(c)
    PROVE  ShellInv'
<1> USE DEF server, session, modals, bounds, history
<1>t. CallsTyped(calls) /\ ShellType /\ HomesInv /\ BlocksInv /\ CreationInv
  BY DEF ShellInv, ShellType
<1>1. /\ c.op \in ShellOps /\ calls' = calls \ {c}
      /\ UNCHANGED <<user, blockedUsers, blocked, accounts, box, excused>>
      /\ dialog' = IF c.home = "dialog" THEN [dialog EXCEPT !.loading = FALSE] ELSE dialog
      /\ searched' = (searched \/ (c.home = "dialog" /\ c.op = "find"))
  BY DEF FailShell
<1>2. c.op \notin BlockOps
  BY <1>1 DEF ShellOps, DialogOps, InfoOps, InfoLoads, Creations, BlockOps
<1>3. /\ CallsTyped(calls') /\ BlockAnswers(calls) \subseteq BlockAnswers(calls')
      /\ HomesOf(calls') \subseteq HomesOf(calls) /\ Creating(calls') \subseteq Creating(calls)
      /\ c \notin Creating(calls')
  BY <1>t, <1>1, <1>2, RemovedFacts
<1>4. c.home = "dialog" => dialog \in Dialogs
  BY <1>t DEF HomesInv, HomesOf, ShellType
<1>5. IF c.home = "dialog" THEN dialog' \in Dialogs ELSE dialog' = dialog
  BY <1>1, <1>4 DEF Dialogs
<1>6. ShellType'
  <2>1. dialog' \in Dialogs \cup {None}
    BY <1>t, <1>5 DEF ShellType
  <2> QED BY <1>t, <1>1, <1>3, <2>1 DEF ShellType, CallsTyped, IsCall
<1>7. HomesInv'
  BY <1>t, <1>1, <1>3, <1>5, NoneAssumption DEF HomesInv
<1>8. CreationInv'
  <2>1. CASE c.home # "dialog"
    BY <1>t, <1>1, <1>3, <2>1, CreationFrame
  <2>2. CASE c.home = "dialog" /\ c.op \in Creations
    <3>1. c \in Creating(calls)
      BY <2>2 DEF Creating
    <3>2. ~searched' => Creating(calls') = {}
      BY <1>t, <1>1, <1>3, <3>1 DEF CreationInv
    <3> QED BY <3>2 DEF CreationInv
  <2>3. CASE c.home = "dialog" /\ c.op = "find"
    BY <1>1, <2>3 DEF CreationInv
  <2>4. c.home = "dialog" => c.op \in Creations \cup {"find"}
    BY <1>t DEF CallsTyped, DialogOps
  <2> QED BY <2>1, <2>2, <2>3, <2>4
<1> QED BY <1>t, <1>1, <1>3, <1>6, <1>7, <1>8, BlocksFrame DEF ShellInv

-----------------------------------------------------------------------------
(* ChatInfoModal, the list of chats and the server's side of both          *)

LEMMA InfoStep ==
    ASSUME ShellInv,
           \/ OpenInfo \/ CloseInfo \/ CancelSearch
           \/ \E tab \in {"participants", "add", "logs"} : ChooseTab(tab)
           \/ \E op \in InfoOps \ InfoLoads, v \in Users \cup {None} \cup SUBSET Users :
                InfoCall(op, v)
    PROVE  ShellInv'
<1> USE DEF server, session, modals, bounds, history
<1>t. CallsTyped(calls)
  BY DEF ShellInv, ShellType
<1>1. /\ UNCHANGED <<user, blockedUsers, blocked, accounts, box, dialog, searched>>
      /\ excused' = excused
  BY DEF OpenInfo, CloseInfo, CancelSearch, ChooseTab, InfoCall
<1>2. \/ calls' = calls
      \/ calls' = Orphaned(calls, "info")
      \/ \E op \in InfoOps \cup InfoLoads :
           \E v : calls' = StartedBy(user, page, calls, op, v, "info")
  BY DEF OpenInfo, CloseInfo, CancelSearch, ChooseTab, InfoCall, Started, InfoOps, InfoLoads
<1>3. CASE calls' = calls
  BY <1>1, <1>3, Elsewhere
<1>4. CASE calls' = Orphaned(calls, "info")
  <2>1. /\ CallsTyped(calls') /\ BlockAnswers(calls) \subseteq BlockAnswers(calls')
        /\ HomesOf(calls') \subseteq HomesOf(calls) \cup {"gone"}
        /\ Creating(calls') \subseteq Creating(calls)
    BY <1>t, <1>4, OrphanedFacts
  <2> QED BY <1>1, <2>1, CallsFrame
<1>5. ASSUME NEW op \in InfoOps \cup InfoLoads, NEW v,
             calls' = StartedBy(user, page, calls, op, v, "info")
      PROVE  ShellInv'
  <2>1. op \notin BlockOps
    BY DEF InfoOps, InfoLoads, BlockOps
  <2>2. /\ CallsTyped(calls') /\ BlockAnswers(calls) \subseteq BlockAnswers(calls')
        /\ HomesOf(calls') = HomesOf(calls) \cup {"info"}
        /\ Creating(calls') = Creating(calls)
    BY <1>t, <1>5, <2>1, StartedFacts
  <2> QED BY <1>1, <2>2, CallsFrame
<1> QED BY <1>2, <1>3, <1>4, <1>5

LEMMA ServeChatsStep ==
    ASSUME ShellInv, NEW c \in calls, ServeChats(c)
    PROVE  ShellInv'
<1> USE DEF server, session, modals, bounds, history
<1>t. CallsTyped(calls) /\ ShellType /\ HomesInv /\ BlocksInv /\ CreationInv
  BY DEF ShellInv, ShellType
<1>1. /\ c.phase = "sent" /\ c.op \in ShellOps
      /\ UNCHANGED <<user, blockedUsers, blocked, accounts, box, dialog, searched, excused>>
      /\ calls' = Answered(calls, c, ChatAnswer(c))
  BY DEF ServeChats
<1>2. c.op \in UserLists => ChatAnswer(c) \subseteq Users
  BY <1>t, <1>1 DEF ChatAnswer, UserLists, ShellOps, DialogOps, InfoOps, InfoLoads, Creations,
                    ShellType
<1>3. /\ CallsTyped(calls') /\ BlockAnswers(calls) \subseteq BlockAnswers(calls')
      /\ HomesOf(calls') \subseteq HomesOf(calls)
      /\ Creating(calls') # {} => Creating(calls) # {}
      /\ (\A a, b \in Creating(calls) : a = b) => \A a, b \in Creating(calls') : a = b
  BY <1>t, <1>1, <1>2, AnsweredFacts
<1>4. ShellType'
  BY <1>t, <1>1, <1>3 DEF ShellType, CallsTyped, IsCall
<1>5. HomesInv'
  BY <1>t, <1>1, <1>3, HomesFrame
<1>6. CreationInv'
  BY <1>t, <1>1, <1>3 DEF CreationInv
<1> QED BY <1>t, <1>1, <1>3, <1>4, <1>5, <1>6, BlocksFrame DEF ShellInv

\* The names of the chats are asked for: the same call under another name.
LEMMA AskNamesStep ==
    ASSUME ShellInv, NEW c \in calls, AskNames(c)
    PROVE  ShellInv'
<1> USE DEF server, session, modals, bounds, history
<1>t. CallsTyped(calls)
  BY DEF ShellInv, ShellType
<1> DEFINE d == [c EXCEPT !.op = "names", !.phase = "sent"]
<1>1. /\ c.op = "chats" /\ calls' = (calls \ {c}) \cup {d}
      /\ UNCHANGED <<user, blockedUsers, blocked, accounts, box, dialog, searched, excused>>
  BY DEF AskNames
<1>2. IsCall(c) /\ c.home # "dialog"
  BY <1>t, <1>1 DEF CallsTyped, DialogOps, Creations
<1>3. IsCall(d) /\ d.op = "names" /\ d.home = c.home
  BY <1>2 DEF IsCall
<1> HIDE DEF d
<1>4. CallsTyped(calls')
  BY <1>t, <1>1, <1>2, <1>3 DEF CallsTyped, BlockOps, UserLists
<1>5. BlockAnswers(calls) \subseteq BlockAnswers(calls')
  BY <1>1 DEF BlockAnswers
<1>6. HomesOf(calls') \subseteq HomesOf(calls)
  BY <1>1, <1>3 DEF HomesOf
<1>7. Creating(calls') \subseteq Creating(calls)
  BY <1>1, <1>2, <1>3 DEF Creating
<1> QED BY <1>1, <1>4, <1>5, <1>6, <1>7, CallsFrame

LEMMA SettleListStep ==
    ASSUME ShellInv, NEW c \in calls, SettleChats(c) \/ SettleInfo(c)
    PROVE  ShellInv'
<1> USE DEF server, session, modals, bounds, history
<1>t. CallsTyped(calls)
  BY DEF ShellInv, ShellType
<1>1. /\ c.op \in InfoLoads \cup {"names", "findMembers"} /\ calls' = calls \ {c}
      /\ UNCHANGED <<user, blockedUsers, blocked, accounts, box, dialog, searched, excused>>
  BY DEF SettleChats, SettleInfo
<1>2. /\ CallsTyped(calls') /\ BlockAnswers(calls) \subseteq BlockAnswers(calls')
      /\ HomesOf(calls') \subseteq HomesOf(calls) /\ Creating(calls') \subseteq Creating(calls)
  BY <1>t, <1>1, RemovedFacts DEF BlockOps, InfoLoads
<1> QED BY <1>1, <1>2, CallsFrame

LEMMA SettleMembersStep ==
    ASSUME ShellInv, NEW c \in calls, SettleMembers(c)
    PROVE  ShellInv'
<1> USE DEF server, session, modals, bounds, history
<1>t. CallsTyped(calls)
  BY DEF ShellInv, ShellType
<1>1. PICK op \in {"info", "infoAdded"} :
        /\ c.op \in {"addMember", "removeMember"} /\ calls' = GoesOn(calls, c, op)
        /\ UNCHANGED <<user, blockedUsers, blocked, accounts, box, dialog, searched, excused>>
  BY DEF SettleMembers
<1>2. /\ CallsTyped(calls') /\ BlockAnswers(calls) \subseteq BlockAnswers(calls')
      /\ HomesOf(calls') \subseteq HomesOf(calls) /\ Creating(calls') \subseteq Creating(calls)
  BY <1>t, <1>1, GoesOnFacts DEF BlockOps, DialogOps, Creations
<1> QED BY <1>1, <1>2, CallsFrame

-----------------------------------------------------------------------------
(* Pages and sessions                                                      *)

\* A page that is loaded has no calls of its modals, and if it lost the answer
\* of a block it is excused.
LEMMA LoadPageStep ==
    ASSUME ShellInv, NEW u, u = user \/ u = None, LoadPage(u),
           UNCHANGED <<accounts, blocked, blockedUsers, searched>>
    PROVE  ShellInv'
<1>t. CallsTyped(calls) /\ ShellType /\ BlocksInv
  BY DEF ShellInv, ShellType
<1>1. /\ user' = u /\ box' = None /\ dialog' = None
      /\ excused' = (excused \/ \E c \in calls : c.phase = "answered" /\ c.op \in BlockOps)
  BY DEF LoadPage, BlockOps
<1> DEFINE left == Abandoned(calls)
<1>2. /\ CallsTyped(left) /\ HomesOf(left) \subseteq {"dead"} /\ Creating(left) = {}
  BY <1>t, AbandonedFacts
<1>3. calls' = left \/ calls' = StartedBy(u, 0, left, "chats", None, "page")
  BY DEF LoadPage
<1> HIDE DEF left
<1>4. /\ CallsTyped(calls') /\ HomesOf(calls') \subseteq {"dead", "page"}
      /\ Creating(calls') = {}
  BY <1>2, <1>3, StartedFacts DEF BlockOps
<1>5. ShellType'
  BY <1>t, <1>1, <1>4 DEF ShellType, CallsTyped, IsCall
<1>6. HomesInv'
  BY <1>4 DEF HomesInv
<1>7. CreationInv'
  BY <1>4 DEF CreationInv
<1>8. BlocksInv'
  <2> SUFFICES ASSUME user' # None, ~excused', NEW v \in Users
               PROVE  v \in blockedUsers <=> v \in BlockedBy(user)
    BY <1>1 DEF BlocksInv, BlockedBy
  <2>1. BlockAnswers(calls) = {}
    BY <1>1 DEF BlockAnswers, BlockOps
  <2> QED BY <1>t, <1>1, <2>1 DEF BlocksInv
<1> QED BY <1>5, <1>6, <1>7, <1>8 DEF ShellInv

LEMMA LoginStep ==
    ASSUME ShellInv, NEW u, Login(u)
    PROVE  ShellInv'
<1> USE DEF server, modals
<1>t. CallsTyped(calls) /\ ShellType /\ HomesInv /\ BlocksInv /\ CreationInv
  BY DEF ShellInv, ShellType
<1>1. /\ user' = u /\ excused' = (blockedUsers # BlockedBy(u))
      /\ calls' = StartedBy(u, 0, calls, "chats", None, "page")
      /\ UNCHANGED <<blockedUsers, blocked, accounts, box, dialog, searched>>
  BY DEF Login
<1>2. /\ CallsTyped(calls') /\ HomesOf(calls') = HomesOf(calls) \cup {"page"}
      /\ Creating(calls') = Creating(calls)
  BY <1>t, <1>1, StartedFacts DEF BlockOps
<1>3. ShellType'
  BY <1>t, <1>1, <1>2 DEF ShellType, CallsTyped, IsCall
<1>4. HomesInv'
  BY <1>t, <1>1, <1>2, HomesFrame
<1>5. CreationInv'
  BY <1>t, <1>1, <1>2, CreationFrame
<1>6. BlocksInv'
  BY <1>1 DEF BlocksInv, BlockedBy
<1> QED BY <1>3, <1>4, <1>5, <1>6 DEF ShellInv

LEMMA LogoutStep ==
    ASSUME ShellInv, Logout
    PROVE  ShellInv'
<1> USE DEF server, history
<1>t. CallsTyped(calls) /\ ShellType
  BY DEF ShellInv, ShellType
<1> DEFINE after(c) == [c EXCEPT !.home = IF @ = "dead" THEN @ ELSE "left"]
<1>1. /\ user' = None /\ blockedUsers' = {} /\ box' = None /\ dialog' = None
      /\ calls' = {after(c) : c \in calls}
      /\ UNCHANGED accounts
  BY DEF Logout
<1>2. ASSUME NEW c \in calls
      PROVE  /\ IsCall(after(c)) /\ after(c).op = c.op /\ after(c).arg = c.arg
             /\ after(c).answer = c.answer /\ after(c).home \in {"dead", "left"}
  BY <1>t, <1>2 DEF CallsTyped, IsCall
<1> HIDE DEF after
<1>3. CallsTyped(calls') /\ HomesOf(calls') \subseteq {"dead", "left"} /\ Creating(calls') = {}
  BY <1>t, <1>1, <1>2 DEF CallsTyped, HomesOf, Creating
<1>4. ShellType'
  BY <1>t, <1>1, <1>3 DEF ShellType, CallsTyped, IsCall
<1> QED BY <1>1, <1>3, <1>4 DEF ShellInv, HomesInv, CreationInv, BlocksInv

-----------------------------------------------------------------------------
LEMMA ShellNext == ShellInv /\ [Next]_vars => ShellInv'
<1> SUFFICES ASSUME ShellInv, [Next]_vars PROVE ShellInv'
  OBVIOUS
<1> USE DEF server, session, modals, bounds, history
<1>1. CASE ContactsNext
  BY <1>1, ContactsStep, ServeContactsStep, SettleChangeStep, SettleContactsStep,
     SettleOpenChatStep, FailContactsStep DEF ContactsNext
<1>2. CASE DialogsNext
  <2>1. ASSUME NEW c \in calls, SettleLeave(c) PROVE ShellInv'
    <3>1. LoadPage(user) /\ UNCHANGED <<accounts, blocked, blockedUsers, searched>>
      BY <2>1 DEF SettleLeave
    <3> QED BY <3>1, LoadPageStep
  <2> QED BY <1>2, <2>1, OpenDialogStep, CloseDialogStep, ChooseStep, DialogCallStep, InfoStep,
             ServeChatsStep, AskNamesStep, SettleListStep, SettleFindStep, SettleCreationStep,
             SettleMembersStep, FailShellStep DEF DialogsNext
<1>3. ASSUME NEW i \in sidebar, OpenChat(i) PROVE ShellInv'
  BY <1>3, Elsewhere DEF OpenChat
<1>4. ASSUME NEW u \in Local, Login(u) PROVE ShellInv'
  BY <1>4, LoginStep
<1>5. CASE Logout
  BY <1>5, LogoutStep
<1>6. CASE LeavePage
  <2>1. PICK u \in {user, None} : LoadPage(u)
    BY <1>6 DEF LeavePage
  <2>2. UNCHANGED <<accounts, blocked, blockedUsers, searched>>
    BY <1>6 DEF LeavePage
  <2> QED BY <2>1, <2>2, LoadPageStep
<1>7. ASSUME NEW u \in Local, NEW v \in Users, BlockElsewhere(u, v) PROVE ShellInv'
  <2>1. /\ excused' /\ UNCHANGED <<user, blockedUsers, accounts, box, dialog, calls, searched>>
    BY <1>7 DEF BlockElsewhere
  <2>2. ShellType' /\ BlocksInv'
    BY <2>1 DEF ShellInv, ShellType, CallsTyped, IsCall, BlocksInv
  <2> QED BY <2>1, <2>2, HomesFrame, CreationFrame DEF ShellInv
<1>8. CASE (\E v \in Users : AccountDeleted(v) \/ Invited(v))
             \/ \E i \in DOMAIN chats : Removed(i)
  <2>1. /\ accounts' \subseteq accounts
        /\ UNCHANGED <<user, blockedUsers, blocked, box, dialog, calls, searched, excused>>
    BY <1>8 DEF AccountDeleted, Invited, Removed
  <2> QED BY <2>1, Elsewhere
<1>9. CASE UNCHANGED vars
  BY <1>9, Elsewhere DEF vars
<1> QED BY <1>1, <1>2, <1>3, <1>4, <1>5, <1>6, <1>7, <1>8, <1>9 DEF Next

LEMMA ShellInvariant == Spec => []ShellInv
<1>1. Init => ShellInv
  BY Initially
<1>2. ShellInv /\ [Next]_vars => ShellInv'
  BY ShellNext
<1> QED BY <1>1, <1>2, PTL DEF Spec

\* Whatever blocks, unblocks, logins, reloads and lost answers come in whatever
\* order: unless one of the named cases has happened, the page hides exactly
\* whom the server has as blocked (AuthContext.jsx 171-179, ContactsModal.jsx
\* 95-124).
THEOREM BlocksAgree == Spec => []BlockListsAgree
<1>1. ShellInv => BlockListsAgree
  <2> SUFFICES ASSUME ShellInv, user # None, ~excused,
                      \A c \in calls : c.op \notin {"block", "unblock"}
               PROVE  blockedUsers = BlockedBy(user)
    BY DEF BlockListsAgree
  <2>1. BlockAnswers(calls) = {}
    BY DEF BlockAnswers
  <2>2. \A v \in Users : v \in blockedUsers <=> v \in BlockedBy(user)
    BY <2>1 DEF ShellInv, BlocksInv
  <2> QED BY <2>2 DEF ShellInv, ShellType, BlockedBy
<1> QED BY <1>1, ShellInvariant, PTL

\* However often dialogs are closed and opened again, one of them creates two
\* chats at a time only after a search (CreateChatModal.jsx 18-30, 58-116).
THEOREM OneCreation == Spec => []TwoCreationsNeedSearch
<1>1. ShellInv => TwoCreationsNeedSearch
  BY DEF ShellInv, CreationInv, TwoCreationsNeedSearch, Creating
<1> QED BY <1>1, ShellInvariant, PTL

-----------------------------------------------------------------------------
(* What a step leaves alone of the lists                                   *)

LEMMA ContactsFrame ==
    ASSUME ContactsFresh, UNCHANGED <<user, accounts, contacts>>,
           box' # None /\ box'.tab = "contacts" /\ "contacts" \notin stale' =>
             /\ box # None /\ box.tab = "contacts" /\ "contacts" \notin stale
             /\ box'.contacts = box.contacts /\ Kept(ContactsWaits, calls, calls')
    PROVE  ContactsFresh'
  BY DEF ContactsFresh, ContactsOf, Kept, Waits, ContactsWaits

LEMMA DetailsFrame ==
    ASSUME DetailsFresh, UNCHANGED <<user, accounts, blocked>>,
           box' # None /\ box'.tab = "blocked" /\ "details" \notin stale' =>
             /\ box # None /\ box.tab = "blocked" /\ "details" \notin stale
             /\ box'.details = box.details /\ Kept(DetailsWaits, calls, calls')
    PROVE  DetailsFresh'
  BY DEF DetailsFresh, BlockedBy, Kept, Waits, DetailsWaits

LEMMA SidebarFrame ==
    ASSUME SidebarFresh, UNCHANGED user,
           user' # None /\ "sidebar" \notin stale' =>
             /\ "sidebar" \notin stale /\ UNCHANGED sidebar
             /\ ChatsOf(user)' = ChatsOf(user) /\ Kept(SidebarWaits, calls, calls')
    PROVE  SidebarFresh'
  BY DEF SidebarFresh, Kept, Waits, SidebarWaits, Attached

LEMMA ParticipantsFrame ==
    ASSUME ParticipantsFresh,
           info' # None /\ "participants" \notin stale' =>
             /\ info # None /\ "participants" \notin stale
             /\ info'.participants = info.participants
             /\ MembersOf(page)' = MembersOf(page) /\ Kept(ParticipantsWaits, calls, calls')
    PROVE  ParticipantsFresh'
  BY DEF ParticipantsFresh, Kept, Waits, ParticipantsWaits

LEMMA LogsFrame ==
    ASSUME LogsFresh,
           info' # None /\ info'.tab = "logs" /\ "logs" \notin stale' =>
             /\ info # None /\ info.tab = "logs" /\ "logs" \notin stale
             /\ ShowsLogs(page)' => ShowsLogs(page)
             /\ UNCHANGED page /\ info'.logs = info.logs /\ Kept(LogsWaits, calls, calls')
    PROVE  LogsFresh'
  BY DEF LogsFresh, Kept, Waits, LogsWaits

\* A step that changes neither the server's rows nor the user, the page and the
\* list of chats, and neither opens a modal nor shows another tab of one.
LEMMA ListsFrame ==
    ASSUME Lists,
           UNCHANGED <<accounts, contacts, blocked, chats, user, page, sidebar>>,
           stale \subseteq stale',
           box' # None => /\ box # None
                          /\ \A f \in {"tab", "contacts", "details"} : box'[f] = box[f]
                          /\ Kept(ContactsWaits, calls, calls')
                          /\ Kept(DetailsWaits, calls, calls'),
           info' # None => /\ info # None /\ info'.participants = info.participants
                           /\ info'.tab = "logs" => info'.tab = info.tab /\ info'.logs = info.logs
                           /\ Kept(ParticipantsWaits, calls, calls')
                           /\ Kept(LogsWaits, calls, calls'),
           "sidebar" \in stale' \/ Kept(SidebarWaits, calls, calls')
    PROVE  /\ ContactsFresh' /\ DetailsFresh' /\ SidebarFresh'
           /\ ParticipantsFresh' /\ LogsFresh' /\ RowsInv'
<1>1. ContactsFresh'
  BY ContactsFrame DEF Lists
<1>2. DetailsFresh'
  BY DetailsFrame DEF Lists
<1>3. SidebarFresh'
  BY SidebarFrame DEF Lists, ChatsOf
<1>4. ParticipantsFresh'
  BY ParticipantsFrame DEF Lists, MembersOf
<1>5. LogsFresh'
  BY LogsFrame DEF Lists, ShowsLogs
<1>6. RowsInv'
  BY DEF Lists, RowsInv
<1> QED BY <1>1, <1>2, <1>3, <1>4, <1>5, <1>6

LEMMA PageFrame ==
    ASSUME PageInv, UNCHANGED <<user, chats, page, sidebar>>,
           info' \in Infos \cup {None}, info' # None => page # 0,
           "info" \in HomesOf(calls') => info' # None,
           user # None \/ (NoModal' /\ \A c \in calls' : c.home \in {"left", "dead"})
    PROVE  PageInv'
  BY DEF PageInv, HomesOf

\* A call that starts changes no list and keeps what is awaited.
LEMMA StartedStep ==
    ASSUME Lists, UNCHANGED <<server, user, page, sidebar>>, user # None,
           NEW op, NEW arg, NEW home \in Homes,
           op \in {"addMember", "removeMember", "leave"} =>
             /\ page # 0 /\ chats[page].type = "group"
             /\ IF op = "leave" THEN chats[page].creator # user
                ELSE chats[page].creator = user,
           op = "removeMember" => arg # user,
           calls' = Started(calls, op, arg, home)
    PROVE  /\ CallsInv' /\ RowsInv' /\ \A W : Kept(W, calls, calls')
           /\ Signs(calls') = Signs(calls) \cup {<<home, op>>}
           /\ HomesOf(calls') = HomesOf(calls) \cup {home}
<1>1. AllSound(calls, user, chats) /\ page \in 0..Len(chats)
  BY DEF Lists, CallsInv, PageInv
<1>2. AllSound(StartedBy(user, page, calls, op, arg, home), user, chats)
  BY <1>1, StartedSound
<1>3. calls' = StartedBy(user, page, calls, op, arg, home)
  BY DEF Started
<1>4. CallsInv' /\ RowsInv'
  BY <1>2, <1>3 DEF CallsInv, Lists, RowsInv, server
<1>5. HomesOf(calls') = HomesOf(calls) \cup {home}
  <2> DEFINE c == [n |-> NewId(calls), op |-> op, arg |-> arg, by |-> user, chat |-> page,
                   home |-> home, phase |-> "sent", answer |-> {}]
  <2>1. c.home = home /\ calls' = calls \cup {c}
    BY <1>3 DEF StartedBy
  <2> HIDE DEF c
  <2> QED BY <2>1 DEF HomesOf
<1> QED BY <1>3, <1>4, <1>5, StartedLists

LEMMA OpenBoxLists ==
    ASSUME Lists, OpenBox
    PROVE  Lists'
<1> USE DEF server, session, modals, bounds, history
<1>1. /\ user # None /\ NoModal
      /\ box' = NewBox /\ calls' = Started(calls, "contacts", None, "box")
      /\ stale' = stale \ {"contacts", "details"}
      /\ UNCHANGED <<server, user, page, sidebar, dialog, info>>
  BY DEF OpenBox
<1>2. /\ CallsInv' /\ RowsInv' /\ \A W : Kept(W, calls, calls')
      /\ <<"box", "contacts">> \in Signs(calls')
      /\ HomesOf(calls') = HomesOf(calls) \cup {"box"}
  BY <1>1, StartedStep DEF Homes
<1>3. ContactsFresh' /\ DetailsFresh'
  BY <1>1, <1>2 DEF ContactsFresh, DetailsFresh, Waits, ContactsWaits, NewBox
<1>4. SidebarFresh' /\ ParticipantsFresh' /\ LogsFresh'
  BY <1>1, <1>2, SidebarFrame, ParticipantsFrame, LogsFrame DEF Lists, ChatsOf, NoModal
<1>5. PageInv'
  BY <1>1, <1>2, PageFrame DEF Lists, PageInv, NoModal
<1> QED BY <1>2, <1>3, <1>4, <1>5 DEF Lists

LEMMA CloseBoxLists ==
    ASSUME ShellInv, Lists, CloseBox
    PROVE  Lists'
<1> USE DEF server, session, modals, bounds, history
<1>1. /\ box # None /\ box' = None /\ calls' = Orphaned(calls, "box")
      /\ UNCHANGED <<server, user, page, sidebar, dialog, info, stale>>
  BY DEF CloseBox
<1>2. CallsTyped(calls)
  BY DEF ShellInv, ShellType
<1>3. /\ CallsInv'
      /\ \A W \in {SidebarWaits, ParticipantsWaits, LogsWaits} : Kept(W, calls, calls')
  BY <1>1, <1>2, OrphanedLists DEF Lists, CallsInv, Attached,
     SidebarWaits, ParticipantsWaits, LogsWaits
<1>4. user # None
  BY <1>1 DEF Lists, PageInv, NoModal
<1>5. PageInv'
  <2>1. HomesOf(calls') \subseteq HomesOf(calls) \cup {"gone"}
    BY <1>1, <1>2, OrphanedFacts
  <2> QED BY <1>1, <1>4, <2>1, PageFrame DEF Lists, PageInv
<1> QED BY <1>1, <1>3, <1>5, ListsFrame DEF Lists

\* The tab that is shown loads its list.
LEMMA SwitchTabLists ==
    ASSUME ShellInv, Lists, SwitchTab
    PROVE  Lists'
<1> USE DEF server, session, modals, bounds, history
<1>1. box # None /\ UNCHANGED <<server, user, page, sidebar, dialog, info, stale>>
  BY DEF SwitchTab
<1>2. user # None
  BY <1>1 DEF Lists, PageInv, NoModal
<1>3. box \in Boxes
  BY <1>1 DEF ShellInv, ShellType
<1>4. PICK op \in {"contacts", "details"} :
        /\ calls' = Started(calls, op, None, "box")
        /\ box'.tab = IF op = "contacts" THEN "contacts" ELSE "blocked"
  BY <1>3 DEF SwitchTab, Boxes
<1>5. /\ CallsInv' /\ RowsInv' /\ \A W : Kept(W, calls, calls')
      /\ <<"box", op>> \in Signs(calls')
      /\ HomesOf(calls') = HomesOf(calls) \cup {"box"}
  BY <1>1, <1>2, <1>4, StartedStep DEF Homes
<1>6. ContactsFresh' /\ DetailsFresh'
  BY <1>4, <1>5 DEF ContactsFresh, DetailsFresh, Waits, ContactsWaits, DetailsWaits
<1>7. SidebarFresh' /\ ParticipantsFresh' /\ LogsFresh'
  BY <1>1, <1>5, SidebarFrame, ParticipantsFrame, LogsFrame
     DEF Lists, ChatsOf, MembersOf, ShowsLogs
<1>8. PageInv'
  BY <1>1, <1>2, <1>5, PageFrame DEF Lists, PageInv
<1> QED BY <1>5, <1>6, <1>7, <1>8 DEF Lists

LEMMA ClickLists ==
    ASSUME Lists, NEW op \in ContactOps, NEW v, Click(op, v)
    PROVE  Lists'
<1> USE DEF server, session, modals, bounds, history
<1>1. /\ box # None /\ calls' = Started(calls, op, v, "box")
      /\ UNCHANGED <<server, user, page, sidebar, box, dialog, info, stale>>
  BY DEF Click, Offered
<1>2. user # None
  BY <1>1 DEF Lists, PageInv, NoModal
<1>3. /\ CallsInv' /\ \A W : Kept(W, calls, calls')
      /\ HomesOf(calls') = HomesOf(calls) \cup {"box"}
  BY <1>1, <1>2, StartedStep DEF Homes, ContactOps
<1>4. PageInv'
  BY <1>1, <1>2, <1>3, PageFrame DEF Lists, PageInv
<1> QED BY <1>1, <1>3, <1>4, ListsFrame DEF Lists

\* A call that is over, or goes on, where its home was.
LEMMA PageKept ==
    ASSUME PageInv, UNCHANGED <<user, chats, page, sidebar>>,
           info' \in Infos \cup {None}, info' # None => page # 0,
           info # None => info' # None, HomesOf(calls') \subseteq HomesOf(calls),
           user # None \/ UNCHANGED modals
    PROVE  PageInv'
<1>1. user = None => \A c \in calls' : c.home \in {"left", "dead"}
  BY DEF PageInv, HomesOf
<1>2. user = None => NoModal'
  BY DEF PageInv, NoModal, modals
<1>3. "info" \in HomesOf(calls') => info' # None
  BY DEF PageInv
<1> QED BY <1>1, <1>2, <1>3, PageFrame

LEMMA AttachedCall ==
    ASSUME Lists, NEW c \in calls
    PROVE  /\ Sound(c, user, chats)
           /\ c.home \in Attached => user # None /\ user \in Local /\ c.by = user
  BY DEF Lists, CallsInv, AllSound, Sound, PageInv, Attached

LEMMA SettleChangeLists ==
    ASSUME ShellInv, Lists, NEW c \in calls, SettleChange(c)
    PROVE  Lists'
<1> USE DEF server, session, modals, bounds, history
<1>1. /\ c.op \in {"add", "delete", "block", "unblock"}
      /\ UNCHANGED <<server, user, page, sidebar, dialog, info, stale>>
      /\ calls' = GoesOn(calls, c, LoadAfter(c.op))
      /\ c.home # "box" => box' = box
  BY DEF SettleChange, ReloadAfter
<1>2. CallsTyped(calls) /\ c.op \notin DialogOps
  BY <1>1 DEF ShellInv, ShellType, DialogOps, Creations
<1>3. LoadAfter(c.op) = IF c.op = "unblock" THEN "details" ELSE "contacts"
  BY DEF LoadAfter
<1>4. Doing(c) = c.op
  BY <1>1 DEF Doing, Creations
<1>5. /\ CallsInv'
      /\ \A W : <<c.home, c.op>> \notin W \/ <<c.home, LoadAfter(c.op)>> \in W
                => Kept(W, calls, calls')
  BY <1>1, <1>2, <1>3, <1>4, GoesOnLists DEF Lists, CallsInv
<1>6. \A W \in {ContactsWaits, DetailsWaits, SidebarWaits, ParticipantsWaits, LogsWaits} :
        Kept(W, calls, calls')
  BY <1>1, <1>3, <1>5 DEF ContactsWaits, DetailsWaits, SidebarWaits, ParticipantsWaits, LogsWaits
<1>7. box' # None => box # None /\ \A f \in {"tab", "contacts", "details"} : box'[f] = box[f]
  <2>1. CASE c.home = "box"
    <3>1. box # None /\ box \in Boxes
      BY <2>1 DEF ShellInv, ShellType, HomesInv, HomesOf
    <3> QED BY <2>1, <3>1 DEF SettleChange, ReloadAfter, Boxes
  <2> QED BY <1>1, <2>1
<1>8. HomesOf(calls') \subseteq HomesOf(calls)
  BY <1>1, <1>2, <1>3, GoesOnFacts DEF BlockOps, Creations
<1>9. PageInv'
  BY <1>1, <1>8, AttachedCall, PageKept DEF Lists, PageInv, Attached
<1> QED BY <1>1, <1>5, <1>6, <1>7, <1>9, ListsFrame DEF Lists

LEMMA SettleContactsLists ==
    ASSUME ShellInv, Lists, NEW c \in calls, SettleContacts(c)
    PROVE  Lists'
<1> USE DEF server, session, modals, bounds, history
<1>1. /\ c.op \in {"contacts", "details", "search"} /\ calls' = calls \ {c}
      /\ UNCHANGED <<server, user, page, sidebar, dialog, info>>
      /\ c.home # "box" => UNCHANGED <<box, stale>>
  BY DEF SettleContacts
<1>2. Doing(c) = c.op
  BY <1>1 DEF Doing, Creations
<1>3. CallsInv' /\ \A W : <<c.home, c.op>> \notin W => Kept(W, calls, calls')
  BY <1>1, <1>2, RemovedLists DEF Lists, CallsInv
<1>4. \A W \in {SidebarWaits, ParticipantsWaits, LogsWaits} : Kept(W, calls, calls')
  BY <1>1, <1>3 DEF SidebarWaits, ParticipantsWaits, LogsWaits
<1>5. HomesOf(calls') \subseteq HomesOf(calls)
  BY <1>1 DEF HomesOf
<1>6. PageInv'
  BY <1>1, <1>5, AttachedCall, PageKept DEF Lists, PageInv, Attached
<1>7. CASE c.home # "box"
  <2>1. \A W \in {ContactsWaits, DetailsWaits} : Kept(W, calls, calls')
    BY <1>3, <1>7 DEF ContactsWaits, DetailsWaits
  <2> QED BY <1>1, <1>3, <1>4, <1>6, <1>7, <2>1, ListsFrame DEF Lists
<1>8. CASE c.home = "box"
  <2>1. box # None /\ box \in Boxes
    BY <1>8 DEF ShellInv, ShellType, HomesInv, HomesOf
  <2>2. /\ box'.tab = box.tab
        /\ c.op = "contacts" => /\ box'.contacts = c.answer /\ box'.details = box.details
                                /\ stale' = IF c.answer = ContactsOf(user) THEN stale \ {"contacts"}
                                            ELSE stale \cup {"contacts"}
        /\ c.op = "details" => /\ box'.details = c.answer /\ box'.contacts = box.contacts
                               /\ stale' = IF c.answer = BlockedBy(user) \cap accounts
                                           THEN stale \ {"details"} ELSE stale \cup {"details"}
        /\ c.op = "search" => /\ box'.details = box.details /\ box'.contacts = box.contacts
                              /\ stale' = stale
    BY <1>1, <1>8, <2>1 DEF SettleContacts, SetList, Boxes
  <2>3. ContactsFresh'
    <3>1. CASE c.op = "contacts"
      BY <1>1, <2>2, <3>1 DEF ContactsFresh, ContactsOf
    <3>2. CASE c.op # "contacts"
      <4>1. Kept(ContactsWaits, calls, calls')
        BY <1>1, <1>3, <3>2 DEF ContactsWaits
      <4>2. "contacts" \notin stale' => "contacts" \notin stale
        BY <1>1, <2>2, <3>2
      <4>3. box'.contacts = box.contacts
        BY <1>1, <2>2, <3>2
      <4> QED BY <1>1, <2>1, <2>2, <4>1, <4>2, <4>3, ContactsFrame DEF Lists
    <3> QED BY <3>1, <3>2
  <2>4. DetailsFresh'
    <3>1. CASE c.op = "details"
      BY <1>1, <2>2, <3>1 DEF DetailsFresh, BlockedBy
    <3>2. CASE c.op # "details"
      <4>1. Kept(DetailsWaits, calls, calls')
        BY <1>1, <1>3, <3>2 DEF DetailsWaits
      <4>2. "details" \notin stale' => "details" \notin stale
        BY <1>1, <2>2, <3>2
      <4>3. box'.details = box.details
        BY <1>1, <2>2, <3>2
      <4> QED BY <1>1, <2>1, <2>2, <4>1, <4>2, <4>3, DetailsFrame DEF Lists
    <3> QED BY <3>1, <3>2
  <2>5. \A name \in {"sidebar", "participants", "logs"} : name \in stale => name \in stale'
    BY <1>1, <2>2
  <2>6. SidebarFresh' /\ ParticipantsFresh' /\ LogsFresh'
    BY <1>1, <1>4, <2>5, SidebarFrame, ParticipantsFrame, LogsFrame
       DEF Lists, ChatsOf, MembersOf, ShowsLogs
  <2> QED BY <1>1, <1>3, <1>6, <2>3, <2>4, <2>6 DEF Lists, RowsInv
<1> QED BY <1>7, <1>8

LEMMA FailContactsLists ==
    ASSUME ShellInv, Lists, NEW c \in calls, FailContacts(c)
    PROVE  Lists'
<1> USE DEF server, session, modals, bounds, history
<1>1. /\ c.op \in ContactOps /\ calls' = calls \ {c}
      /\ UNCHANGED <<server, user, page, sidebar, dialog, info>>
      /\ IF c.home = "box" THEN stale' = stale \cup {"contacts", "details"}
         ELSE UNCHANGED <<box, stale>>
  BY DEF FailContacts
<1>2. Doing(c) = c.op
  BY <1>1 DEF Doing, Creations, ContactOps
<1>3. CallsInv' /\ \A W : <<c.home, c.op>> \notin W => Kept(W, calls, calls')
  BY <1>1, <1>2, RemovedLists DEF Lists, CallsInv
<1>4. \A W \in {SidebarWaits, ParticipantsWaits, LogsWaits} : Kept(W, calls, calls')
  BY <1>1, <1>3 DEF SidebarWaits, ParticipantsWaits, LogsWaits, ContactOps
<1>5. HomesOf(calls') \subseteq HomesOf(calls)
  BY <1>1 DEF HomesOf
<1>6. PageInv'
  BY <1>1, <1>5, AttachedCall, PageKept DEF Lists, PageInv, Attached
<1>7. ContactsFresh' /\ DetailsFresh'
  <2>1. CASE c.home = "box"
    BY <1>1, <2>1 DEF ContactsFresh, DetailsFresh
  <2>2. CASE c.home # "box"
    <3>1. \A W \in {ContactsWaits, DetailsWaits} : Kept(W, calls, calls')
      BY <1>3, <2>2 DEF ContactsWaits, DetailsWaits
    <3> QED BY <1>1, <2>2, <3>1, ContactsFrame, DetailsFrame DEF Lists
  <2> QED BY <2>1, <2>2
<1>8. SidebarFresh' /\ ParticipantsFresh' /\ LogsFresh'
  BY <1>1, <1>4, SidebarFrame, ParticipantsFrame, LogsFrame
     DEF Lists, ChatsOf, MembersOf, ShowsLogs
<1> QED BY <1>1, <1>3, <1>6, <1>7, <1>8 DEF Lists, RowsInv

\* A step of the server or of others that adds chats or changes participants.
LEMMA GrownPage ==
    ASSUME Lists, Grown(chats, chats'), UNCHANGED <<user, page, sidebar, modals>>,
           HomesOf(calls') \subseteq HomesOf(calls)
    PROVE  /\ PageInv' /\ RowsInv'
           /\ info # None => (ShowsLogs(page)' <=> ShowsLogs(page))
<1>1. /\ Len(chats) \in Nat /\ Len(chats') \in Nat /\ Len(chats) <= Len(chats')
      /\ DOMAIN chats = 1..Len(chats) /\ DOMAIN chats' = 1..Len(chats')
  BY DEF Grown, AllRows, Lists, RowsInv
<1>2. 0..Len(chats) \subseteq 0..Len(chats') /\ DOMAIN chats \subseteq DOMAIN chats'
  BY <1>1
<1>3. user = None => NoModal' /\ \A c \in calls' : c.home \in {"left", "dead"}
  BY DEF Lists, PageInv, HomesOf, NoModal, modals
<1>4. PageInv'
  BY <1>2, <1>3 DEF Lists, PageInv, modals
<1>5. info # None => page \in DOMAIN chats
  BY <1>1 DEF Lists, PageInv
<1> QED BY <1>4, <1>5 DEF Grown, RowsInv, ShowsLogs

LEMMA GrownRefl == AllRows(chats) => Grown(chats, chats)
  BY DEF Grown, AllRows

\* A new chat changes nobody's participants.
LEMMA AppendedMembers ==
    ASSUME Lists, NEW chat \in Chats, KeepsCreator(chat), UNCHANGED page,
           chats' = Append(chats, chat)
    PROVE  MembersOf(page)' = MembersOf(page)
<1>1. page \in 0..Len(chats) /\ DOMAIN chats = 1..Len(chats) /\ Len(chats) \in Nat
  BY DEF Lists, PageInv, RowsInv, AllRows
<1>2. page # 0 => page \in DOMAIN chats
  BY <1>1
<1>3. \A i \in DOMAIN chats : chats'[i] = chats[i]
  BY AppendGrows DEF Lists, RowsInv
<1> QED BY <1>2, <1>3 DEF MembersOf

\* The private chat that is there or new
LEMMA PrivateChatFacts ==
    ASSUME Lists, NEW u \in Users, NEW v \in Users, UNCHANGED page,
           chats' = WithPrivateChat(u, v)
    PROVE  /\ Grown(chats, chats')
           /\ MembersOf(page)' = MembersOf(page)
           /\ PrivateChatIn(u, v) \subseteq DOMAIN chats'
<1>1. AllRows(chats)
  BY DEF Lists, RowsInv
<1>2. CASE PrivateChatOf(u, v) # {}
  <2>1. chats' = chats
    BY <1>2 DEF WithPrivateChat
  <2>2. PrivateChatIn(u, v) \subseteq DOMAIN chats
    BY <1>2 DEF PrivateChatIn, PrivateChatOf
  <2> QED BY <1>1, <2>1, <2>2, GrownRefl DEF MembersOf
<1>3. CASE PrivateChatOf(u, v) = {}
  <2> DEFINE chat == [type |-> "private", creator |-> u, members |-> {u, v}]
  <2>1. chat \in Chats /\ KeepsCreator(chat)
    BY DEF Chats, KeepsCreator
  <2>2. chats' = Append(chats, chat)
    BY <1>3 DEF WithPrivateChat
  <2>3. PrivateChatIn(u, v) = {Len(chats) + 1}
    BY <1>3 DEF PrivateChatIn
  <2> HIDE DEF chat
  <2> QED BY <1>1, <2>1, <2>2, <2>3, AppendGrows, AppendedMembers
<1> QED BY <1>2, <1>3

LEMMA ServeContactsLists ==
    ASSUME ShellInv, Lists, NEW c \in calls, ServeContacts(c)
    PROVE  Lists'
<1> USE DEF server, session, modals, bounds, history
<1>1. /\ c.phase = "sent" /\ c.op \in ContactOps /\ MayServe(c)
      /\ calls' = Answered(calls, c, AnswerOf(c))
      /\ UNCHANGED <<accounts, user, page, sidebar, box, dialog, info>>
      /\ chats' = IF c.op = "chat" THEN WithPrivateChat(c.by, c.arg) ELSE chats
      /\ c.op \notin {"add", "delete"} => UNCHANGED contacts
      /\ c.op \notin {"block", "unblock"} => UNCHANGED blocked
  BY DEF ServeContacts
<1>2. stale' = stale \cup (IF chats' # chats THEN {"sidebar"} ELSE {})
                     \cup (IF c.home # "box" THEN {"contacts", "details"} ELSE {})
                     \cup (IF c.op = "block" THEN {"details"} ELSE {})
  BY DEF ServeContacts
<1>3. CallsTyped(calls) /\ accounts \subseteq Users
  BY DEF ShellInv, ShellType
<1>4. /\ Grown(chats, chats') /\ MembersOf(page)' = MembersOf(page)
      /\ c.op = "chat" => AnswerOf(c) \subseteq DOMAIN chats'
  <2>1. CASE c.op = "chat"
    <3>1. c.by \in Users /\ c.arg \in Users
      BY <1>1, <1>3, <2>1 DEF MayServe
    <3>2. AnswerOf(c) = PrivateChatIn(c.by, c.arg)
      BY <2>1 DEF AnswerOf
    <3> QED BY <1>1, <2>1, <3>1, <3>2, PrivateChatFacts
  <2>2. CASE c.op # "chat"
    BY <1>1, <2>2, GrownRefl DEF Lists, RowsInv, MembersOf
  <2> QED BY <2>1, <2>2
<1>5. c.op \notin Creations \cup {"chats", "names", "info", "infoAdded", "findMembers"}
  BY <1>1 DEF ContactOps, Creations
<1>6. /\ AllSound(calls, user, chats') => AllSound(calls', user, chats')
      /\ c.home # "dead" => <<c.home, c.op>> \in Signs(calls')
      /\ \A W : (\A s \in W : s[1] # "dead" /\ s[2] \notin Creations) => Kept(W, calls, calls')
  BY <1>1, <1>3, <1>4, <1>5, AnsweredLists
<1>7. CallsInv'
  <2>1. AllSound(calls, user, chats')
    BY <1>4, GrownSound DEF Lists, CallsInv, RowsInv
  <2> QED BY <1>1, <1>6, <2>1 DEF CallsInv
<1>8. \A W \in {ContactsWaits, DetailsWaits, SidebarWaits, ParticipantsWaits, LogsWaits} :
        Kept(W, calls, calls')
  BY <1>6 DEF ContactsWaits, DetailsWaits, SidebarWaits, ParticipantsWaits, LogsWaits,
              Attached, Creations
<1>9. HomesOf(calls') \subseteq HomesOf(calls)
  <2>1. c.op \in UserLists => AnswerOf(c) \subseteq Users
    BY <1>1, <1>3 DEF AnswerOf, UserLists, ContactOps, ContactsOf, BlockedBy
  <2> QED BY <1>1, <1>3, <2>1, AnsweredFacts
<1>10. PageInv' /\ RowsInv' /\ (info # None => (ShowsLogs(page)' <=> ShowsLogs(page)))
  BY <1>1, <1>4, <1>9, GrownPage
<1>11. ContactsFresh'
  <2>1. CASE c.home = "box" /\ c.op \in {"add", "delete"}
    BY <1>6, <2>1 DEF ContactsFresh, Waits, ContactsWaits
  <2>2. CASE c.op \notin {"add", "delete"}
    BY <1>1, <1>2, <1>8, <2>2, ContactsFrame DEF Lists
  <2>3. CASE c.home # "box"
    BY <1>2, <2>3 DEF ContactsFresh
  <2> QED BY <2>1, <2>2, <2>3
<1>12. DetailsFresh'
  <2>1. CASE c.home = "box" /\ c.op = "unblock"
    BY <1>6, <2>1 DEF DetailsFresh, Waits, DetailsWaits
  <2>2. CASE c.op \notin {"block", "unblock"}
    BY <1>1, <1>2, <1>8, <2>2, DetailsFrame DEF Lists
  <2>3. CASE c.home # "box" \/ c.op = "block"
    BY <1>2, <2>3 DEF DetailsFresh
  <2> QED BY <2>1, <2>2, <2>3
<1>13. SidebarFresh'
  BY <1>1, <1>2, <1>8, SidebarFrame DEF Lists, ChatsOf
<1>14. ParticipantsFresh' /\ LogsFresh'
  BY <1>1, <1>2, <1>4, <1>8, <1>10, ParticipantsFrame, LogsFrame DEF Lists
<1> QED BY <1>7, <1>10, <1>11, <1>12, <1>13, <1>14 DEF Lists

\* The modal about the chat loads what is shown of the chat that is opened.
LEMMA NavigateLists ==
    ASSUME Lists, UNCHANGED <<server, user, stale>>, NEW i \in DOMAIN chats, Navigate(i),
           Kept(ParticipantsWaits, calls, calls'), Kept(LogsWaits, calls, calls'),
           info # None /\ i # page => <<"info", "info">> \in Signs(calls'),
           info # None /\ i # page /\ info.tab = "logs" /\ ShowsLogs(i) =>
             <<"info", "logs">> \in Signs(calls')
    PROVE  /\ ParticipantsFresh' /\ LogsFresh'
           /\ page' \in 0..Len(chats) /\ info' \in Infos \cup {None}
           /\ info' # None => page' # 0
           /\ info = None <=> info' = None
<1> USE DEF server
<1>1. DOMAIN chats = 1..Len(chats) /\ Len(chats) \in Nat
  BY DEF Lists, RowsInv, AllRows
<1>2. /\ page' = IF user = None THEN 0 ELSE i
      /\ info = None => info' = None
      /\ info # None => /\ info' \in Infos /\ info'.tab = info.tab /\ info'.logs = info.logs
                        /\ info'.participants = info.participants /\ user # None
  BY NoneAssumption DEF Navigate, Lists, PageInv, Infos, NoModal
<1>3. /\ page' \in 0..Len(chats) /\ info' \in Infos \cup {None}
      /\ info' # None => page' # 0
      /\ info = None <=> info' = None
  BY <1>1, <1>2, NoneAssumption
<1>4. ParticipantsFresh' /\ LogsFresh'
  <2>1. CASE info = None
    BY <1>2, <2>1 DEF ParticipantsFresh, LogsFresh
  <2>2. CASE info # None /\ i = page
    BY <1>2, <2>2, ParticipantsFrame, LogsFrame DEF Lists, MembersOf, ShowsLogs
  <2>3. CASE info # None /\ i # page
    <3>1. ParticipantsFresh'
      BY <2>3 DEF ParticipantsFresh, Waits, ParticipantsWaits
    <3>2. LogsFresh'
      BY <1>2, <2>3 DEF LogsFresh, Waits, LogsWaits, ShowsLogs
    <3> QED BY <3>1, <3>2
  <2> QED BY <2>1, <2>2, <2>3
<1> QED BY <1>3, <1>4

\* openChat goes on in whatever modals and session there are by now.
LEMMA SettleOpenChatLists ==
    ASSUME ShellInv, Lists, NEW c \in calls, SettleOpenChat(c)
    PROVE  Lists'
<1> USE DEF server, session, modals, bounds, history
<1>1. /\ c.phase = "answered" /\ c.op = "chat"
      /\ UNCHANGED <<server, user, sidebar, dialog, stale>>
      /\ box' = IF c.home = "left" THEN box ELSE None
  BY DEF SettleOpenChat
<1> DEFINE rest == calls \ {c}
           kept == IF c.home = "left" THEN rest ELSE Orphaned(rest, "box")
<1>2. PICK i \in c.answer : Navigate(i) /\ calls' = InfoFollows(i, kept)
  BY DEF SettleOpenChat
<1>3. CallsTyped(calls) /\ Sound(c, user, chats)
  BY AttachedCall DEF ShellInv, ShellType
<1>4. i \in DOMAIN chats /\ DOMAIN chats = 1..Len(chats) /\ Len(chats) \in Nat
  BY <1>1, <1>3 DEF Sound, Lists, RowsInv, AllRows
<1>5. i \in 0..Len(chats) /\ i # 0
  BY <1>4
<1>6. Doing(c) = "chat"
  BY <1>1 DEF Doing, Creations
<1>7. /\ CallsTyped(rest) /\ AllSound(rest, user, chats)
      /\ \A W : <<c.home, "chat">> \notin W => Kept(W, calls, rest)
      /\ HomesOf(rest) \subseteq HomesOf(calls)
  BY <1>3, <1>6, RemovedFacts, RemovedLists DEF Lists, CallsInv
<1> HIDE DEF rest
<1>8. /\ AllSound(kept, user, chats)
      /\ \A W \in {SidebarWaits, ParticipantsWaits, LogsWaits} : Kept(W, rest, kept)
      /\ c.home = "left" => \A W : Kept(W, rest, kept)
      /\ HomesOf(kept) \subseteq HomesOf(rest) \cup {"gone"}
      /\ c.home = "left" => HomesOf(kept) \subseteq HomesOf(rest)
  <2>1. CASE c.home = "left"
    BY <1>7, <2>1 DEF Kept
  <2>2. CASE c.home # "left"
    <3>1. kept = Orphaned(rest, "box")
      BY <2>2
    <3>2. AllSound(kept, user, chats)
      BY <1>7, <3>1, OrphanedLists DEF Attached
    <3>3. \A W \in {SidebarWaits, ParticipantsWaits, LogsWaits} : Kept(W, rest, kept)
      BY <1>7, <3>1, OrphanedLists DEF Attached, SidebarWaits, ParticipantsWaits, LogsWaits
    <3> QED BY <1>7, <2>2, <3>1, <3>2, <3>3, OrphanedFacts
  <2> QED BY <2>1, <2>2
<1> HIDE DEF kept
<1>9. /\ AllSound(calls', user, chats)
      /\ \A W : Kept(W, kept, calls')
      /\ info # None /\ i # page => <<"info", "info">> \in Signs(calls')
      /\ info # None /\ i # page /\ info.tab = "logs" /\ ShowsLogs(i) =>
           <<"info", "logs">> \in Signs(calls')
  BY <1>2, <1>5, <1>8, InfoFollowsLists
<1>10. CallsInv' /\ RowsInv'
  BY <1>1, <1>9 DEF CallsInv, Lists, RowsInv
<1>11. /\ \A W \in {SidebarWaits, ParticipantsWaits, LogsWaits} : Kept(W, calls, calls')
       /\ c.home = "left" => \A W \in {ContactsWaits, DetailsWaits} : Kept(W, calls, calls')
  BY <1>7, <1>8, <1>9 DEF Kept, ContactsWaits, DetailsWaits, SidebarWaits, ParticipantsWaits,
                          LogsWaits
<1>12. ContactsFresh' /\ DetailsFresh'
  BY <1>1, <1>11, ContactsFrame, DetailsFrame DEF Lists
<1>13. SidebarFresh'
  BY <1>1, <1>11, SidebarFrame DEF Lists, ChatsOf
<1>14. /\ ParticipantsFresh' /\ LogsFresh'
       /\ page' \in 0..Len(chats) /\ info' \in Infos \cup {None}
       /\ info' # None => page' # 0
       /\ info = None <=> info' = None
  BY <1>1, <1>2, <1>4, <1>9, <1>11, NavigateLists
<1>15. PageInv'
  <2>1. ASSUME user = None PROVE NoModal' /\ \A d \in calls' : d.home \in {"left", "dead"}
    <3>1. NoModal /\ c.home = "left" /\ HomesOf(calls) \subseteq {"left", "dead"}
      BY <1>1, <1>3, <2>1 DEF Lists, PageInv, HomesOf, Sound
    <3>2. calls' = kept
      BY <1>2, <3>1 DEF InfoFollows, NoModal
    <3> QED BY <1>1, <1>7, <1>8, <1>14, <3>1, <3>2 DEF NoModal, HomesOf
  <2>2. info = None => "info" \notin HomesOf(calls')
    BY <1>2, <1>7, <1>8 DEF Lists, PageInv, InfoFollows
  <2> QED BY <1>1, <1>14, <2>1, <2>2 DEF Lists, PageInv
<1> QED BY <1>10, <1>12, <1>13, <1>14, <1>15 DEF Lists

LEMMA DialogLists ==
    ASSUME ShellInv, Lists,
           \/ OpenDialog \/ CloseDialog \/ StepBack
           \/ \E type \in {"private", "group"} : ChooseType(type)
           \/ \E v \in Users : SelectUser(v) \/ AddToGroup(v) \/ RemoveFromGroup(v)
           \/ \E op \in DialogOps, arg \in Users \cup {None} \cup SUBSET Users :
                DialogCall(op, arg)
    PROVE  Lists'
<1> USE DEF server, session, modals, bounds, history
<1>1. /\ user # None \/ dialog # None
      /\ UNCHANGED <<server, user, page, sidebar, box, info, stale>>
  BY DEF OpenDialog, CloseDialog, StepBack, ChooseType, SelectUser, AddToGroup, RemoveFromGroup,
         SetDialog, DialogCall
<1>2. user # None /\ CallsTyped(calls)
  BY <1>1 DEF Lists, PageInv, NoModal, ShellInv, ShellType
<1>3. /\ CallsInv'
      /\ \A W \in {ContactsWaits, DetailsWaits, SidebarWaits, ParticipantsWaits, LogsWaits} :
           Kept(W, calls, calls')
      /\ HomesOf(calls') \subseteq HomesOf(calls) \cup {"dialog", "gone"}
  <2>1. CASE calls' = calls
    BY <1>1, <2>1 DEF Lists, CallsInv, Kept
  <2>2. CASE calls' = Orphaned(calls, "dialog")
    <3>1. AllSound(calls', user, chats)
      BY <1>2, <2>2, OrphanedLists DEF Lists, CallsInv, Attached
    <3>2. \A W \in {ContactsWaits, DetailsWaits, SidebarWaits, ParticipantsWaits, LogsWaits} :
            Kept(W, calls, calls')
      BY <1>2, <2>2, OrphanedLists
         DEF Attached, ContactsWaits, DetailsWaits, SidebarWaits, ParticipantsWaits, LogsWaits
    <3> QED BY <1>1, <1>2, <2>2, <3>1, <3>2, OrphanedFacts DEF CallsInv
  <2>3. ASSUME NEW op \in DialogOps, NEW arg, calls' = Started(calls, op, arg, "dialog")
        PROVE  /\ CallsInv' /\ \A W : Kept(W, calls, calls')
               /\ HomesOf(calls') = HomesOf(calls) \cup {"dialog"}
    BY <1>1, <1>2, <2>3, StartedStep DEF Homes, DialogOps, Creations
  <2>4. \/ calls' = calls \/ calls' = Orphaned(calls, "dialog")
        \/ \E op \in DialogOps : \E arg : calls' = Started(calls, op, arg, "dialog")
    BY DEF OpenDialog, CloseDialog, StepBack, ChooseType, SelectUser, AddToGroup,
           RemoveFromGroup, SetDialog, DialogCall
  <2> QED BY <2>1, <2>2, <2>3, <2>4
<1>4. PageInv'
  BY <1>1, <1>2, <1>3, PageFrame DEF Lists, PageInv
<1> QED BY <1>1, <1>3, <1>4, ListsFrame DEF Lists

LEMMA OpenInfoLists ==
    ASSUME Lists, OpenInfo
    PROVE  Lists'
<1> USE DEF server, session, modals, bounds, history
<1>1. /\ user # None /\ page # 0 /\ NoModal
      /\ info' = NewInfo /\ calls' = Started(calls, "info", None, "info")
      /\ stale' = stale \ {"participants", "logs"}
      /\ UNCHANGED <<server, user, page, sidebar, box, dialog>>
  BY DEF OpenInfo
<1>2. /\ CallsInv' /\ RowsInv' /\ \A W : Kept(W, calls, calls')
      /\ <<"info", "info">> \in Signs(calls')
  BY <1>1, StartedStep DEF Homes
<1>3. ParticipantsFresh' /\ LogsFresh'
  BY <1>1, <1>2 DEF ParticipantsFresh, LogsFresh, Waits, ParticipantsWaits, NewInfo
<1>4. ContactsFresh' /\ DetailsFresh' /\ SidebarFresh'
  BY <1>1, <1>2, ContactsFrame, DetailsFrame, SidebarFrame DEF Lists, ChatsOf, NoModal
<1>5. PageInv'
  <2>1. NewInfo \in Infos
    BY DEF NewInfo, Infos
  <2>2. NewInfo # None
    BY <2>1, NoneAssumption
  <2> QED BY <1>1, <2>1, <2>2, PageFrame DEF Lists
<1> QED BY <1>2, <1>3, <1>4, <1>5 DEF Lists

LEMMA CloseInfoLists ==
    ASSUME ShellInv, Lists, CloseInfo
    PROVE  Lists'
<1> USE DEF server, session, modals, bounds, history
<1>1. /\ info # None /\ info' = None /\ calls' = Orphaned(calls, "info")
      /\ UNCHANGED <<server, user, page, sidebar, box, dialog, stale>>
  BY DEF CloseInfo
<1>2. CallsTyped(calls) /\ user # None
  BY <1>1 DEF ShellInv, ShellType, Lists, PageInv, NoModal
<1>3. CallsInv'
  BY <1>1, <1>2, OrphanedLists DEF Lists, CallsInv, Attached
<1>4. \A W \in {ContactsWaits, DetailsWaits, SidebarWaits} : Kept(W, calls, calls')
  BY <1>1, <1>2, OrphanedLists DEF Attached, ContactsWaits, DetailsWaits, SidebarWaits
<1>5. PageInv'
  <2>1. "info" \notin HomesOf(calls')
    BY <1>1, <1>2, OrphanedFacts
  <2> QED BY <1>1, <1>2, <2>1, PageFrame DEF Lists
<1> QED BY <1>1, <1>3, <1>4, <1>5, ListsFrame DEF Lists

LEMMA ChooseTabLists ==
    ASSUME Lists, NEW tab \in {"participants", "add", "logs"}, ChooseTab(tab)
    PROVE  Lists'
<1> USE DEF server, session, modals, bounds, history
<1>1. /\ info # None /\ info' = [info EXCEPT !.tab = tab]
      /\ UNCHANGED <<server, user, page, sidebar, box, dialog, stale>>
      /\ tab # "logs" => calls' = calls
      /\ tab = "logs" => calls' = Started(calls, "logs", None, "info")
  BY DEF ChooseTab
<1>2. user # None /\ page # 0 /\ info \in Infos
  BY <1>1 DEF Lists, PageInv, NoModal
<1>3. /\ info' \in Infos /\ info'.tab = tab /\ info'.participants = info.participants
      /\ info' # None
  BY <1>1, <1>2, NoneAssumption DEF Infos
<1>4. PageInv'
  BY <1>1, <1>2, <1>3, PageFrame DEF Lists
<1>5. CASE tab # "logs"
  <2>1. CallsInv' /\ \A W : Kept(W, calls, calls')
    BY <1>1, <1>5 DEF Lists, CallsInv, Kept
  <2> QED BY <1>1, <1>3, <1>4, <1>5, <2>1, ListsFrame DEF Lists
<1>6. CASE tab = "logs"
  <2>1. /\ CallsInv' /\ RowsInv' /\ \A W : Kept(W, calls, calls')
        /\ <<"info", "logs">> \in Signs(calls')
    BY <1>1, <1>2, <1>6, StartedStep DEF Homes
  <2>2. LogsFresh'
    BY <2>1 DEF LogsFresh, Waits, LogsWaits
  <2>3. ContactsFresh' /\ DetailsFresh' /\ SidebarFresh' /\ ParticipantsFresh'
    BY <1>1, <1>3, <2>1, ContactsFrame, DetailsFrame, SidebarFrame, ParticipantsFrame
       DEF Lists, ChatsOf, MembersOf
  <2> QED BY <1>4, <2>1, <2>2, <2>3 DEF Lists
<1> QED BY <1>5, <1>6

LEMMA CancelSearchLists ==
    ASSUME Lists, CancelSearch
    PROVE  Lists'
<1> USE DEF server, session, modals, bounds, history
<1>1. /\ info # None /\ info' = ShowParticipants(info)
      /\ UNCHANGED <<server, user, page, sidebar, box, dialog, stale, calls>>
  BY DEF CancelSearch
<1>2. user # None /\ page # 0 /\ info \in Infos
  BY <1>1 DEF Lists, PageInv, NoModal
<1>3. /\ info' \in Infos /\ info'.tab = "participants"
      /\ info'.participants = info.participants /\ info' # None
  BY <1>1, <1>2, NoneAssumption DEF ShowParticipants, Infos
<1>4. CallsInv' /\ \A W : Kept(W, calls, calls')
  BY <1>1 DEF Lists, CallsInv, Kept
<1>5. PageInv'
  BY <1>1, <1>2, <1>3, PageFrame DEF Lists
<1> QED BY <1>1, <1>3, <1>4, <1>5, ListsFrame DEF Lists

LEMMA InfoCallLists ==
    ASSUME Lists, NEW op \in InfoOps \ InfoLoads, NEW v, InfoCall(op, v)
    PROVE  Lists'
<1> USE DEF server, session, modals, bounds, history
<1>1. /\ info # None /\ calls' = Started(calls, op, v, "info")
      /\ UNCHANGED <<server, user, page, sidebar, box, dialog, info, stale>>
  BY DEF InfoCall
<1>2. user # None /\ page # 0
  BY <1>1 DEF Lists, PageInv, NoModal
<1>3. /\ op \in {"addMember", "removeMember", "leave"} =>
           /\ chats[page].type = "group"
           /\ IF op = "leave" THEN chats[page].creator # user ELSE chats[page].creator = user
      /\ op = "removeMember" => v # user
  BY DEF InfoCall, IsGroup, IsCreator
<1>4. CallsInv' /\ \A W : Kept(W, calls, calls')
  BY <1>1, <1>2, <1>3, StartedStep DEF Homes
<1>5. PageInv'
  BY <1>1, <1>2, PageFrame DEF Lists, PageInv
<1> QED BY <1>1, <1>4, <1>5, ListsFrame DEF Lists

LEMMA ChangedMembers ==
    ASSUME AllRows(chats), NEW i, NEW m, m \subseteq Users,
           i \in DOMAIN chats /\ m # {} /\ chats[i].type = "group" /\ chats[i].creator \in Local =>
             chats[i].creator \in m
    PROVE  LET new == [chats EXCEPT ![i].members = m]
           IN /\ Grown(chats, new) /\ DOMAIN new = DOMAIN chats
              /\ \A j \in DOMAIN chats : new[j].members = IF j = i THEN m ELSE chats[j].members
<1> DEFINE new == [chats EXCEPT ![i].members = m]
<1>1. chats \in Seq(Chats) /\ Len(chats) \in Nat /\ DOMAIN chats = 1..Len(chats)
  BY DEF AllRows
<1>2. ASSUME NEW j \in DOMAIN chats
      PROVE  /\ new[j] \in Chats /\ new[j].type = chats[j].type
             /\ new[j].creator = chats[j].creator
             /\ new[j].members = IF j = i THEN m ELSE chats[j].members
  <2>1. chats[j] \in Chats
    BY <1>1
  <2>2. new[j] = IF j = i THEN [chats[j] EXCEPT !.members = m] ELSE chats[j]
    BY <1>1
  <2> QED BY <2>1, <2>2 DEF Chats
<1>3. /\ new \in Seq(Chats) /\ DOMAIN new = DOMAIN chats /\ Len(new) = Len(chats)
  <2>1. new = [j \in 1..Len(chats) |-> new[j]] /\ DOMAIN new = 1..Len(chats)
    BY <1>1
  <2> HIDE DEF new
  <2>2. new \in [1..Len(chats) -> Chats]
    BY <1>1, <1>2, <2>1
  <2> QED BY <1>1, <2>1, <2>2
<1> HIDE DEF new
<1>4. \A j \in DOMAIN new : KeepsCreator(new[j])
  BY <1>2, <1>3 DEF AllRows, KeepsCreator
<1> QED BY <1>1, <1>2, <1>3, <1>4 DEF Grown, AllRows, new

\* What a handler of internal/chat does to the rows.  By the calls of his page
\* only a creation, a deletion or leaving changes which chats the user is in.
LEMMA ChatsAfterFacts ==
    ASSUME ShellInv, Lists, NEW c \in calls, ServeChats(c)
    PROVE  /\ Grown(chats, chats')
           /\ c.op \in Creations => MembersOf(page)' = MembersOf(page)
           /\ c.op \notin Creations \cup {"addMember", "removeMember", "leave", "deleteChat"} =>
                chats' = chats
           /\ c.op \in {"addMember", "removeMember"} /\ c.home \in Attached =>
                ChatsOf(user)' = ChatsOf(user)
           /\ c.op \in Creations => /\ ChatAnswer(c) \subseteq DOMAIN chats'
                                    /\ chats' # chats => ChatAnswer(c) # {}
<1> USE DEF server, session, modals, bounds, history
<1>1. /\ c.phase = "sent" /\ c.op \in ShellOps /\ MayServeChat(c)
      /\ chats' = ChatsAfter(c) /\ UNCHANGED <<accounts, page, user>>
  BY DEF ServeChats
<1>2. AllRows(chats) /\ accounts \subseteq Users /\ c.by \in Users
  BY <1>1 DEF Lists, RowsInv, ShellInv, ShellType, MayServeChat
<1>3. /\ Sound(c, user, chats)
      /\ c.home \in Attached => user # None /\ user \in Local /\ c.by = user
  BY AttachedCall
<1>4. /\ chats \in Seq(Chats) /\ DOMAIN chats = 1..Len(chats) /\ Len(chats) \in Nat
      /\ \A i \in DOMAIN chats : chats[i].members \subseteq Users /\ KeepsCreator(chats[i])
  <2>1. chats \in Seq(Chats) /\ \A i \in DOMAIN chats : KeepsCreator(chats[i])
    BY <1>2 DEF AllRows
  <2>2. \A i \in DOMAIN chats : chats[i] \in Chats
    BY <2>1
  <2> QED BY <2>1, <2>2 DEF Chats
<1>5. c.chat # 0 => c.chat \in DOMAIN chats
  BY <1>3, <1>4 DEF Sound
<1>6. CASE c.op = "createPrivate"
  <2>1. c.arg \in Users /\ chats' = WithPrivateChat(c.by, c.arg)
    BY <1>1, <1>2, <1>6 DEF MayServeChat, ChatsAfter
  <2>2. ChatAnswer(c) = IF PrivateChatOf(c.by, c.arg) = {} THEN {Len(chats) + 1} ELSE {}
    BY <1>6 DEF ChatAnswer
  <2>3. /\ ChatAnswer(c) \subseteq PrivateChatIn(c.by, c.arg)
        /\ chats' # chats => ChatAnswer(c) # {}
    BY <2>1, <2>2 DEF PrivateChatIn, WithPrivateChat
  <2> QED BY <1>1, <1>2, <1>6, <2>1, <2>3, PrivateChatFacts DEF Creations
<1>7. CASE c.op = "createGroup"
  <2> DEFINE chat == [type |-> "group", creator |-> c.by, members |-> c.arg \cup {c.by}]
  <2>1. c.arg \subseteq Users /\ chats' = Append(chats, chat)
    BY <1>1, <1>2, <1>7 DEF MayServeChat, ChatsAfter
  <2>2. ChatAnswer(c) = {Len(chats) + 1}
    BY <1>7 DEF ChatAnswer
  <2>3. chat \in Chats /\ KeepsCreator(chat)
    BY <1>2, <2>1 DEF Chats, KeepsCreator
  <2> HIDE DEF chat
  <2>4. Grown(chats, chats') /\ DOMAIN chats' = DOMAIN chats \cup {Len(chats) + 1}
    BY <1>2, <2>1, <2>3, AppendGrows
  <2>5. MembersOf(page)' = MembersOf(page)
    BY <1>1, <2>1, <2>3, AppendedMembers
  <2> QED BY <1>7, <2>2, <2>4, <2>5 DEF Creations
<1>8. CASE c.op = "addMember"
  <2> DEFINE m == chats[c.chat].members \cup {c.arg}
  <2>1. /\ c.arg \in Users /\ MembersOf(c.chat) # {}
        /\ chats' = [chats EXCEPT ![c.chat].members = m]
    BY <1>1, <1>2, <1>8 DEF MayServeChat, ChatsAfter
  <2>2. /\ c.chat \in DOMAIN chats /\ chats[c.chat].type = "group"
        /\ chats[c.chat].creator = c.by /\ chats[c.chat].members # {}
    BY <1>3, <1>5, <1>8, <2>1 DEF Sound, MembersOf
  <2>3. m \subseteq Users /\ (chats[c.chat].creator \in Local => chats[c.chat].creator \in m)
    BY <1>4, <2>1, <2>2 DEF KeepsCreator
  <2>4. c.home \in Attached => user \in chats[c.chat].members
    BY <1>3, <1>4, <2>2 DEF KeepsCreator
  <2>5. c.home \in Attached => (user \in m <=> user \in chats[c.chat].members)
    BY <2>4
  <2> HIDE DEF m
  <2>6. /\ Grown(chats, chats') /\ DOMAIN chats' = DOMAIN chats
        /\ \A j \in DOMAIN chats :
             chats'[j].members = IF j = c.chat THEN m ELSE chats[j].members
    BY <1>2, <2>1, <2>3, ChangedMembers
  <2>7. c.home \in Attached => ChatsOf(user)' = ChatsOf(user)
    BY <1>1, <2>5, <2>6 DEF ChatsOf
  <2> QED BY <1>8, <2>6, <2>7 DEF Creations
<1>9. CASE c.op = "removeMember"
  <2> DEFINE m == chats[c.chat].members \ {c.arg}
  <2>1. chats' = [chats EXCEPT ![c.chat].members = m]
    BY <1>9 , <1>1 DEF ChatsAfter
  <2>2. /\ c.chat \in DOMAIN chats /\ chats[c.chat].type = "group"
        /\ chats[c.chat].creator = c.by /\ c.arg # c.by
    BY <1>3, <1>5, <1>9 DEF Sound
  <2>3. /\ m \subseteq Users
        /\ m # {} /\ chats[c.chat].creator \in Local => chats[c.chat].creator \in m
    BY <1>4, <2>2 DEF KeepsCreator
  <2>4. c.home \in Attached => (user \in m <=> user \in chats[c.chat].members)
    BY <1>3, <2>2
  <2> HIDE DEF m
  <2>5. /\ Grown(chats, chats') /\ DOMAIN chats' = DOMAIN chats
        /\ \A j \in DOMAIN chats :
             chats'[j].members = IF j = c.chat THEN m ELSE chats[j].members
    BY <1>2, <2>1, <2>3, ChangedMembers
  <2>6. c.home \in Attached => ChatsOf(user)' = ChatsOf(user)
    BY <1>1, <2>4, <2>5 DEF ChatsOf
  <2> QED BY <1>9, <2>5, <2>6 DEF Creations
<1>10. CASE c.op = "leave"
  <2> DEFINE m == chats[c.chat].members \ {c.by}
  <2>1. chats' = [chats EXCEPT ![c.chat].members = m]
    BY <1>1, <1>10 DEF ChatsAfter
  <2>2. c.chat \in DOMAIN chats /\ chats[c.chat].creator # c.by
    BY <1>3, <1>5, <1>10 DEF Sound
  <2>3. /\ m \subseteq Users
        /\ m # {} /\ chats[c.chat].type = "group" /\ chats[c.chat].creator \in Local =>
             chats[c.chat].creator \in m
    BY <1>4, <2>2 DEF KeepsCreator
  <2> HIDE DEF m
  <2> QED BY <1>2, <1>10, <2>1, <2>3, ChangedMembers DEF Creations
<1>11. CASE c.op = "deleteChat"
  <2>1. chats' = [chats EXCEPT ![c.chat].members = {}]
    BY <1>1, <1>11 DEF ChatsAfter
  <2> QED BY <1>2, <1>11, <2>1, ChangedMembers DEF Creations
<1>12. CASE c.op \notin Creations \cup {"addMember", "removeMember", "leave", "deleteChat"}
  <2>1. chats' = chats
    BY <1>1, <1>12 DEF ChatsAfter, Creations
  <2> QED BY <1>2, <1>12, <2>1, GrownRefl
<1> QED BY <1>6, <1>7, <1>8, <1>9, <1>10, <1>11, <1>12 DEF Creations

LEMMA ServeChatsLists ==
    ASSUME ShellInv, Lists, NEW c \in calls, ServeChats(c)
    PROVE  Lists'
<1> USE DEF server, session, modals, bounds, history
<1>1. /\ c.phase = "sent" /\ c.op \in ShellOps
      /\ calls' = Answered(calls, c, ChatAnswer(c))
      /\ UNCHANGED <<accounts, contacts, blocked, user, page, sidebar, box, dialog, info>>
      /\ stale' = IF chats' = chats \/ c.home = "info" THEN stale
                  ELSE stale \cup {"participants"}
                             \cup (IF c.home \in {"dead", "left"} THEN {"sidebar"} ELSE {})
  BY DEF ServeChats
<1>2. CallsTyped(calls) /\ accounts \subseteq Users /\ AllRows(chats)
  BY DEF ShellInv, ShellType, Lists, RowsInv
<1>3. Sound(c, user, chats) /\ c.home \in Attached \cup {"left", "dead"}
  BY AttachedCall DEF Sound, Homes, Attached
<1>4. /\ Grown(chats, chats')
      /\ c.op \in Creations => /\ MembersOf(page)' = MembersOf(page)
                               /\ ChatAnswer(c) \subseteq DOMAIN chats'
                               /\ chats' # chats => ChatAnswer(c) # {}
      /\ c.op \notin Creations \cup {"addMember", "removeMember", "leave", "deleteChat"} =>
           chats' = chats
      /\ c.op \in {"addMember", "removeMember"} /\ c.home \in Attached =>
           ChatsOf(user)' = ChatsOf(user)
  BY ChatsAfterFacts
<1>5. /\ c.op \in {"chats", "names", "chat"} \cup Creations => ChatAnswer(c) \subseteq DOMAIN chats'
      /\ c.op \in {"info", "infoAdded", "findMembers"} => ChatAnswer(c) \subseteq Users
      /\ c.op \in Creations => c.answer = {}
  <2>1. c.op = "chats" => ChatAnswer(c) \subseteq DOMAIN chats' /\ c.op \notin Creations
    BY <1>4 DEF ChatAnswer, ChatsOf, Creations
  <2>2. c.op = "names" => ChatAnswer(c) \subseteq DOMAIN chats' /\ c.op \notin Creations
    BY <1>3, <1>4 DEF ChatAnswer, Sound, Creations
  <2>3. c.op \in {"info", "infoAdded"} => ChatAnswer(c) \subseteq Users
    <3>1. c.chat \in 0..Len(chats) /\ DOMAIN chats = 1..Len(chats) /\ Len(chats) \in Nat
      BY <1>2, <1>3 DEF Sound, AllRows
    <3>2. c.chat # 0 => c.chat \in DOMAIN chats
      BY <3>1
    <3>3. \A i \in DOMAIN chats : chats[i] \in Chats
      BY <1>2 DEF AllRows
    <3>4. MembersOf(c.chat) \subseteq Users
      BY <3>2, <3>3 DEF MembersOf, Chats
    <3> QED BY <3>4 DEF ChatAnswer
  <2>4. c.op = "findMembers" => ChatAnswer(c) \subseteq Users
    BY <1>2 DEF ChatAnswer
  <2>5. c.op # "chat"
    BY <1>1 DEF ShellOps, DialogOps, InfoOps, InfoLoads, Creations
  <2>6. c.op \in Creations => ChatAnswer(c) \subseteq DOMAIN chats' /\ c.answer = {}
    BY <1>1, <1>3, <1>4 DEF Sound
  <2> QED BY <2>1, <2>2, <2>3, <2>4, <2>5, <2>6
<1> DEFINE doing == IF c.op \in Creations /\ ChatAnswer(c) # {} THEN "made" ELSE c.op
<1>6. /\ AllSound(calls, user, chats') => AllSound(calls', user, chats')
      /\ c.home # "dead" => <<c.home, doing>> \in Signs(calls')
      /\ \A W : (\A s \in W : s[1] # "dead" /\ s[2] \notin Creations) => Kept(W, calls, calls')
  BY <1>1, <1>2, <1>5, AnsweredLists
<1> HIDE DEF doing
<1>7. CallsInv'
  <2>1. AllSound(calls, user, chats')
    BY <1>2, <1>4, GrownSound DEF Lists, CallsInv
  <2> QED BY <1>1, <1>6, <2>1 DEF CallsInv
<1>8. \A W \in {ContactsWaits, DetailsWaits, SidebarWaits, ParticipantsWaits, LogsWaits} :
        Kept(W, calls, calls')
  BY <1>6 DEF ContactsWaits, DetailsWaits, SidebarWaits, ParticipantsWaits, LogsWaits,
              Attached, Creations
<1>9. HomesOf(calls') \subseteq HomesOf(calls)
  <2>1. c.op \in UserLists => ChatAnswer(c) \subseteq Users
    BY <1>1, <1>2 DEF ChatAnswer, UserLists, ShellOps, DialogOps, InfoOps, InfoLoads, Creations
  <2> QED BY <1>1, <1>2, <2>1, AnsweredFacts
<1>10. PageInv' /\ RowsInv' /\ (info # None => (ShowsLogs(page)' <=> ShowsLogs(page)))
  BY <1>1, <1>4, <1>9, GrownPage
<1>11. ContactsFresh' /\ DetailsFresh'
  BY <1>1, <1>8, ContactsFrame, DetailsFrame DEF Lists
<1>12. LogsFresh'
  BY <1>1, <1>8, <1>10, LogsFrame DEF Lists
<1>13. SidebarFresh'
  <2>1. CASE chats' = chats \/ (c.op \in {"addMember", "removeMember"} /\ c.home \in Attached)
    <3>1. ChatsOf(user)' = ChatsOf(user)
      BY <1>1, <1>4, <2>1 DEF ChatsOf
    <3> QED BY <1>1, <1>8, <3>1, SidebarFrame DEF Lists
  <2>2. CASE chats' # chats /\ c.home \in {"left", "dead"}
    BY <1>1, <2>2 DEF SidebarFresh
  <2>3. CASE /\ chats' # chats /\ c.home \in Attached
             /\ c.op \notin {"addMember", "removeMember"}
    <3>1. c.home # "dead" /\ doing \in {"leave", "deleteChat", "made"}
      BY <1>4, <2>3 DEF doing, Attached
    <3> QED BY <1>6, <2>3, <3>1 DEF SidebarFresh, Waits, SidebarWaits
  <2> QED BY <1>3, <2>1, <2>2, <2>3
<1>14. ParticipantsFresh'
  <2>1. CASE chats' = chats \/ c.op \in Creations
    <3>1. MembersOf(page)' = MembersOf(page)
      BY <1>1, <1>4, <2>1 DEF MembersOf
    <3> QED BY <1>1, <1>8, <3>1, ParticipantsFrame DEF Lists
  <2>2. CASE chats' # chats /\ c.home # "info"
    BY <1>1, <2>2 DEF ParticipantsFresh
  <2>3. CASE chats' # chats /\ c.home = "info" /\ c.op \notin Creations
    <3>1. doing \in {"addMember", "removeMember", "leave", "deleteChat"}
      BY <1>4, <2>3 DEF doing
    <3> QED BY <1>6, <2>3, <3>1 DEF ParticipantsFresh, Waits, ParticipantsWaits
  <2> QED BY <2>1, <2>2, <2>3
<1> QED BY <1>7, <1>10, <1>11, <1>12, <1>13, <1>14 DEF Lists

LEMMA AskNamesLists ==
    ASSUME ShellInv, Lists, NEW c \in calls, AskNames(c)
    PROVE  Lists'
<1> USE DEF server, session, modals, bounds, history
<1> DEFINE d == [c EXCEPT !.op = "names", !.phase = "sent"]
<1>1. /\ c.op = "chats" /\ calls' = (calls \ {c}) \cup {d}
      /\ UNCHANGED <<server, user, page, sidebar, box, dialog, info, stale>>
  BY DEF AskNames
<1>2. IsCall(c) /\ Sound(c, user, chats)
  BY AttachedCall DEF ShellInv, ShellType, CallsTyped
<1>3. /\ d.op = "names" /\ d.home = c.home /\ d.by = c.by /\ d.chat = c.chat
      /\ d.phase = "sent" /\ d.answer = c.answer
  BY <1>2 DEF IsCall
<1> HIDE DEF d
<1>4. Doing(c) = "chats" /\ Doing(d) = "names"
  BY <1>1, <1>3 DEF Doing, Creations
<1>5. Sound(d, user, chats)
  BY <1>1, <1>2, <1>3 DEF Sound, Creations
<1>6. CallsInv'
  BY <1>1, <1>5 DEF Lists, CallsInv, AllSound
<1>7. Signs(calls) \subseteq Signs(calls') \cup {<<c.home, "chats">>}
      /\ <<c.home, "names">> \in Signs(calls')
  BY <1>1, <1>3, <1>4 DEF Signs
<1>8. \A W \in {ContactsWaits, DetailsWaits, SidebarWaits, ParticipantsWaits, LogsWaits} :
        Kept(W, calls, calls')
  <2>1. ASSUME NEW W, <<c.home, "chats">> \notin W \/ <<c.home, "names">> \in W
        PROVE  Kept(W, calls, calls')
    BY <1>7, <2>1 DEF Kept, Waits
  <2> QED BY <2>1 DEF ContactsWaits, DetailsWaits, SidebarWaits, ParticipantsWaits, LogsWaits
<1>9. HomesOf(calls') \subseteq HomesOf(calls)
  BY <1>1, <1>3 DEF HomesOf
<1>10. PageInv'
  BY <1>1, <1>9, PageKept DEF Lists, PageInv
<1> QED BY <1>1, <1>6, <1>8, <1>10, ListsFrame DEF Lists

LEMMA SettleChatsLists ==
    ASSUME ShellInv, Lists, NEW c \in calls, SettleChats(c)
    PROVE  Lists'
<1> USE DEF server, session, modals, bounds, history
<1>1. /\ c.op = "names" /\ calls' = calls \ {c}
      /\ UNCHANGED <<server, user, page, box, dialog, info>>
      /\ c.home # "page" => UNCHANGED <<sidebar, stale>>
      /\ c.home = "page" => /\ sidebar' = c.answer
                            /\ stale' = IF c.answer = ChatsOf(user) THEN stale \ {"sidebar"}
                                        ELSE stale \cup {"sidebar"}
  BY DEF SettleChats, SetList
<1>2. Sound(c, user, chats) /\ Doing(c) = "names"
  BY <1>1, AttachedCall DEF Doing, Creations
<1>3. CallsInv' /\ \A W : <<c.home, "names">> \notin W => Kept(W, calls, calls')
  BY <1>1, <1>2, RemovedLists DEF Lists, CallsInv
<1>4. \A W \in {ContactsWaits, DetailsWaits, ParticipantsWaits, LogsWaits} :
        Kept(W, calls, calls')
  BY <1>3 DEF ContactsWaits, DetailsWaits, ParticipantsWaits, LogsWaits
<1>5. PageInv'
  <2>1. sidebar' \subseteq DOMAIN chats
    BY <1>1, <1>2 DEF Lists, PageInv, Sound
  <2> QED BY <1>1, <2>1 DEF Lists, PageInv, NoModal, HomesOf
<1>6. SidebarFresh'
  <2>1. CASE c.home = "page"
    BY <1>1, <2>1 DEF SidebarFresh, ChatsOf
  <2>2. CASE c.home # "page"
    <3>1. Kept(SidebarWaits, calls, calls')
      BY <1>3, <2>2 DEF SidebarWaits
    <3> QED BY <1>1, <2>2, <3>1, SidebarFrame DEF Lists, ChatsOf
  <2> QED BY <2>1, <2>2
<1>7. \A name \in {"contacts", "details", "participants", "logs"} :
        name \in stale => name \in stale'
  BY <1>1
<1>8. ContactsFresh' /\ DetailsFresh' /\ ParticipantsFresh' /\ LogsFresh'
  BY <1>1, <1>4, <1>7, ContactsFrame, DetailsFrame, ParticipantsFrame, LogsFrame
     DEF Lists, MembersOf, ShowsLogs
<1> QED BY <1>1, <1>3, <1>5, <1>6, <1>8 DEF Lists, RowsInv

LEMMA SettleFindLists ==
    ASSUME Lists, NEW c \in calls, SettleFind(c)
    PROVE  Lists'
<1> USE DEF server, session, modals, bounds, history
<1>1. /\ c.op = "find" /\ calls' = calls \ {c}
      /\ UNCHANGED <<server, user, page, sidebar, box, info, stale>>
      /\ c.home # "dialog" => UNCHANGED dialog
  BY DEF SettleFind
<1>2. Doing(c) = "find"
  BY <1>1 DEF Doing, Creations
<1>3. CallsInv' /\ \A W : <<c.home, "find">> \notin W => Kept(W, calls, calls')
  BY <1>1, <1>2, RemovedLists DEF Lists, CallsInv
<1>4. \A W \in {ContactsWaits, DetailsWaits, SidebarWaits, ParticipantsWaits, LogsWaits} :
        Kept(W, calls, calls')
  BY <1>3 DEF ContactsWaits, DetailsWaits, SidebarWaits, ParticipantsWaits, LogsWaits
<1>5. HomesOf(calls') \subseteq HomesOf(calls)
  BY <1>1 DEF HomesOf
<1>6. PageInv'
  BY <1>1, <1>5, AttachedCall, PageKept DEF Lists, PageInv, Attached
<1> QED BY <1>1, <1>3, <1>4, <1>6, ListsFrame DEF Lists

LEMMA SettleInfoLists ==
    ASSUME Lists, NEW c \in calls, SettleInfo(c)
    PROVE  Lists'
<1> USE DEF server, session, modals, bounds, history
<1>1. /\ c.op \in {"info", "infoAdded", "logs", "findMembers"} /\ calls' = calls \ {c}
      /\ UNCHANGED <<server, user, page, sidebar, box, dialog>>
      /\ c.home # "info" => UNCHANGED <<info, stale>>
  BY DEF SettleInfo, InfoLoads
<1>2. Sound(c, user, chats) /\ Doing(c) = c.op
  BY <1>1, AttachedCall DEF Doing, Creations
<1>3. CallsInv' /\ \A W : <<c.home, c.op>> \notin W => Kept(W, calls, calls')
  BY <1>1, <1>2, RemovedLists DEF Lists, CallsInv
<1>4. \A W \in {ContactsWaits, DetailsWaits, SidebarWaits} : Kept(W, calls, calls')
  BY <1>1, <1>3 DEF ContactsWaits, DetailsWaits, SidebarWaits
<1>5. HomesOf(calls') \subseteq HomesOf(calls)
  BY <1>1 DEF HomesOf
<1>6. CASE c.home # "info"
  <2>1. \A W \in {ParticipantsWaits, LogsWaits} : Kept(W, calls, calls')
    BY <1>3, <1>6 DEF ParticipantsWaits, LogsWaits
  <2>2. PageInv'
    BY <1>1, <1>5, <1>6, PageKept DEF Lists, PageInv
  <2> QED BY <1>1, <1>3, <1>4, <1>6, <2>1, <2>2, ListsFrame DEF Lists
<1>7. CASE c.home = "info"
  <2>1. /\ user # None /\ info \in Infos /\ page # 0
    BY <1>7, AttachedCall DEF Attached, Lists, PageInv, HomesOf
  <2>2. c.op # "logs" => c.answer \subseteq Users
    BY <1>1, <1>2 DEF Sound
  <2>3. c.chat \in Nat
    BY <1>2 DEF Sound
  <2>4. c.op = "logs" =>
          /\ info' \in Infos /\ info'.logs = c.chat
          /\ info'.participants = info.participants
          /\ stale' = IF c.chat = page THEN stale \ {"logs"} ELSE stale \cup {"logs"}
    BY <1>1, <1>7, <2>1, <2>3 DEF SettleInfo, SetList, Infos
  <2>5. c.op = "findMembers" =>
          /\ info' \in Infos /\ info'.logs = info.logs /\ info'.tab = info.tab
          /\ info'.participants = info.participants /\ UNCHANGED stale
    BY <1>1, <1>7, <2>1, <2>2 DEF SettleInfo, Infos
  <2>6. c.op \in {"info", "infoAdded"} =>
          /\ info' \in Infos /\ info'.participants = c.answer
          /\ info'.tab = "logs" => info.tab = "logs" /\ info'.logs = info.logs
          /\ stale' = IF c.answer = MembersOf(page) THEN stale \ {"participants"}
                      ELSE stale \cup {"participants"}
    <3> DEFINE loaded == [info EXCEPT !.participants = c.answer, !.loading = FALSE]
    <3> SUFFICES ASSUME c.op \in {"info", "infoAdded"}
                 PROVE  /\ info' \in Infos /\ info'.participants = c.answer
                        /\ info'.tab = "logs" => info.tab = "logs" /\ info'.logs = info.logs
                        /\ stale' = IF c.answer = MembersOf(page) THEN stale \ {"participants"}
                                    ELSE stale \cup {"participants"}
      OBVIOUS
    <3>1. /\ info' = IF c.op = "info" THEN loaded ELSE ShowParticipants(loaded)
          /\ stale' = IF c.answer = MembersOf(page) THEN stale \ {"participants"}
                      ELSE stale \cup {"participants"}
      BY <1>7 DEF SettleInfo, SetList
    <3>2. /\ loaded \in Infos /\ loaded.participants = c.answer /\ loaded.tab = info.tab
          /\ loaded.logs = info.logs
      BY <2>1, <2>2 DEF Infos
    <3> HIDE DEF loaded
    <3> QED BY <3>1, <3>2 DEF ShowParticipants, Infos
  <2>7. info' \in Infos /\ info' # None
    BY <1>1, <2>4, <2>5, <2>6, NoneAssumption
  <2>8. PageInv'
    BY <1>1, <1>5, <2>1, <2>7, PageKept DEF Lists
  <2>9. \A name \in {"contacts", "details", "sidebar"} : name \in stale => name \in stale'
    BY <1>1, <2>4, <2>5, <2>6
  <2>10. ContactsFresh' /\ DetailsFresh' /\ SidebarFresh'
    BY <1>1, <1>4, <2>9, ContactsFrame, DetailsFrame, SidebarFrame DEF Lists, ChatsOf
  <2>11. info # None
    BY <2>1, NoneAssumption
  <2>12. ParticipantsFresh'
    <3>1. CASE c.op \in {"info", "infoAdded"}
      BY <1>1, <2>6, <3>1 DEF ParticipantsFresh, MembersOf
    <3>2. CASE c.op \in {"logs", "findMembers"}
      <4>1. Kept(ParticipantsWaits, calls, calls')
        BY <1>3, <3>2 DEF ParticipantsWaits
      <4>2. info'.participants = info.participants
            /\ ("participants" \in stale => "participants" \in stale')
        BY <2>4, <2>5, <3>2
      <4> QED BY <1>1, <2>11, <4>1, <4>2, ParticipantsFrame DEF Lists, MembersOf
    <3> QED BY <1>1, <3>1, <3>2
  <2>13. LogsFresh'
    <3>1. CASE c.op = "logs"
      BY <1>1, <2>4, <3>1 DEF LogsFresh
    <3>2. CASE c.op # "logs"
      <4>1. Kept(LogsWaits, calls, calls')
        BY <1>3, <3>2 DEF LogsWaits
      <4>2. /\ info'.tab = "logs" => info.tab = "logs" /\ info'.logs = info.logs
            /\ "logs" \in stale => "logs" \in stale'
        BY <1>1, <2>5, <2>6, <3>2
      <4> QED BY <1>1, <2>11, <4>1, <4>2, LogsFrame DEF Lists, ShowsLogs
    <3> QED BY <3>1, <3>2
  <2> QED BY <1>1, <1>3, <2>8, <2>10, <2>12, <2>13 DEF Lists, RowsInv
<1> QED BY <1>6, <1>7

LEMMA SettleMembersLists ==
    ASSUME ShellInv, Lists, NEW c \in calls, SettleMembers(c)
    PROVE  Lists'
<1> USE DEF server, session, modals, bounds, history
<1>1. PICK op \in {"info", "infoAdded"} :
        /\ c.op \in {"addMember", "removeMember"} /\ calls' = GoesOn(calls, c, op)
        /\ UNCHANGED <<server, user, page, sidebar, box, dialog, stale>>
        /\ info' = IF c.home = "info" THEN [info EXCEPT !.loading = TRUE] ELSE info
  BY DEF SettleMembers
<1>2. CallsTyped(calls) /\ Doing(c) = c.op
  BY <1>1 DEF ShellInv, ShellType, Doing, Creations
<1>3. /\ CallsInv'
      /\ \A W : <<c.home, c.op>> \notin W \/ <<c.home, op>> \in W => Kept(W, calls, calls')
  BY <1>1, <1>2, GoesOnLists DEF Lists, CallsInv
<1>4. \A W \in {ContactsWaits, DetailsWaits, SidebarWaits, ParticipantsWaits, LogsWaits} :
        Kept(W, calls, calls')
  BY <1>1, <1>3 DEF ContactsWaits, DetailsWaits, SidebarWaits, ParticipantsWaits, LogsWaits
<1>5. HomesOf(calls') \subseteq HomesOf(calls)
  BY <1>1, <1>2, GoesOnFacts DEF BlockOps, DialogOps, Creations
<1>6. c.home = "info" => info # None /\ info \in Infos
  BY DEF Lists, PageInv, HomesOf
<1>7. /\ info' \in Infos \cup {None} /\ (info' # None <=> info # None)
      /\ info # None => /\ info'.tab = info.tab /\ info'.logs = info.logs
                        /\ info'.participants = info.participants
  <2>1. CASE c.home = "info"
    <3>1. /\ info' \in Infos /\ info'.tab = info.tab /\ info'.logs = info.logs
          /\ info'.participants = info.participants
      BY <1>1, <1>6, <2>1 DEF Infos
    <3> QED BY <1>6, <2>1, <3>1, NoneAssumption
  <2> QED BY <1>1, <2>1 DEF Lists, PageInv
<1>8. PageInv'
  BY <1>1, <1>5, <1>6, <1>7, AttachedCall, PageKept DEF Lists, PageInv, Attached
<1> QED BY <1>1, <1>3, <1>4, <1>7, <1>8, ListsFrame DEF Lists

LEMMA FailShellLists ==
    ASSUME Lists, NEW c \in calls, FailShell(c)
    PROVE  Lists'
<1> USE DEF server, session, modals, bounds, history
<1>1. /\ c.op \in ShellOps /\ calls' = calls \ {c}
      /\ UNCHANGED <<server, user, page, sidebar, box>>
      /\ c.home # "dialog" => UNCHANGED dialog
      /\ stale' = stale \cup {"sidebar", "participants", "logs"}
  BY DEF FailShell
<1>2. Doing(c) \in ShellOps \cup {"made"}
  BY <1>1 DEF Doing
<1>3. CallsInv' /\ \A W : <<c.home, Doing(c)>> \notin W => Kept(W, calls, calls')
  BY <1>1, RemovedLists DEF Lists, CallsInv
<1>4. \A W \in {ContactsWaits, DetailsWaits} : Kept(W, calls, calls')
  BY <1>2, <1>3 DEF ContactsWaits, DetailsWaits, ShellOps, DialogOps, InfoOps, InfoLoads, Creations
<1>5. HomesOf(calls') \subseteq HomesOf(calls)
  BY <1>1 DEF HomesOf
<1>6. c.home = "info" => info # None /\ info \in Infos
  BY DEF Lists, PageInv, HomesOf
<1>7. IF c.home = "info" THEN info' \in Infos ELSE info' = info
  <2>1. CASE c.home = "info"
    <3>1. \/ info' = info \/ info' = [info EXCEPT !.loading = FALSE]
          \/ info' = ShowParticipants([info EXCEPT !.loading = FALSE])
      BY DEF FailShell
    <3>2. [info EXCEPT !.loading = FALSE] \in Infos
      BY <1>6, <2>1 DEF Infos
    <3>3. \A i \in Infos : ShowParticipants(i) \in Infos
      BY DEF ShowParticipants, Infos
    <3> QED BY <1>6, <2>1, <3>1, <3>2, <3>3
  <2>2. CASE c.home # "info"
    BY <2>2 DEF FailShell
  <2> QED BY <2>1, <2>2
<1>8. info' \in Infos \cup {None} /\ (info' # None <=> info # None)
  BY <1>6, <1>7, NoneAssumption DEF Lists, PageInv
<1>9. PageInv'
  BY <1>1, <1>5, <1>7, <1>8, AttachedCall, PageKept DEF Lists, PageInv, Attached
<1>10. ContactsFresh' /\ DetailsFresh'
  BY <1>1, <1>4, ContactsFrame, DetailsFrame DEF Lists
<1>11. SidebarFresh' /\ ParticipantsFresh' /\ LogsFresh'
  BY <1>1 DEF SidebarFresh, ParticipantsFresh, LogsFresh
<1> QED BY <1>1, <1>3, <1>9, <1>10, <1>11 DEF Lists, RowsInv

\* The chat that was made is opened, and the list of chats is asked for.
LEMMA SettleCreationLists ==
    ASSUME ShellInv, Lists, NEW c \in calls, SettleCreation(c)
    PROVE  Lists'
<1> USE DEF server, session, modals, bounds, history
<1>1. /\ c.phase = "answered" /\ c.op \in Creations
      /\ UNCHANGED <<server, user, sidebar, box, stale>>
  BY DEF SettleCreation
<1>2. CallsTyped(calls) /\ Sound(c, user, chats)
  BY AttachedCall DEF ShellInv, ShellType
<1> DEFINE rest == calls \ {c}
           kept == IF c.home # "left" THEN Orphaned(rest, "dialog") ELSE rest
<1>3. /\ CallsTyped(rest) /\ AllSound(rest, user, chats)
      /\ \A W : <<c.home, Doing(c)>> \notin W => Kept(W, calls, rest)
      /\ HomesOf(rest) \subseteq HomesOf(calls)
  BY <1>2, RemovedFacts, RemovedLists DEF Lists, CallsInv
<1>4. CASE c.answer = {}
  <2>1. /\ calls' = rest /\ UNCHANGED <<page, info>>
        /\ c.home # "dialog" => UNCHANGED dialog
    BY <1>4 DEF SettleCreation
  <2> HIDE DEF rest
  <2>2. Doing(c) = c.op
    BY <1>4 DEF Doing
  <2>3. \A W \in {ContactsWaits, DetailsWaits, SidebarWaits, ParticipantsWaits, LogsWaits} :
          Kept(W, calls, calls')
    BY <1>1, <1>3, <2>1, <2>2
       DEF ContactsWaits, DetailsWaits, SidebarWaits, ParticipantsWaits, LogsWaits, Creations
  <2>4. CallsInv'
    BY <1>1, <1>3, <2>1 DEF CallsInv
  <2>5. PageInv'
    BY <1>1, <1>3, <2>1, AttachedCall, PageKept DEF Lists, PageInv, Attached
  <2> QED BY <1>1, <2>1, <2>3, <2>4, <2>5, ListsFrame DEF Lists
<1>5. CASE c.answer # {}
  <2>1. PICK i \in c.answer : Navigate(i) /\ calls' = ChatCreated(i, kept, c.home)
    BY <1>5 DEF SettleCreation
  <2>2. dialog' = IF c.home # "left" THEN None ELSE dialog
    BY <1>5 DEF SettleCreation
  <2> HIDE DEF rest
  <2>3. i \in DOMAIN chats /\ DOMAIN chats = 1..Len(chats) /\ Len(chats) \in Nat
    BY <1>1, <1>2 DEF Sound, Lists, RowsInv, AllRows
  <2>4. Doing(c) = "made"
    BY <1>1, <1>5 DEF Doing
  <2>5. /\ AllSound(kept, user, chats)
        /\ \A W \in {ContactsWaits, DetailsWaits, SidebarWaits, ParticipantsWaits, LogsWaits} :
             Kept(W, rest, kept)
        /\ HomesOf(kept) \subseteq HomesOf(rest) \cup {"gone"}
        /\ c.home = "left" => HomesOf(kept) = HomesOf(rest)
    <3>1. CASE c.home = "left"
      BY <1>3, <3>1 DEF Kept
    <3>2. CASE c.home # "left"
      <4>1. kept = Orphaned(rest, "dialog")
        BY <3>2
      <4>2. AllSound(kept, user, chats)
        BY <1>3, <4>1, OrphanedLists DEF Attached
      <4>3. \A W \in {ContactsWaits, DetailsWaits, SidebarWaits, ParticipantsWaits, LogsWaits} :
              Kept(W, rest, kept)
        BY <1>3, <4>1, OrphanedLists DEF Attached, ContactsWaits, DetailsWaits, SidebarWaits,
           ParticipantsWaits, LogsWaits
      <4> QED BY <1>3, <3>2, <4>1, <4>2, <4>3, OrphanedFacts
    <3> QED BY <3>1, <3>2
  <2> HIDE DEF kept
  <2> DEFINE shown == InfoFollows(i, kept)
             home == IF c.home = "left" THEN c.home ELSE "page"
  <2>6. /\ AllSound(shown, user, chats)
        /\ \A W : Kept(W, kept, shown)
        /\ info # None /\ i # page => <<"info", "info">> \in Signs(shown)
        /\ info # None /\ i # page /\ info.tab = "logs" /\ ShowsLogs(i) =>
             <<"info", "logs">> \in Signs(shown)
    BY <2>3, <2>5, InfoFollowsLists
  <2>7. calls' = StartedBy(user, page, shown, "chats", None, home)
    BY <2>1 DEF ChatCreated, Started
  <2>8. info = None => shown = kept
    BY DEF InfoFollows
  <2>9. /\ home \in Homes
        /\ c.home = "left" => home = "left"
        /\ c.home # "left" => home = "page"
    BY DEF Homes
  <2> HIDE DEF shown, home
  <2>10. AllSound(calls', user, chats)
    BY <2>6, <2>7, <2>9, StartedSound DEF Lists, PageInv
  <2>11. Signs(calls') = Signs(shown) \cup {<<home, "chats">>} /\ \A W : Kept(W, shown, calls')
    BY <2>7, StartedLists
  <2>12. \A W \in {ContactsWaits, DetailsWaits, ParticipantsWaits, LogsWaits} :
           Kept(W, calls, calls')
    BY <1>3, <2>4, <2>5, <2>6, <2>11
       DEF Kept, ContactsWaits, DetailsWaits, ParticipantsWaits, LogsWaits
  <2>13. CallsInv' /\ RowsInv'
    BY <1>1, <2>10 DEF CallsInv, Lists, RowsInv
  <2>14. ContactsFresh' /\ DetailsFresh'
    BY <1>1, <2>12, ContactsFrame, DetailsFrame DEF Lists
  <2>15. SidebarFresh'
    <3>1. CASE c.home # "left"
      BY <2>9, <2>11, <3>1 DEF SidebarFresh, Waits, SidebarWaits
    <3>2. CASE c.home = "left"
      <4>1. Kept(SidebarWaits, calls, calls')
        BY <1>3, <2>4, <2>5, <2>6, <2>11, <3>2 DEF Kept, SidebarWaits, Attached
      <4> QED BY <1>1, <4>1, SidebarFrame DEF Lists, ChatsOf
    <3> QED BY <3>1, <3>2
  <2>16. /\ ParticipantsFresh' /\ LogsFresh'
         /\ page' \in 0..Len(chats) /\ info' \in Infos \cup {None}
         /\ info' # None => page' # 0
         /\ info = None <=> info' = None
    BY <1>1, <2>1, <2>3, <2>6, <2>11, <2>12, NavigateLists
  <2>17. info = None => HomesOf(calls') \subseteq HomesOf(calls) \cup {"gone", home}
    <3>1. CallsTyped(kept)
      BY <1>3, OrphanedFacts DEF kept
    <3>2. HomesOf(StartedBy(user, page, kept, "chats", None, home)) = HomesOf(kept) \cup {home}
      BY <2>9, <3>1, StartedFacts DEF BlockOps
    <3> QED BY <1>3, <2>5, <2>7, <2>8, <3>2
  <2>18. PageInv'
    <3>1. ASSUME user = None PROVE NoModal' /\ \A d \in calls' : d.home \in {"left", "dead"}
      <4>1. NoModal /\ c.home = "left" /\ HomesOf(calls) \subseteq {"left", "dead"}
        BY <1>1, <1>2, <3>1 DEF Lists, PageInv, HomesOf, Sound
      <4>2. shown = kept /\ HomesOf(kept) \subseteq {"left", "dead"} /\ CallsTyped(kept)
        BY <1>3, <2>5, <2>8, <4>1 DEF NoModal, kept
      <4>3. HomesOf(calls') \subseteq {"left", "dead"}
        BY <2>7, <2>9, <4>1, <4>2, StartedFacts DEF BlockOps
      <4> QED BY <1>1, <2>2, <2>16, <4>1, <4>3 DEF NoModal, HomesOf
    <3>2. info = None => "info" \notin HomesOf(calls')
      BY <2>9, <2>17 DEF Lists, PageInv
    <3> QED BY <1>1, <2>16, <3>1, <3>2 DEF Lists, PageInv
  <2> QED BY <2>13, <2>14, <2>15, <2>16, <2>18 DEF Lists
<1> QED BY <1>4, <1>5

\* The lists are loaded with the page.
LEMMA LoadPageLists ==
    ASSUME ShellInv, Lists, NEW u, u = user \/ u = None, LoadPage(u), UNCHANGED server
    PROVE  Lists'
<1> USE DEF server
<1>1. /\ user' = u /\ page' = 0 /\ sidebar' = {}
      /\ box' = None /\ dialog' = None /\ info' = None
      /\ stale' = stale \ {"sidebar"}
  BY DEF LoadPage
<1> DEFINE left == Abandoned(calls)
<1>2. CallsTyped(left) /\ AllSound(left, u, chats) /\ HomesOf(left) \subseteq {"dead"}
  BY AbandonedFacts, AbandonedLists DEF ShellInv, ShellType, Lists, CallsInv
<1>3. calls' = IF u = None THEN left ELSE StartedBy(u, 0, left, "chats", None, "page")
  BY DEF LoadPage
<1> HIDE DEF left
<1>4. 0 \in 0..Len(chats)
  BY DEF Lists, RowsInv, AllRows
<1>5. /\ AllSound(calls', u, chats)
      /\ u # None => <<"page", "chats">> \in Signs(calls')
      /\ HomesOf(calls') \subseteq {"dead"} \cup (IF u = None THEN {} ELSE {"page"})
  <2>1. CASE u = None
    BY <1>2, <1>3, <2>1
  <2>2. CASE u # None
    <3>1. AllSound(calls', u, chats)
      BY <1>2, <1>3, <1>4, <2>2, StartedSound DEF Homes
    <3> QED BY <1>2, <1>3, <2>2, <3>1, StartedLists, StartedFacts DEF BlockOps
  <2> QED BY <2>1, <2>2
<1>6. CallsInv' /\ RowsInv'
  BY <1>1, <1>5 DEF CallsInv, Lists, RowsInv
<1>7. PageInv'
  <2>1. u = None => \A c \in calls' : c.home \in {"left", "dead"}
    BY <1>5 DEF HomesOf
  <2> QED BY <1>1, <1>4, <1>5, <2>1 DEF Lists, PageInv, NoModal
<1>8. SidebarFresh'
  BY <1>1, <1>5 DEF SidebarFresh, Waits, SidebarWaits
<1>9. ContactsFresh' /\ DetailsFresh' /\ ParticipantsFresh' /\ LogsFresh'
  BY <1>1 DEF ContactsFresh, DetailsFresh, ParticipantsFresh, LogsFresh
<1> QED BY <1>6, <1>7, <1>8, <1>9 DEF Lists

LEMMA LoginLists ==
    ASSUME ShellInv, Lists, NEW u \in Local, Login(u)
    PROVE  Lists'
<1> USE DEF server, modals
<1>1. /\ user = None /\ user' = u
      /\ calls' = StartedBy(u, 0, calls, "chats", None, "page")
      /\ stale' = stale \ {"sidebar"}
      /\ UNCHANGED <<server, page, sidebar, box, dialog, info>>
  BY DEF Login
<1>2. /\ box = None /\ info = None /\ \A c \in calls : c.home \in {"left", "dead"}
      /\ u # None /\ 0 \in 0..Len(chats)
  BY <1>1, ShellAssumption DEF Lists, PageInv, NoModal, RowsInv, AllRows
<1>3. AllSound(calls, u, chats)
  BY <1>2 DEF Lists, CallsInv, AllSound, Sound, Attached
<1>4. /\ AllSound(calls', u, chats) /\ <<"page", "chats">> \in Signs(calls')
      /\ HomesOf(calls') = HomesOf(calls) \cup {"page"}
  <2>1. AllSound(calls', u, chats)
    BY <1>1, <1>2, <1>3, StartedSound DEF Homes
  <2> QED BY <1>1, <2>1, StartedLists, StartedFacts DEF BlockOps, ShellInv, ShellType
<1>5. CallsInv' /\ RowsInv'
  BY <1>1, <1>4 DEF CallsInv, Lists, RowsInv
<1>6. PageInv'
  BY <1>1, <1>2, <1>4 DEF Lists, PageInv
<1>7. SidebarFresh'
  BY <1>4 DEF SidebarFresh, Waits, SidebarWaits
<1>8. ContactsFresh' /\ DetailsFresh' /\ ParticipantsFresh' /\ LogsFresh'
  BY <1>1, <1>2 DEF ContactsFresh, DetailsFresh, ParticipantsFresh, LogsFresh
<1> QED BY <1>5, <1>6, <1>7, <1>8 DEF Lists

LEMMA LogoutLists ==
    ASSUME ShellInv, Lists, Logout
    PROVE  Lists'
<1> USE DEF server
<1>1. /\ user' = None /\ page' = 0 /\ sidebar' = {}
      /\ box' = None /\ dialog' = None /\ info' = None
      /\ calls' = {[c EXCEPT !.home = IF @ = "dead" THEN @ ELSE "left"] : c \in calls}
      /\ UNCHANGED chats
  BY DEF Logout
<1>2. AllSound(calls', None, chats) /\ \A c \in calls' : c.home \in {"left", "dead"}
  BY <1>1, LeftSound DEF ShellInv, ShellType, Lists, CallsInv
<1>3. CallsInv' /\ RowsInv'
  BY <1>1, <1>2 DEF CallsInv, Lists, RowsInv
<1>4. PageInv'
  <2>1. 0 \in 0..Len(chats)
    BY DEF Lists, RowsInv, AllRows
  <2> QED BY <1>1, <1>2, <2>1 DEF PageInv, NoModal, HomesOf
<1> QED BY <1>1, <1>3, <1>4
        DEF Lists, ContactsFresh, DetailsFresh, SidebarFresh, ParticipantsFresh, LogsFresh

\* A chat of the list is opened when no modal is open.
LEMMA OpenChatLists ==
    ASSUME Lists, NEW i \in sidebar, OpenChat(i)
    PROVE  Lists'
<1> USE DEF server, session, modals, bounds, history
<1>1. /\ user # None /\ NoModal /\ page' = i
      /\ UNCHANGED <<server, user, sidebar, box, dialog, info, calls, stale>>
  BY DEF OpenChat
<1>2. i \in 0..Len(chats)
  BY DEF Lists, PageInv, RowsInv, AllRows
<1>3. PageInv'
  BY <1>1, <1>2 DEF Lists, PageInv, NoModal, HomesOf
<1>4. CallsInv' /\ RowsInv'
  BY <1>1 DEF Lists, CallsInv, RowsInv
<1>5. SidebarFresh'
  BY <1>1, SidebarFrame DEF Lists, ChatsOf, Kept
<1> QED BY <1>1, <1>3, <1>4, <1>5
        DEF Lists, NoModal, ContactsFresh, DetailsFresh, ParticipantsFresh, LogsFresh

\* Whoever deletes his account is nobody of this browser.
LEMMA AccountDeletedLists ==
    ASSUME Lists, NEW v, AccountDeleted(v)
    PROVE  Lists'
<1> USE DEF server, session, modals, bounds, history
<1>1. /\ v \notin Local
      /\ chats' = [i \in DOMAIN chats |-> [chats[i] EXCEPT !.members = @ \ {v}]]
      /\ stale' = stale \cup {"contacts", "details", "participants"}
      /\ UNCHANGED <<user, page, sidebar, box, dialog, info, calls>>
  BY DEF AccountDeleted
<1>2. /\ chats \in Seq(Chats) /\ DOMAIN chats = 1..Len(chats) /\ Len(chats) \in Nat
      /\ \A i \in DOMAIN chats : KeepsCreator(chats[i])
  BY DEF Lists, RowsInv, AllRows
<1>3. \A i \in DOMAIN chats : chats[i] \in Chats
  BY <1>2
<1>4. ASSUME NEW i \in DOMAIN chats
      PROVE  /\ chats'[i] \in Chats /\ chats'[i].type = chats[i].type
             /\ chats'[i].creator = chats[i].creator
             /\ chats'[i].members = chats[i].members \ {v}
  <2>1. chats'[i] = [chats[i] EXCEPT !.members = @ \ {v}]
    BY <1>1
  <2> QED BY <1>3, <2>1 DEF Chats
<1>5. /\ DOMAIN chats' = DOMAIN chats /\ chats' \in Seq(Chats) /\ Len(chats') = Len(chats)
  <2>1. chats' = [i \in 1..Len(chats) |-> chats'[i]] /\ DOMAIN chats' = 1..Len(chats)
    BY <1>1, <1>2
  <2>2. chats' \in [1..Len(chats) -> Chats]
    BY <1>2, <1>4, <2>1
  <2> QED BY <1>2, <2>1, <2>2
<1>6. \A i \in DOMAIN chats' : KeepsCreator(chats'[i])
  BY <1>1, <1>2, <1>4, <1>5 DEF KeepsCreator
<1>7. Grown(chats, chats')
  BY <1>2, <1>4, <1>5, <1>6 DEF Grown, AllRows
<1>8. PageInv' /\ RowsInv' /\ (info # None => (ShowsLogs(page)' <=> ShowsLogs(page)))
  BY <1>1, <1>7, GrownPage
<1>9. CallsInv'
  <2>1. AllSound(calls, user, chats')
    BY <1>7, GrownSound DEF Lists, CallsInv, RowsInv
  <2> QED BY <1>1, <2>1 DEF CallsInv
<1>10. \A W : Kept(W, calls, calls')
  BY <1>1 DEF Kept
<1>11. SidebarFresh'
  <2>1. user \in Local => ChatsOf(user)' = ChatsOf(user)
    BY <1>1, <1>4, <1>5 DEF ChatsOf
  <2>2. user # None => user \in Local
    BY DEF Lists, PageInv
  <2> QED BY <1>1, <1>10, <2>1, <2>2, SidebarFrame DEF Lists
<1>12. LogsFresh'
  BY <1>1, <1>8, <1>10, LogsFrame DEF Lists
<1>13. ContactsFresh' /\ DetailsFresh' /\ ParticipantsFresh'
  BY <1>1 DEF ContactsFresh, DetailsFresh, ParticipantsFresh
<1> QED BY <1>8, <1>9, <1>11, <1>12, <1>13 DEF Lists

LEMMA InvitedLists ==
    ASSUME ShellInv, Lists, NEW v, Invited(v)
    PROVE  Lists'
<1> USE DEF server, session, modals, bounds, history
<1> DEFINE chat == [type |-> "group", creator |-> v, members |-> {v, user}]
<1>1. /\ user # None /\ v \in accounts /\ chats' = Append(chats, chat)
      /\ stale' = stale \cup {"sidebar"}
      /\ UNCHANGED <<accounts, contacts, blocked, user, page, sidebar, box, dialog, info, calls>>
  BY DEF Invited
<1>2. v \in Users /\ user \in Users
  BY <1>1, ShellAssumption DEF ShellInv, ShellType, Lists, PageInv
<1>3. chat \in Chats /\ KeepsCreator(chat)
  BY <1>2 DEF Chats, KeepsCreator
<1> HIDE DEF chat
<1>4. Grown(chats, chats')
  BY <1>1, <1>3, AppendGrows DEF Lists, RowsInv
<1>5. MembersOf(page)' = MembersOf(page)
  BY <1>1, <1>3, AppendedMembers
<1>6. PageInv' /\ RowsInv' /\ (info # None => (ShowsLogs(page)' <=> ShowsLogs(page)))
  BY <1>1, <1>4, GrownPage
<1>7. CallsInv'
  <2>1. AllSound(calls, user, chats')
    BY <1>4, GrownSound DEF Lists, CallsInv, RowsInv
  <2> QED BY <1>1, <2>1 DEF CallsInv
<1>8. \A W : Kept(W, calls, calls')
  BY <1>1 DEF Kept
<1>9. ContactsFresh' /\ DetailsFresh' /\ ParticipantsFresh' /\ LogsFresh'
  BY <1>1, <1>5, <1>6, <1>8, ContactsFrame, DetailsFrame, ParticipantsFrame, LogsFrame DEF Lists
<1>10. SidebarFresh'
  BY <1>1 DEF SidebarFresh
<1> QED BY <1>6, <1>7, <1>9, <1>10 DEF Lists

\* Who is removed is not the creator, and no shown list is left unmarked.
LEMMA RemovalLists ==
    ASSUME Lists, NEW i \in DOMAIN chats, Removed(i)
    PROVE  Lists'
<1> USE DEF server, session, modals, bounds, history
<1> DEFINE rest == chats[i].members \ {user}
<1>1. /\ chats[i].creator # user /\ chats[i].creator \in chats[i].members
      /\ chats' = [chats EXCEPT ![i].members = rest]
      /\ stale' = stale \cup {"sidebar", "participants"}
      /\ UNCHANGED <<accounts, contacts, blocked, user, page, sidebar, box, dialog, info, calls>>
  BY DEF Removed
<1>2. AllRows(chats) /\ rest \subseteq Users /\ chats[i].creator \in rest
  <2>1. AllRows(chats)
    BY DEF Lists, RowsInv
  <2>2. chats[i] \in Chats
    BY <2>1 DEF AllRows
  <2> QED BY <1>1, <2>1, <2>2 DEF Chats
<1> HIDE DEF rest
<1>3. Grown(chats, chats')
  BY <1>1, <1>2, ChangedMembers
<1>4. PageInv' /\ RowsInv' /\ (info # None => (ShowsLogs(page)' <=> ShowsLogs(page)))
  BY <1>1, <1>3, GrownPage
<1>5. CallsInv'
  <2>1. AllSound(calls, user, chats')
    BY <1>3, GrownSound DEF Lists, CallsInv, RowsInv
  <2> QED BY <1>1, <2>1 DEF CallsInv
<1>6. \A W : Kept(W, calls, calls')
  BY <1>1 DEF Kept
<1>7. ContactsFresh' /\ DetailsFresh' /\ LogsFresh'
  BY <1>1, <1>4, <1>6, ContactsFrame, DetailsFrame, LogsFrame DEF Lists
<1>8. SidebarFresh' /\ ParticipantsFresh'
  BY <1>1 DEF SidebarFresh, ParticipantsFresh
<1> QED BY <1>4, <1>5, <1>7, <1>8 DEF Lists

LEMMA BlockElsewhereLists ==
    ASSUME Lists, NEW u, NEW v, BlockElsewhere(u, v)
    PROVE  Lists'
<1> USE DEF server, session, modals, bounds, history
<1>1. /\ stale' = stale \cup {"details"}
      /\ UNCHANGED <<accounts, contacts, chats, user, page, sidebar, box, dialog, info, calls>>
  BY DEF BlockElsewhere
<1>2. \A W : Kept(W, calls, calls')
  BY <1>1 DEF Kept
<1>3. PageInv' /\ CallsInv' /\ RowsInv'
  BY <1>1 DEF Lists, PageInv, CallsInv, RowsInv, HomesOf, NoModal
<1>4. DetailsFresh'
  BY <1>1 DEF DetailsFresh
<1>5. ContactsFresh' /\ SidebarFresh' /\ ParticipantsFresh' /\ LogsFresh'
  BY <1>1, <1>2, ContactsFrame, SidebarFrame, ParticipantsFrame, LogsFrame
     DEF Lists, ChatsOf, MembersOf, ShowsLogs
<1> QED BY <1>3, <1>4, <1>5 DEF Lists

-----------------------------------------------------------------------------
LEMMA ListsInitially == Init => Lists
<1> SUFFICES ASSUME Init PROVE Lists
  OBVIOUS
<1>1. RowsInv
  BY FirstAssumption DEF Init, RowsInv, AllRows
<1>2. CallsInv
  BY DEF Init, CallsInv, AllSound
<1>3. PageInv
  <2>1. Len(chats) \in Nat
    BY <1>1 DEF RowsInv, AllRows
  <2>2. user # None
    BY FirstAssumption, ShellAssumption DEF Init
  <2> QED BY <2>1, <2>2, FirstAssumption DEF Init, PageInv, HomesOf, ChatsOf
<1> QED BY <1>1, <1>2, <1>3
        DEF Init, Lists, ContactsFresh, DetailsFresh, SidebarFresh, ParticipantsFresh, LogsFresh

LEMMA ListsNext == ShellInv /\ Lists /\ [Next]_vars => Lists'
<1> SUFFICES ASSUME ShellInv, Lists, [Next]_vars PROVE Lists'
  OBVIOUS
<1>1. CASE ContactsNext
  BY <1>1, OpenBoxLists, CloseBoxLists, SwitchTabLists, ClickLists, ServeContactsLists,
     SettleChangeLists, SettleContactsLists, SettleOpenChatLists, FailContactsLists
     DEF ContactsNext
<1>2. CASE DialogsNext
  <2>1. ASSUME NEW c \in calls, SettleLeave(c) PROVE Lists'
    <3>1. LoadPage(user) /\ UNCHANGED server
      BY <2>1 DEF SettleLeave
    <3> QED BY <3>1, LoadPageLists
  <2> QED BY <1>2, <2>1, DialogLists, OpenInfoLists, CloseInfoLists, ChooseTabLists,
             CancelSearchLists, InfoCallLists, ServeChatsLists, AskNamesLists, SettleChatsLists,
             SettleFindLists, SettleCreationLists, SettleInfoLists, SettleMembersLists,
             FailShellLists DEF DialogsNext
<1>3. ASSUME NEW i \in sidebar, OpenChat(i) PROVE Lists'
  BY <1>3, OpenChatLists
<1>4. ASSUME NEW u \in Local, Login(u) PROVE Lists'
  BY <1>4, LoginLists
<1>5. CASE Logout
  BY <1>5, LogoutLists
<1>6. CASE LeavePage
  <2>1. PICK u \in {user, None} : LoadPage(u)
    BY <1>6 DEF LeavePage
  <2>2. UNCHANGED server
    BY <1>6 DEF LeavePage
  <2> QED BY <2>1, <2>2, LoadPageLists
<1>7. ASSUME NEW u \in Local, NEW v \in Users, BlockElsewhere(u, v) PROVE Lists'
  BY <1>7, BlockElsewhereLists
<1>8. ASSUME NEW v \in Users, AccountDeleted(v) \/ Invited(v) PROVE Lists'
  BY <1>8, AccountDeletedLists, InvitedLists
<1>9. ASSUME NEW i \in DOMAIN chats, Removed(i) PROVE Lists'
  BY <1>9, RemovalLists
<1>10. CASE UNCHANGED vars
  <2> USE DEF server, session, modals, history
  <2>1. PageInv' /\ CallsInv' /\ \A W : Kept(W, calls, calls')
    BY <1>10 DEF vars, Lists, PageInv, CallsInv, HomesOf, NoModal, Kept
  <2> QED BY <1>10, <2>1, ListsFrame DEF vars, Lists
<1> QED BY <1>1, <1>2, <1>3, <1>4, <1>5, <1>6, <1>7, <1>8, <1>9, <1>10 DEF Next

\* Whichever calls end in whatever order and in whichever modal: once none is
\* under way, each list that is shown is the server's, unless one of the named
\* cases has made it old (ContactsModal.jsx 22-124, useChats.js 9-51,
\* ChatInfoModal.jsx 26-128).
THEOREM ListsFresh == Spec => []ListsFreshWhenQuiet
<1>1. Init => ShellInv /\ Lists
  BY Initially, ListsInitially
<1>2. ShellInv /\ Lists /\ [Next]_vars => (ShellInv /\ Lists)'
  BY ShellNext, ListsNext
<1>3. Lists => ListsFreshWhenQuiet
  <2> SUFFICES ASSUME Lists, calls = {}, user # None PROVE ListsFreshWhenQuiet
    BY DEF ListsFreshWhenQuiet
  <2>1. \A W : ~Waits(W, calls)
    BY DEF Waits, Signs
  <2> QED BY <2>1 DEF ListsFreshWhenQuiet, Lists, ContactsFresh, DetailsFresh, SidebarFresh,
                      ParticipantsFresh, LogsFresh
<1> QED BY <1>1, <1>2, <1>3, PTL DEF Spec
=============================================================================
