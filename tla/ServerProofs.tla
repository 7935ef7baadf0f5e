---------------------------- MODULE ServerProofs -----------------------------
(***************************************************************************)
(* Proofs about two parts of the server that share no state: the handlers  *)
(* of Chats, for any users, requests and bound of faults, and the          *)
(* RateLimiter in front of them, for any callers, limit, window and grace  *)
(* period, with Quota, which it implements.                                *)
(***************************************************************************)
EXTENDS Chats, RateLimiter, SequenceTheorems, TLAPS

-----------------------------------------------------------------------------
(* Chats                                                                   *)

\* The labels of each kind of handler
Path(kind) ==
    CASE kind = "private" -> {"find", "join", "commit"}
      [] kind = "group" -> {"insert", "join", "commit"}
      [] kind = "add" -> {"add"}
      [] kind = "remove" -> {"remove"}
      [] kind = "leave" -> {"remove", "count", "drop"}
      [] kind = "delete" -> {"drop"}

\* A handler keeps to its labels and works on a chat that was committed; a
\* creation inserts its people and is known only when it is done.
Control(r) ==
    /\ pc[r] \in Path(Kind[r]) \cup {"new", "done"}
    /\ r \notin Creations /\ pc[r] # "new" => target[r] \in known
    /\ r \in known => pc[r] = "done"
    /\ pc[r] = "new" => held[r] = {}
    /\ Kind[r] = "private" =>
         /\ pc[r] \in {"find", "join"} => todo[r] = People[r] /\ held[r] = {}
         /\ pc[r] = "commit" => held[r] = Pair(r)
    /\ Kind[r] = "group" /\ pc[r] \in {"insert", "join"} => todo[r] # <<>>

ControlInv == \A r \in Requests : Control(r)

\* Creations that run together know of each other.
OverlapInv ==
    /\ \A q, r \in Creations : q # r /\ Active(q) /\ Active(r) => <<q, r>> \in overlap
    /\ \A q, r \in Creations : <<q, r>> \in overlap => <<r, q>> \in overlap

\* A private chat that lost nobody has both its users.  A creation that found
\* none knows of those there are by now that they ran with it or lost a user.
PairInv ==
    /\ \A c \in chats : Kind[c] = "private" => c \in thinned \/ Pair(c) \subseteq members[c]
    /\ \A c \in chats, d \in Creations :
         /\ Kind[c] = "private" /\ Kind[d] = "private" /\ Pair(c) = Pair(d)
         /\ pc[d] \in {"join", "commit"}
         => <<c, d>> \in overlap \/ c \in thinned

\* Who is in a chat that a leaving request found empty was added since.
DropInv ==
    \A r \in Requests :
        Kind[r] = "leave" /\ pc[r] = "drop" => members[target[r]] \subseteq joined[r]

\* Who left a chat empty has still to see that, or to delete it, or failed.
Pending(r, c) ==
    /\ target[r] = c
    /\ pc[r] \in {"count", "drop"} \/ (pc[r] = "done" /\ outcome[r] = "error")

EmptierInv ==
    \A c \in Creations :
        emptier[c] # None =>
            /\ c \in known
            /\ c \in chats /\ members[c] = {} /\ Kind[emptier[c]] = "leave"
                 => Pending(emptier[c], c)

ChatInv ==
    /\ TypeOK /\ ControlInv /\ OverlapInv /\ PairInv /\ DropInv /\ EmptierInv
    /\ SecondPrivateChatNeedsRace

-----------------------------------------------------------------------------
(* What a step leaves alone                                                *)

LEMMA Paths ==
    ASSUME NEW r \in Requests, Control(r)
    PROVE  /\ pc[r] = "find" => Kind[r] = "private"
           /\ pc[r] = "insert" => Kind[r] = "group"
           /\ pc[r] \in {"find", "insert", "join", "commit"} => r \in Creations
           /\ pc[r] = "add" => Kind[r] = "add"
           /\ pc[r] = "remove" => Kind[r] \in {"remove", "leave"}
           /\ pc[r] = "count" => Kind[r] = "leave"
           /\ pc[r] = "drop" => Kind[r] \in {"leave", "delete"}
           /\ pc[r] \in {"add", "remove", "count", "drop"} =>
                r \notin Creations /\ target[r] \in known
<1>1. Kind[r] \in {"private", "group", "add", "remove", "leave", "delete"}
  BY ChatAssumption
<1>2. pc[r] \in Path(Kind[r]) \cup {"new", "done"}
  BY DEF Control
<1>3. r \in Creations <=> Kind[r] \in {"private", "group"}
  BY DEF Creations
<1>4. r \notin Creations /\ pc[r] # "new" => target[r] \in known
  BY DEF Control
<1>. QED BY <1>1, <1>2, <1>3, <1>4 DEF Path

LEMMA ControlStep ==
    ASSUME TypeOK, ControlInv, NEW r \in Requests, Control(r)',
           \A q \in Requests : q # r =>
             /\ pc'[q] = pc[q] /\ target'[q] = target[q]
             /\ todo'[q] = todo[q] /\ held'[q] = held[q],
           known \subseteq known', known' \subseteq known \cup {r}
    PROVE  ControlInv'
<1>1. ASSUME NEW q \in Requests, q # r PROVE Control(q)'
  <2>1. Control(q)
    BY DEF ControlInv
  <2>. QED BY <1>1, <2>1 DEF Control, Pair
<1>. QED BY <1>1 DEF ControlInv

LEMMA OverlapFrame ==
    ASSUME OverlapInv, UNCHANGED overlap,
           \A q \in Creations : Active(q)' => Active(q)
    PROVE  OverlapInv'
BY DEF OverlapInv

LEMMA PairFrame ==
    ASSUME PairInv, SecondPrivateChatNeedsRace,
           chats' \subseteq chats, thinned \subseteq thinned', overlap \subseteq overlap',
           \A c \in chats' : members[c] \subseteq members'[c] \/ c \in thinned',
           \A d \in Creations :
             Kind[d] = "private" /\ pc'[d] \in {"join", "commit"} => pc[d] \in {"join", "commit"}
    PROVE  PairInv' /\ SecondPrivateChatNeedsRace'
<1>1. SecondPrivateChatNeedsRace'
  BY DEF SecondPrivateChatNeedsRace, Pair
<1>2. \A c \in chats' : Kind[c] = "private" => c \in thinned' \/ Pair(c) \subseteq members'[c]
  BY DEF PairInv
<1>3. \A c \in chats', d \in Creations :
        /\ Kind[c] = "private" /\ Kind[d] = "private" /\ Pair(c) = Pair(d)
        /\ pc'[d] \in {"join", "commit"}
        => <<c, d>> \in overlap' \/ c \in thinned'
  BY DEF PairInv
<1>. QED BY <1>1, <1>2, <1>3 DEF PairInv, Pair

LEMMA DropFrame ==
    ASSUME DropInv,
           \A r \in Requests : Kind[r] = "leave" /\ pc'[r] = "drop" =>
             /\ pc[r] = "drop" /\ target'[r] = target[r] /\ joined[r] \subseteq joined'[r]
             /\ members'[target[r]] \subseteq members[target[r]] \cup joined'[r]
    PROVE  DropInv'
BY DEF DropInv

\* EmptierInv, with a name for who emptied the chat
LEMMA EmptierFrom ==
    ASSUME \A c \in Creations : emptier'[c] \in Requests \cup {None},
           \A c \in Creations : \A r \in Requests : emptier'[c] = r =>
             /\ c \in known'
             /\ c \in chats' /\ members'[c] = {} /\ Kind[r] = "leave" => Pending(r, c)'
    PROVE  EmptierInv'
<1> SUFFICES ASSUME NEW c \in Creations, emptier'[c] # None
             PROVE  /\ c \in known'
                    /\ c \in chats' /\ members'[c] = {} /\ Kind[emptier'[c]] = "leave"
                         => Pending(emptier[c], c)'
  BY DEF EmptierInv
<1>1. PICK r \in Requests : emptier'[c] = r
  OBVIOUS
<1>. QED BY <1>1 DEF Pending

LEMMA EmptierFrame ==
    ASSUME EmptierInv, TypeOK, known \subseteq known',
           \A c \in Creations : emptier'[c] \in {emptier[c], None},
           \A c \in known : c \in chats' /\ members'[c] = {} => c \in chats /\ members[c] = {},
           \A c \in Creations : \A r \in Requests :
             Kind[r] = "leave" /\ c \in chats' /\ members'[c] = {} /\ Pending(r, c)
               => Pending(r, c)'
    PROVE  EmptierInv'
<1>1. ASSUME NEW c \in Creations, NEW r \in Requests, emptier'[c] = r
      PROVE  /\ c \in known'
             /\ c \in chats' /\ members'[c] = {} /\ Kind[r] = "leave" => Pending(r, c)'
  <2>1. emptier[c] = r /\ r # None
    BY <1>1, ChatAssumption
  <2>2. c \in known
    BY <2>1 DEF EmptierInv
  <2>3. c \in chats /\ members[c] = {} /\ Kind[r] = "leave" => Pending(r, c)
    BY <2>1 DEF EmptierInv, Pending
  <2>. QED BY <2>2, <2>3
<1>2. \A c \in Creations : emptier'[c] \in Requests \cup {None}
  BY DEF TypeOK
<1>. QED BY <1>1, <1>2, EmptierFrom

\* A handler that is elsewhere has what it still owes an empty chat.
LEMMA PendingElsewhere ==
    ASSUME NEW r, NEW c, pc'[r] = pc[r], target'[r] = target[r], outcome'[r] = outcome[r],
           Pending(r, c)
    PROVE  Pending(r, c)'
BY DEF Pending

\* A step of one handler that changes no chat and owes nothing to one
LEMMA EmptierKept ==
    ASSUME EmptierInv, TypeOK, NEW r \in Requests,
           UNCHANGED <<chats, members, known, emptier>>,
           \A q \in Requests : q # r =>
             pc'[q] = pc[q] /\ target'[q] = target[q] /\ outcome'[q] = outcome[q],
           Kind[r] # "leave"
    PROVE  EmptierInv'
<1>1. \A c : \A q \in Requests : Kind[q] = "leave" /\ Pending(q, c) => Pending(q, c)'
  BY PendingElsewhere
<1>. QED BY <1>1, EmptierFrame

LEMMA HeldType ==
    ASSUME TypeOK, NEW r \in Requests, NEW S \in SUBSET users, held' = [held EXCEPT ![r] = S]
    PROVE  held' \in [Requests -> SUBSET users]
<1>1. held \in [Requests -> SUBSET users]
  BY DEF TypeOK
<1> DEFINE Held == SUBSET users
<1>2. held \in [Requests -> Held] /\ S \in Held
  BY <1>1
<1> HIDE DEF Held
<1>3. held' \in [Requests -> Held]
  BY <1>2
<1>. QED BY <1>3 DEF Held

LEMMA FaultType ==
    ASSUME TypeOK, Fault \/ NoFault
    PROVE  faults' \in 0..MaxFaults
BY ChatAssumption DEF TypeOK, Fault, NoFault

\* A creation that goes on inside its transaction, or gives up
LEMMA LocalStep ==
    ASSUME ChatInv, NEW r \in Creations, TypeOK', ControlInv',
           UNCHANGED <<chats, members, target, known, overlap, thinned, emptier, joined>>,
           \A q \in Requests : q # r => pc'[q] = pc[q] /\ outcome'[q] = outcome[q],
           Active(r), pc'[r] \notin {"drop"},
           Kind[r] = "private" /\ pc'[r] \in {"join", "commit"} => pc[r] = "join"
    PROVE  ChatInv'
<1>1. r \in Requests /\ Kind[r] # "leave"
  BY DEF Creations
<1>2. OverlapInv'
  BY <1>1, OverlapFrame DEF ChatInv, Active, Creations
<1>3. PairInv' /\ SecondPrivateChatNeedsRace'
  BY <1>1, PairFrame DEF ChatInv, Creations
<1>4. DropInv'
  BY <1>1, DropFrame DEF ChatInv
<1>5. EmptierInv'
  BY <1>1, EmptierKept DEF ChatInv
<1>. QED BY <1>2, <1>3, <1>4, <1>5 DEF ChatInv

\* A handler that is not a creation returns.
LEMMA ReturnStep ==
    ASSUME ChatInv, NEW r \in Requests \ Creations, TypeOK', Control(r)',
           UNCHANGED <<chats, members, target, todo, known, overlap, thinned, emptier, joined>>,
           \A q \in Requests : q # r =>
             pc'[q] = pc[q] /\ held'[q] = held[q] /\ outcome'[q] = outcome[q],
           pc'[r] = "done",
           Kind[r] = "leave" => outcome'[r] = "error" \/ members[target[r]] # {}
    PROVE  ChatInv'
<1>1. ControlInv'
  BY ControlStep DEF ChatInv
<1>2. OverlapInv'
  BY OverlapFrame DEF ChatInv, Active, Creations
<1>3. PairInv' /\ SecondPrivateChatNeedsRace'
  BY PairFrame DEF ChatInv, Creations
<1>4. DropInv'
  BY DropFrame DEF ChatInv
<1>5. EmptierInv'
  <2>1. ASSUME NEW c \in Creations, NEW q \in Requests, Kind[q] = "leave",
               members[c] = {}, Pending(q, c)
        PROVE  Pending(q, c)'
    <3>1. CASE q = r
      BY <2>1, <3>1 DEF Pending
    <3>2. CASE q # r
      BY <2>1, <3>2, PendingElsewhere
    <3>. QED BY <3>1, <3>2
  <2>. QED BY <2>1, EmptierFrame DEF ChatInv
<1>. QED BY <1>1, <1>2, <1>3, <1>4, <1>5 DEF ChatInv

-----------------------------------------------------------------------------
(* Each step of a handler                                                  *)

LEMMA StartStep ==
    ASSUME ChatInv, NEW r \in Requests, Start(r)
    PROVE  ChatInv'
<1> DEFINE label == CASE Kind[r] = "private" -> "find"
                      [] Kind[r] = "group" -> "insert"
                      [] Kind[r] = "add" -> "add"
                      [] Kind[r] \in {"remove", "leave"} -> "remove"
                      [] Kind[r] = "delete" -> "drop"
<1> DEFINE line == IF Kind[r] = "group" THEN Append(People[r], By[r]) ELSE People[r]
<1>1. /\ pc[r] = "new" /\ pc' = [pc EXCEPT ![r] = label]
      /\ todo' = [todo EXCEPT ![r] = line]
      /\ UNCHANGED <<users, chats, members, held, outcome, faults, known, thinned, emptier, joined>>
  BY DEF Start, Goto, db
<1>2. /\ Kind[r] \in {"private", "group", "add", "remove", "leave", "delete"}
      /\ People[r] \in Seq(Users) /\ By[r] \in Users
  BY ChatAssumption
<1>3. r \in Creations <=> Kind[r] \in {"private", "group"}
  BY DEF Creations
<1>4. /\ label \in Labels /\ label \in Path(Kind[r])
      /\ label \notin {"new", "join", "commit", "count", "done"}
      /\ label = "drop" => Kind[r] = "delete"
      /\ label = "insert" => Kind[r] = "group"
  BY <1>2 DEF Path, Labels
<1>5. line \in Seq(Users) /\ (Kind[r] = "group" => line # <<>>)
  BY <1>2
<1>6. \/ target' = target /\ r \in Creations
      \/ \E c \in known : target' = [target EXCEPT ![r] = c] /\ r \notin Creations
  BY DEF Start
<1> HIDE DEF label, line
<1>7. /\ \A q \in Requests : q # r =>
           pc'[q] = pc[q] /\ target'[q] = target[q] /\ todo'[q] = todo[q]
      /\ pc'[r] = label /\ todo'[r] = line
      /\ r \notin Creations => target'[r] \in known
  BY <1>1, <1>6 DEF ChatInv, TypeOK
<1>8. overlap' = IF r \in Creations
                   THEN overlap \cup UNION {{<<r, q>>, <<q, r>>} :
                                              q \in {p \in Creations : Active(p)}}
                   ELSE overlap
  BY DEF Start
<1>9. TypeOK'
  <2>1. pc' \in [Requests -> Labels] /\ todo' \in [Requests -> Seq(Users)]
    BY <1>1, <1>4, <1>5 DEF ChatInv, TypeOK
  <2>2. target' \in [Requests -> Creations \cup {None}]
    BY <1>6 DEF ChatInv, TypeOK
  <2>3. overlap' \in SUBSET (Creations \X Creations)
    BY <1>8 DEF ChatInv, TypeOK
  <2>. QED BY <1>1, <2>1, <2>2, <2>3 DEF ChatInv, TypeOK
<1>10. ControlInv'
  <2>1. Control(r)
    BY DEF ChatInv, ControlInv
  <2>2. /\ r \notin known /\ held'[r] = {} /\ pc'[r] # "new"
        /\ Kind[r] = "private" => label = "find" /\ line = People[r]
    BY <1>1, <1>4, <1>7, <2>1 DEF Control, label, line
  <2>3. Control(r)'
    BY <1>1, <1>4, <1>5, <1>7, <2>2 DEF Control
  <2>. QED BY <1>1, <1>7, <2>3, ControlStep DEF ChatInv
<1>11. OverlapInv'
  <2>1. \A q \in Creations : q # r => (Active(q)' <=> Active(q))
    BY <1>7 DEF Active, Creations
  <2>2. CASE r \in Creations
    <3>1. \A q \in Creations : Active(q) => <<q, r>> \in overlap' /\ <<r, q>> \in overlap'
      BY <1>8, <2>2
    <3>2. \A p, q \in Creations : <<p, q>> \in overlap' =>
            \/ <<p, q>> \in overlap
            \/ p = r /\ Active(q)
            \/ q = r /\ Active(p)
      BY <1>8, <2>2
    <3>3. \A p, q \in Creations : <<p, q>> \in overlap => <<p, q>> \in overlap'
      BY <1>8, <2>2
    <3>4. \A p, q \in Creations : p # q /\ Active(p)' /\ Active(q)' => <<p, q>> \in overlap'
      BY <2>1, <3>1, <3>3 DEF ChatInv, OverlapInv
    <3>5. \A p, q \in Creations : <<p, q>> \in overlap' => <<q, p>> \in overlap'
      BY <3>1, <3>2, <3>3 DEF ChatInv, OverlapInv
    <3>. QED BY <3>4, <3>5 DEF OverlapInv
  <2>3. CASE r \notin Creations
    BY <1>8, <2>1, <2>3, OverlapFrame DEF ChatInv
  <2>. QED BY <2>2, <2>3
<1>12. PairInv' /\ SecondPrivateChatNeedsRace'
  <2>1. \A d \in Creations : pc'[d] \in {"join", "commit"} => pc[d] \in {"join", "commit"}
    BY <1>4, <1>7 DEF Creations
  <2>. QED BY <1>1, <1>8, <2>1, PairFrame DEF ChatInv
<1>13. DropInv'
  BY <1>1, <1>4, <1>7, DropFrame DEF ChatInv
<1>14. EmptierInv'
  <2>1. \A c : \A q \in Requests : Pending(q, c) => Pending(q, c)'
    BY <1>1, <1>7 DEF Pending
  <2>. QED BY <1>1, <2>1, EmptierFrame DEF ChatInv
<1>. QED BY <1>9, <1>10, <1>11, <1>12, <1>13, <1>14 DEF ChatInv

LEMMA FindStep ==
    ASSUME ChatInv, NEW r \in Requests, FindPrivateChat(r)
    PROVE  ChatInv'
<1>1. /\ pc[r] = "find" /\ Kind[r] = "private" /\ r \in Creations /\ Control(r)
      /\ UNCHANGED <<users, chats, members, todo, known, overlap, thinned, emptier, joined>>
  BY Paths DEF FindPrivateChat, ChatInv, ControlInv, db
<1>2. \/ /\ pc' = [pc EXCEPT ![r] = "done"] /\ held' = [held EXCEPT ![r] = {}]
         /\ outcome' \in {[outcome EXCEPT ![r] = "ok"], [outcome EXCEPT ![r] = "error"]}
         /\ target' = target \/ \E c \in chats : target' = [target EXCEPT ![r] = c]
      \/ /\ PrivateChats(r) = {}
         /\ pc' = [pc EXCEPT ![r] = "join"]
         /\ UNCHANGED <<held, outcome, target>>
  BY DEF FindPrivateChat, Return, Goto, PrivateChats
<1>3. \A q \in Requests : q # r =>
        pc'[q] = pc[q] /\ target'[q] = target[q] /\ held'[q] = held[q] /\ outcome'[q] = outcome[q]
  BY <1>2 DEF ChatInv, TypeOK
<1>4. pc'[r] \in {"done", "join"} /\ (pc'[r] = "join" => held'[r] = held[r])
  BY <1>2 DEF ChatInv, TypeOK
<1>5. TypeOK'
  <2>1. pc' \in [Requests -> Labels] /\ held' \in [Requests -> SUBSET users]
    BY <1>2 DEF ChatInv, TypeOK, Labels
  <2>2. outcome' \in [Requests -> {"none", "ok", "error"}]
    BY <1>2 DEF ChatInv, TypeOK
  <2>3. target' \in [Requests -> Creations \cup {None}]
    <3>1. chats \subseteq Creations /\ target \in [Requests -> Creations \cup {None}]
      BY DEF ChatInv, TypeOK
    <3>2. target' = target \/ \E c \in Creations : target' = [target EXCEPT ![r] = c]
      BY <1>2, <3>1
    <3>. QED BY <3>1, <3>2
  <2>4. faults' \in 0..MaxFaults
    BY FaultType DEF FindPrivateChat, ChatInv
  <2>. QED BY <1>1, <2>1, <2>2, <2>3, <2>4 DEF ChatInv, TypeOK
<1>6. ControlInv'
  <2>1. Control(r)'
    BY <1>1, <1>4 DEF Control, Path
  <2>. QED BY <1>1, <1>3, <2>1, ControlStep DEF ChatInv
<1>7. OverlapInv'
  BY <1>1, <1>3, OverlapFrame DEF ChatInv, Active, Creations
<1>8. PairInv' /\ SecondPrivateChatNeedsRace'
  <2>1. CASE pc'[r] = "done"
    BY <1>1, <1>3, <2>1, PairFrame DEF ChatInv, Creations
  <2>2. CASE pc'[r] = "join"
    <3>1. PrivateChats(r) = {}
      BY <1>2, <2>2 DEF ChatInv, TypeOK
    <3>2. \A c \in chats : Kind[c] = "private" /\ Pair(c) = Pair(r) => c \in thinned
      BY <3>1 DEF ChatInv, PairInv, PrivateChats
    <3>3. SecondPrivateChatNeedsRace'
      BY <1>1 DEF ChatInv, SecondPrivateChatNeedsRace, Pair
    <3>4. \A c \in chats, d \in Creations :
            /\ Kind[c] = "private" /\ Kind[d] = "private" /\ Pair(c) = Pair(d)
            /\ pc'[d] \in {"join", "commit"}
            => <<c, d>> \in overlap \/ c \in thinned
      BY <1>3, <3>2 DEF ChatInv, PairInv, Creations
    <3>. QED BY <1>1, <3>3, <3>4 DEF ChatInv, PairInv, Pair
  <2>. QED BY <1>4, <2>1, <2>2
<1>9. DropInv'
  BY <1>1, <1>3, <1>4, DropFrame DEF ChatInv
<1>10. EmptierInv'
  BY <1>1, <1>3, <1>4, EmptierKept DEF ChatInv
<1>. QED BY <1>5, <1>6, <1>7, <1>8, <1>9, <1>10 DEF ChatInv

LEMMA InsertGroupStep ==
    ASSUME ChatInv, NEW r \in Requests, InsertGroup(r)
    PROVE  ChatInv'
<1>1. /\ pc[r] = "insert" /\ Kind[r] = "group" /\ r \in Creations /\ Control(r)
      /\ UNCHANGED <<users, chats, members, target, todo, known, overlap, thinned, emptier, joined>>
  BY Paths DEF InsertGroup, ChatInv, ControlInv, db
<1>2. \/ /\ pc' = [pc EXCEPT ![r] = "join"] /\ outcome' = outcome
         /\ By[r] \in users /\ held' = [held EXCEPT ![r] = {By[r]}]
      \/ /\ pc' = [pc EXCEPT ![r] = "done"] /\ held' = [held EXCEPT ![r] = {}]
         /\ outcome' = [outcome EXCEPT ![r] = "error"]
  BY DEF InsertGroup, Return, Goto
<1>3. /\ \A q \in Requests : q # r =>
           pc'[q] = pc[q] /\ held'[q] = held[q] /\ outcome'[q] = outcome[q]
      /\ pc'[r] \in {"join", "done"}
  BY <1>2 DEF ChatInv, TypeOK
<1>4. TypeOK'
  <2>1. pc' \in [Requests -> Labels] /\ outcome' \in [Requests -> {"none", "ok", "error"}]
    BY <1>2 DEF ChatInv, TypeOK, Labels
  <2>2. held' \in [Requests -> SUBSET users]
    BY <1>2, HeldType DEF ChatInv
  <2>3. faults' \in 0..MaxFaults
    BY FaultType DEF InsertGroup, ChatInv
  <2>. QED BY <1>1, <2>1, <2>2, <2>3 DEF ChatInv, TypeOK
<1>5. ControlInv'
  <2>1. Control(r)'
    BY <1>1, <1>3 DEF Control, Path
  <2>. QED BY <1>1, <1>3, <2>1, ControlStep DEF ChatInv
<1>6. Active(r) /\ Kind[r] # "private"
  BY <1>1 DEF Active
<1>. QED BY <1>1, <1>3, <1>4, <1>5, <1>6, LocalStep

LEMMA JoinStep ==
    ASSUME ChatInv, NEW r \in Requests, JoinNewChat(r)
    PROVE  ChatInv'
<1>1. /\ pc[r] = "join" /\ r \in Creations /\ Control(r)
      /\ UNCHANGED <<users, chats, members, target, known, overlap, thinned, emptier, joined>>
  BY Paths DEF JoinNewChat, ChatInv, ControlInv, db
<1> DEFINE next == IF Len(todo[r]) = 1 THEN "commit" ELSE "join"
<1>2. \/ /\ pc' = [pc EXCEPT ![r] = next] /\ outcome' = outcome
         /\ NextPeople(r) \subseteq users
         /\ held' = [held EXCEPT ![r] = @ \cup NextPeople(r)]
         /\ todo' = [todo EXCEPT ![r] = Tail(@)]
      \/ /\ pc' = [pc EXCEPT ![r] = "done"] /\ held' = [held EXCEPT ![r] = {}]
         /\ outcome' = [outcome EXCEPT ![r] = "error"] /\ todo' = todo
  BY DEF JoinNewChat, Return, Goto
<1>3. /\ Kind[r] \in {"private", "group"}
      /\ Kind[r] = "private" => todo[r] = People[r] /\ held[r] = {} /\ Len(People[r]) = 1
      /\ todo[r] \in Seq(Users) /\ todo[r] # <<>>
  <2>1. Kind[r] \in {"private", "group"} /\ todo[r] \in Seq(Users)
    BY <1>1 DEF ChatInv, TypeOK, Creations
  <2>2. Kind[r] = "private" => todo[r] = People[r] /\ held[r] = {} /\ Len(People[r]) = 1
    BY <1>1, ChatAssumption DEF Control
  <2>3. Len(<<>>) # 1
    OBVIOUS
  <2>. QED BY <1>1, <2>1, <2>2, <2>3 DEF Control
<1>4. /\ Tail(todo[r]) \in Seq(Users)
      /\ Len(todo[r]) # 1 => Tail(todo[r]) # <<>>
  <2>1. /\ Tail(todo[r]) \in Seq(Users) /\ Len(Tail(todo[r])) = Len(todo[r]) - 1
        /\ Len(todo[r]) \in Nat
    BY <1>3, HeadTailProperties, LenProperties
  <2>2. Len(todo[r]) # 1 => Len(Tail(todo[r])) # 0
    BY <2>1
  <2>3. Len(<<>>) = 0
    OBVIOUS
  <2> QED BY <2>1, <2>2, <2>3
<1>5. /\ next \in {"commit", "join"} /\ (next = "join" <=> Len(todo[r]) # 1)
  OBVIOUS
<1> HIDE DEF next
<1>6. /\ \A q \in Requests : q # r =>
           /\ pc'[q] = pc[q] /\ held'[q] = held[q] /\ outcome'[q] = outcome[q]
           /\ todo'[q] = todo[q]
      /\ \/ pc'[r] = next /\ held'[r] = held[r] \cup NextPeople(r) /\ todo'[r] = Tail(todo[r])
         \/ pc'[r] = "done"
  BY <1>2 DEF ChatInv, TypeOK
<1>7. TypeOK'
  <2>1. pc' \in [Requests -> Labels] /\ outcome' \in [Requests -> {"none", "ok", "error"}]
    BY <1>2, <1>5 DEF ChatInv, TypeOK, Labels
  <2>2. held' \in [Requests -> SUBSET users]
    <3>1. held[r] \in SUBSET users
      BY DEF ChatInv, TypeOK
    <3>2. \E S \in SUBSET users : held' = [held EXCEPT ![r] = S]
      BY <1>2, <3>1
    <3>. QED BY <3>2, HeldType DEF ChatInv
  <2>3. todo' \in [Requests -> Seq(Users)]
    BY <1>2, <1>4 DEF ChatInv, TypeOK
  <2>4. faults' \in 0..MaxFaults
    BY FaultType DEF JoinNewChat, ChatInv
  <2>. QED BY <1>1, <2>1, <2>2, <2>3, <2>4 DEF ChatInv, TypeOK
<1>8. ControlInv'
  <2>1. ASSUME pc'[r] = "done" PROVE Control(r)'
    BY <1>1, <2>1 DEF Control
  <2>2. ASSUME pc'[r] = next, held'[r] = held[r] \cup NextPeople(r), todo'[r] = Tail(todo[r])
        PROVE  Control(r)'
    <3>1. CASE Kind[r] = "private"
      <4>1. held'[r] = Pair(r) /\ pc'[r] = "commit"
        BY <1>3, <1>5, <2>2, <3>1 DEF NextPeople
      <4>. QED BY <1>1, <3>1, <4>1 DEF Control, Path, Pair
    <3>2. CASE Kind[r] = "group"
      BY <1>1, <1>4, <1>5, <2>2, <3>2 DEF Control, Path
    <3>. QED BY <1>3, <3>1, <3>2
  <2>3. Control(r)'
    BY <1>6, <2>1, <2>2
  <2>. QED BY <1>1, <1>6, <2>3, ControlStep DEF ChatInv
<1>9. Active(r) /\ pc'[r] # "drop"
  BY <1>1, <1>5, <1>6 DEF Active
<1>. QED BY <1>1, <1>6, <1>7, <1>8, <1>9, LocalStep

LEMMA CommitStep ==
    ASSUME ChatInv, NEW r \in Requests, Commit(r)
    PROVE  ChatInv'
<1>1. /\ pc[r] = "commit" /\ r \in Creations /\ Control(r) /\ r \notin known /\ r \notin chats
      /\ UNCHANGED <<users, todo, overlap, thinned, emptier, joined>>
  <2>1. pc[r] = "commit" /\ r \in Creations /\ Control(r)
    BY Paths DEF Commit, ChatInv, ControlInv
  <2>2. r \notin known /\ chats \subseteq known
    BY <2>1 DEF Control, ChatInv, TypeOK
  <2>. QED BY <2>1, <2>2 DEF Commit
<1>2. /\ pc' = [pc EXCEPT ![r] = "done"] /\ held' = [held EXCEPT ![r] = {}]
      /\ outcome' \in {[outcome EXCEPT ![r] = "ok"], [outcome EXCEPT ![r] = "error"]}
      /\ target' \in {target, [target EXCEPT ![r] = r]}
      /\ \/ /\ chats' = chats \cup {r} /\ members' = [members EXCEPT ![r] = held[r]]
            /\ known' = known \cup {r}
         \/ UNCHANGED <<chats, members, known>>
  BY DEF Commit, Return
<1>3. /\ pc'[r] = "done"
      /\ \A q \in Requests : q # r =>
           /\ pc'[q] = pc[q] /\ held'[q] = held[q] /\ outcome'[q] = outcome[q]
           /\ target'[q] = target[q]
      /\ \A c \in Creations : c # r => members'[c] = members[c]
      /\ r \in chats' => members'[r] = held[r]
  BY <1>1, <1>2 DEF ChatInv, TypeOK
<1>4. TypeOK'
  <2>1. pc' \in [Requests -> Labels] /\ held' \in [Requests -> SUBSET users]
    BY <1>2 DEF ChatInv, TypeOK, Labels
  <2>2. outcome' \in [Requests -> {"none", "ok", "error"}]
    BY <1>2 DEF ChatInv, TypeOK
  <2>3. target' \in [Requests -> Creations \cup {None}]
    BY <1>1, <1>2 DEF ChatInv, TypeOK
  <2>4. /\ members' \in [Creations -> SUBSET users]
        /\ \A c \in Creations \ chats' : members'[c] = {}
        /\ chats' \subseteq known' /\ known' \in SUBSET Creations
    BY <1>1, <1>2 DEF ChatInv, TypeOK
  <2>5. faults' \in 0..MaxFaults
    BY FaultType DEF Commit, ChatInv
  <2>. QED BY <1>1, <2>1, <2>2, <2>3, <2>4, <2>5 DEF ChatInv, TypeOK
<1>5. ControlInv'
  <2>1. Control(r)'
    BY <1>1, <1>3 DEF Control
  <2>2. known \subseteq known' /\ known' \subseteq known \cup {r}
    BY <1>2
  <2>. QED BY <1>1, <1>3, <2>1, <2>2, ControlStep DEF ChatInv
<1>6. OverlapInv'
  BY <1>1, <1>3, OverlapFrame DEF ChatInv, Active, Creations
<1>7. PairInv'
  <2>1. ASSUME NEW c \in chats', Kind[c] = "private"
        PROVE  c \in thinned \/ Pair(c) \subseteq members'[c]
    <3>1. CASE c = r
      BY <1>1, <1>3, <2>1, <3>1 DEF Control
    <3>2. CASE c # r
      <4>1. c \in chats /\ members'[c] = members[c]
        BY <1>2, <1>3, <3>2 DEF ChatInv, TypeOK
      <4>. QED BY <2>1, <4>1 DEF ChatInv, PairInv
    <3>. QED BY <3>1, <3>2
  <2>2. ASSUME NEW c \in chats', NEW d \in Creations,
               Kind[c] = "private", Kind[d] = "private", Pair(c) = Pair(d),
               pc'[d] \in {"join", "commit"}
        PROVE  <<c, d>> \in overlap \/ c \in thinned
    <3>1. d # r /\ pc[d] \in {"join", "commit"}
      BY <1>3, <2>2 DEF Creations
    <3>2. CASE c = r
      BY <1>1, <3>1, <3>2 DEF ChatInv, OverlapInv, Active
    <3>3. CASE c # r
      <4>1. c \in chats
        BY <1>2, <3>3
      <4>. QED BY <2>2, <3>1, <4>1 DEF ChatInv, PairInv
    <3>. QED BY <3>2, <3>3
  <2>. QED BY <1>1, <2>1, <2>2 DEF PairInv, Pair
<1>8. SecondPrivateChatNeedsRace'
  <2> SUFFICES ASSUME NEW c \in chats', NEW d \in chats', c # d,
                      Kind[c] = "private", Kind[d] = "private", Pair(c) = Pair(d)
               PROVE  <<c, d>> \in overlap \/ c \in thinned \/ d \in thinned
    BY <1>1 DEF SecondPrivateChatNeedsRace, Pair
  <2>1. /\ c # r => c \in chats /\ c \in Creations
        /\ d # r => d \in chats /\ d \in Creations
    BY <1>2 DEF ChatInv, TypeOK
  <2>2. CASE d = r
    BY <1>1, <2>1, <2>2 DEF ChatInv, PairInv
  <2>3. CASE c = r
    <3>1. <<d, c>> \in overlap \/ d \in thinned
      BY <1>1, <2>1, <2>3 DEF ChatInv, PairInv
    <3>. QED BY <1>1, <2>1, <2>3, <3>1 DEF ChatInv, OverlapInv
  <2>4. CASE c # r /\ d # r
    BY <2>1, <2>4 DEF ChatInv, SecondPrivateChatNeedsRace
  <2>. QED BY <2>2, <2>3, <2>4
<1>9. DropInv'
  <2>1. ASSUME NEW q \in Requests, Kind[q] = "leave", pc'[q] = "drop"
        PROVE  /\ pc[q] = "drop" /\ target'[q] = target[q]
               /\ members'[target[q]] = members[target[q]]
    <3>1. q # r /\ pc[q] = "drop" /\ target'[q] = target[q]
      BY <1>3, <2>1
    <3>2. target[q] \in known /\ known \subseteq Creations
      BY <3>1, Paths DEF ChatInv, ControlInv, TypeOK
    <3>. QED BY <1>1, <1>3, <3>1, <3>2
  <2>. QED BY <1>1, <2>1, DropFrame DEF ChatInv
<1>10. EmptierInv'
  <2>1. \A c \in known : c # r /\ (c \in chats' <=> c \in chats) /\ members'[c] = members[c]
    BY <1>1, <1>2, <1>3 DEF ChatInv, TypeOK
  <2>2. ASSUME NEW c \in Creations, NEW q \in Requests, Kind[q] = "leave", Pending(q, c)
        PROVE  Pending(q, c)'
    <3>1. q # r
      BY <1>1, <2>2 DEF Creations
    <3>. QED BY <1>3, <2>2, <3>1, PendingElsewhere
  <2>3. known \subseteq known'
    BY <1>2
  <2>. QED BY <1>1, <2>1, <2>2, <2>3, EmptierFrame DEF ChatInv
<1>. QED BY <1>4, <1>5, <1>6, <1>7, <1>8, <1>9, <1>10 DEF ChatInv

LEMMA AddStep ==
    ASSUME ChatInv, NEW r \in Requests, AddParticipant(r)
    PROVE  ChatInv'
<1> DEFINE c == target[r]
           u == Head(todo[r])
<1>1. /\ pc[r] = "add" /\ Kind[r] = "add" /\ r \notin Creations /\ Control(r)
      /\ c \in known /\ c \in Creations /\ todo[r] \in Seq(Users) /\ todo[r] # <<>>
      /\ UNCHANGED <<users, chats, target, known, overlap, thinned, emptier>>
  BY Paths DEF AddParticipant, ChatInv, ControlInv, TypeOK
<1>2. \/ /\ c \in chats /\ u \in users
         /\ members' = [members EXCEPT ![c] = @ \cup {u}]
         /\ joined' = [q \in Requests |->
                         IF pc[q] = "drop" /\ target[q] = c THEN joined[q] \cup {u} ELSE joined[q]]
         /\ todo' = [todo EXCEPT ![r] = Tail(@)]
         /\ UNCHANGED <<pc, outcome, held>>
      \/ /\ pc' = [pc EXCEPT ![r] = "done"] /\ held' = [held EXCEPT ![r] = {}]
         /\ outcome' = [outcome EXCEPT ![r] = "error"]
         /\ UNCHANGED <<members, joined, todo>>
  BY DEF AddParticipant, Return
<1>3. Head(todo[r]) \in Users /\ Tail(todo[r]) \in Seq(Users)
  BY <1>1, HeadTailProperties
<1> HIDE DEF c, u
<1>4. /\ \A q \in Requests : q # r =>
           pc'[q] = pc[q] /\ todo'[q] = todo[q] /\ held'[q] = held[q] /\ outcome'[q] = outcome[q]
      /\ pc'[r] \in {"add", "done"}
      /\ \A d \in Creations : /\ members[d] \subseteq members'[d]
                              /\ \A q \in Requests : pc[q] = "drop" /\ target[q] = d =>
                                   members'[d] \subseteq members[d] \cup joined'[q]
      /\ \A q \in Requests : joined[q] \subseteq joined'[q]
  <2>1. CASE members' = members /\ joined' = joined
    BY <1>1, <1>2, <2>1 DEF ChatInv, TypeOK
  <2>2. CASE /\ members' = [members EXCEPT ![c] = @ \cup {u}]
             /\ joined' = [q \in Requests |-> IF pc[q] = "drop" /\ target[q] = c
                                                THEN joined[q] \cup {u} ELSE joined[q]]
             /\ todo' = [todo EXCEPT ![r] = Tail(@)]
             /\ UNCHANGED <<pc, outcome, held>>
    BY <1>1, <2>2 DEF ChatInv, TypeOK
  <2>. QED BY <1>2, <2>1, <2>2
<1>5. TypeOK'
  <2>1. pc' \in [Requests -> Labels] /\ outcome' \in [Requests -> {"none", "ok", "error"}]
    BY <1>2 DEF ChatInv, TypeOK, Labels
  <2>2. held' \in [Requests -> SUBSET users]
    BY <1>2, HeldType DEF ChatInv, TypeOK
  <2>3. todo' \in [Requests -> Seq(Users)]
    BY <1>1, <1>2, <1>3 DEF ChatInv, TypeOK, u
  <2>4. /\ members' \in [Creations -> SUBSET users]
        /\ \A d \in Creations \ chats : members'[d] = {}
    <3>1. \A d \in Creations : members[d] \in SUBSET users
      BY DEF ChatInv, TypeOK
    <3>2. CASE members' = members
      BY <3>2 DEF ChatInv, TypeOK
    <3>3. CASE c \in chats /\ u \in users /\ members' = [members EXCEPT ![c] = @ \cup {u}]
      <4>1. members[c] \cup {u} \in SUBSET users
        BY <1>1, <3>1, <3>3
      <4>2. \A d \in Creations \ chats : members'[d] = members[d]
        BY <3>3 DEF ChatInv, TypeOK
      <4>3. members \in [Creations -> SUBSET users]
        BY DEF ChatInv, TypeOK
      <4> DEFINE People1 == SUBSET users
                 new == members[c] \cup {u}
      <4>4. members' = [members EXCEPT ![c] = new] /\ new \in People1
        BY <3>3, <4>1
      <4> HIDE DEF People1, new
      <4>5. members' \in [Creations -> People1]
        BY <4>3, <4>4 DEF People1
      <4>. QED BY <4>2, <4>5 DEF People1, ChatInv, TypeOK
    <3>. QED BY <1>2, <3>2, <3>3
  <2>5. joined' \in [Requests -> SUBSET Users]
    <3>1. CASE joined' = joined
      BY <3>1 DEF ChatInv, TypeOK
    <3>2. CASE joined' = [q \in Requests |-> IF pc[q] = "drop" /\ target[q] = c
                                               THEN joined[q] \cup {u} ELSE joined[q]]
      <4>1. u \in Users /\ \A q \in Requests : joined[q] \in SUBSET Users
        BY <1>3 DEF ChatInv, TypeOK, u
      <4>. QED BY <3>2, <4>1
    <3>. QED BY <1>2, <3>1, <3>2
  <2>6. faults' \in 0..MaxFaults
    BY FaultType DEF AddParticipant, ChatInv
  <2>. QED BY <1>1, <2>1, <2>2, <2>3, <2>4, <2>5, <2>6 DEF ChatInv, TypeOK
<1>6. ControlInv'
  <2>1. r \notin known
    BY <1>1 DEF Control
  <2>2. Control(r)'
    BY <1>1, <1>4, <2>1 DEF Control, Path, c
  <2>. QED BY <1>1, <1>4, <2>2, ControlStep DEF ChatInv
<1>7. OverlapInv'
  BY <1>1, <1>4, OverlapFrame DEF ChatInv, Active, Creations
<1>8. PairInv' /\ SecondPrivateChatNeedsRace'
  BY <1>1, <1>4, PairFrame DEF ChatInv, Creations, TypeOK
<1>9. DropInv'
  <2>1. ASSUME NEW q \in Requests, Kind[q] = "leave", pc'[q] = "drop"
        PROVE  /\ pc[q] = "drop" /\ target'[q] = target[q] /\ joined[q] \subseteq joined'[q]
               /\ members'[target[q]] \subseteq members[target[q]] \cup joined'[q]
    <3>1. q # r /\ pc[q] = "drop"
      BY <1>1, <1>4, <2>1
    <3>2. target[q] \in known /\ known \subseteq Creations
      BY <3>1, Paths DEF ChatInv, ControlInv, TypeOK
    <3>. QED BY <1>1, <1>4, <3>1, <3>2
  <2>. QED BY <2>1, DropFrame DEF ChatInv
<1>10. EmptierInv'
  <2>1. \A d : \A q \in Requests : Kind[q] = "leave" /\ Pending(q, d) => Pending(q, d)'
    BY <1>1, <1>4, PendingElsewhere
  <2>2. \A d \in known : d \in chats' /\ members'[d] = {} => d \in chats /\ members[d] = {}
    BY <1>1, <1>4 DEF ChatInv, TypeOK
  <2>. QED BY <1>1, <2>1, <2>2, EmptierFrame DEF ChatInv
<1>. QED BY <1>5, <1>6, <1>7, <1>8, <1>9, <1>10 DEF ChatInv

LEMMA AllAddedStep ==
    ASSUME ChatInv, NEW r \in Requests, AllAdded(r)
    PROVE  ChatInv'
<1>1. /\ pc[r] = "add" /\ Kind[r] = "add" /\ r \notin Creations /\ Control(r)
      /\ UNCHANGED <<users, chats, members, target, todo, faults, known, overlap, thinned,
                     emptier, joined>>
      /\ pc' = [pc EXCEPT ![r] = "done"] /\ held' = [held EXCEPT ![r] = {}]
      /\ outcome' = [outcome EXCEPT ![r] = "ok"]
  BY Paths DEF AllAdded, Return, ChatInv, ControlInv, db
<1>2. /\ \A q \in Requests : q # r =>
           pc'[q] = pc[q] /\ held'[q] = held[q] /\ outcome'[q] = outcome[q]
      /\ pc'[r] = "done"
  BY <1>1 DEF ChatInv, TypeOK
<1>3. TypeOK'
  <2>1. pc' \in [Requests -> Labels] /\ outcome' \in [Requests -> {"none", "ok", "error"}]
    BY <1>1 DEF ChatInv, TypeOK, Labels
  <2>2. held' \in [Requests -> SUBSET users]
    BY <1>1 DEF ChatInv, TypeOK
  <2>. QED BY <1>1, <2>1, <2>2 DEF ChatInv, TypeOK
<1>4. Control(r)'
  BY <1>1, <1>2 DEF Control
<1>. QED BY <1>1, <1>2, <1>3, <1>4, ReturnStep DEF ChatInv

\* DELETE of participants: they go, the histories remember it.
LEMMA WithoutFacts ==
    ASSUME TypeOK, NEW gone \in [Creations -> SUBSET users'], NEW who \in Requests \cup {None},
           Without(gone, who), users' \subseteq users,
           \A c \in Creations : gone[c] \subseteq members[c]
    PROVE  /\ members' \in [Creations -> SUBSET users']
           /\ \A c \in Creations \ chats : members'[c] = {}
           /\ thinned' \in SUBSET Creations /\ thinned \subseteq thinned'
           /\ emptier' \in [Creations -> Requests \cup {None}]
           /\ \A c \in Creations :
                /\ members'[c] \subseteq members[c]
                /\ members'[c] = members[c] \/ c \in thinned'
                /\ emptier'[c] = IF members[c] # {} /\ members'[c] = {} THEN who ELSE emptier[c]
<1>1. /\ members' = gone /\ thinned' = thinned \cup {c \in Creations : gone[c] # members[c]}
      /\ emptier' = [c \in Creations |->
                       IF members[c] # {} /\ gone[c] = {} THEN who ELSE emptier[c]]
  BY DEF Without
<1>2. emptier' \in [Creations -> Requests \cup {None}]
  BY <1>1 DEF TypeOK
<1>3. thinned' \in SUBSET Creations /\ thinned \subseteq thinned'
  BY <1>1 DEF TypeOK
<1>4. \A c \in Creations \ chats : members'[c] = {}
  BY <1>1 DEF TypeOK
<1>. QED BY <1>1, <1>2, <1>3, <1>4

LEMMA RemoveStep ==
    ASSUME ChatInv, NEW r \in Requests, RemoveParticipants(r)
    PROVE  ChatInv'
<1> DEFINE c == target[r]
           gone == [members EXCEPT ![c] = @ \ Removed(r)]
<1>1. /\ pc[r] = "remove" /\ Kind[r] \in {"remove", "leave"} /\ r \notin Creations
      /\ Control(r) /\ c \in known /\ c \in Creations
      /\ UNCHANGED <<users, chats, target, todo, known, overlap, joined>>
  BY Paths DEF RemoveParticipants, ChatInv, ControlInv, TypeOK
<1>2. CASE /\ UNCHANGED <<members, thinned, emptier>> /\ Fault /\ Return(r, "error")
  <2>1. /\ pc' = [pc EXCEPT ![r] = "done"] /\ held' = [held EXCEPT ![r] = {}]
        /\ outcome' = [outcome EXCEPT ![r] = "error"]
    BY <1>2 DEF Return
  <2>2. /\ \A q \in Requests : q # r =>
             pc'[q] = pc[q] /\ held'[q] = held[q] /\ outcome'[q] = outcome[q]
        /\ pc'[r] = "done" /\ outcome'[r] = "error"
    BY <2>1 DEF ChatInv, TypeOK
  <2>3. TypeOK'
    <3>1. pc' \in [Requests -> Labels] /\ outcome' \in [Requests -> {"none", "ok", "error"}]
      BY <2>1 DEF ChatInv, TypeOK, Labels
    <3>2. held' \in [Requests -> SUBSET users]
      BY <2>1 DEF ChatInv, TypeOK
    <3>3. faults' \in 0..MaxFaults
      BY <1>2, FaultType DEF ChatInv
    <3>. QED BY <1>1, <1>2, <3>1, <3>2, <3>3 DEF ChatInv, TypeOK
  <2>4. Control(r)'
    BY <1>1, <2>2 DEF Control
  <2>. QED BY <1>1, <1>2, <2>2, <2>3, <2>4, ReturnStep DEF ChatInv
<1>3. CASE /\ Without(gone, r) /\ NoFault
           /\ IF Kind[r] = "leave" THEN Goto(r, "count") /\ UNCHANGED held ELSE Return(r, "ok")
  <2>1. /\ \A q \in Requests : q # r =>
             pc'[q] = pc[q] /\ held'[q] = held[q] /\ outcome'[q] = outcome[q]
        /\ pc'[r] = IF Kind[r] = "leave" THEN "count" ELSE "done"
    BY <1>3 DEF ChatInv, TypeOK, Goto, Return
  <2>2. gone \in [Creations -> SUBSET users] /\ \A d \in Creations : gone[d] \subseteq members[d]
    BY <1>1 DEF ChatInv, TypeOK
  <2>3. \A d \in Creations : d # c => gone[d] = members[d]
    BY <1>1 DEF ChatInv, TypeOK
  <2> HIDE DEF gone
  <2>4. /\ members' \in [Creations -> SUBSET users]
        /\ \A d \in Creations \ chats : members'[d] = {}
        /\ thinned' \in SUBSET Creations /\ thinned \subseteq thinned'
        /\ emptier' \in [Creations -> Requests \cup {None}]
        /\ \A d \in Creations :
             /\ members'[d] \subseteq members[d]
             /\ members'[d] = members[d] \/ d \in thinned'
             /\ emptier'[d] = IF members[d] # {} /\ members'[d] = {} THEN r ELSE emptier[d]
    BY <1>1, <1>3, <2>2, WithoutFacts DEF ChatInv
  <2>5. \A d \in Creations : d # c => members'[d] = members[d]
    BY <1>3, <2>3 DEF Without
  <2>6. TypeOK'
    <3>1. pc' \in [Requests -> Labels] /\ outcome' \in [Requests -> {"none", "ok", "error"}]
      BY <1>3 DEF ChatInv, TypeOK, Labels, Goto, Return
    <3>2. held' \in [Requests -> SUBSET users]
      BY <1>3 DEF ChatInv, TypeOK, Goto, Return
    <3>3. faults' \in 0..MaxFaults
      BY <1>3, FaultType DEF ChatInv
    <3>. QED BY <1>1, <2>4, <3>1, <3>2, <3>3 DEF ChatInv, TypeOK
  <2>7. ControlInv'
    <3>1. Control(r)'
      BY <1>1, <2>1 DEF Control, Path, c
    <3>2. \A q \in Requests : q # r => target'[q] = target[q] /\ todo'[q] = todo[q]
      BY <1>1
    <3>. QED BY <1>1, <2>1, <3>1, <3>2, ControlStep DEF ChatInv
  <2>8. OverlapInv'
    BY <1>1, <2>1, OverlapFrame DEF ChatInv, Active, Creations
  <2>9. PairInv' /\ SecondPrivateChatNeedsRace'
    <3>1. chats \subseteq Creations
      BY DEF ChatInv, TypeOK
    <3>2. \A d \in Creations : Kind[d] = "private" /\ pc'[d] \in {"join", "commit"} =>
            pc[d] \in {"join", "commit"}
      BY <1>1, <2>1 DEF Creations
    <3>. QED BY <1>1, <2>4, <3>1, <3>2, PairFrame DEF ChatInv
  <2>10. DropInv'
    <3>1. ASSUME NEW q \in Requests, Kind[q] = "leave", pc'[q] = "drop"
          PROVE  pc[q] = "drop" /\ members'[target[q]] \subseteq members[target[q]]
      <4>1. pc[q] = "drop"
        BY <2>1, <3>1
      <4>2. target[q] \in known /\ known \subseteq Creations
        BY <4>1, Paths DEF ChatInv, ControlInv, TypeOK
      <4>. QED BY <2>4, <4>1, <4>2
    <3>. QED BY <1>1, <3>1, DropFrame DEF ChatInv
  <2>11. EmptierInv'
    <3>1. ASSUME NEW d \in Creations, NEW q \in Requests, emptier'[d] = q
          PROVE  /\ d \in known'
                 /\ d \in chats' /\ members'[d] = {} /\ Kind[q] = "leave" => Pending(q, d)'
      <4>0. q # None
        BY ChatAssumption
      <4>1. CASE members[d] # {} /\ members'[d] = {}
        <5>1. d = c /\ q = r
          BY <2>4, <2>5, <3>1, <4>1
        <5>2. Kind[r] = "leave" => pc'[r] = "count"
          BY <2>1
        <5>. QED BY <1>1, <5>1, <5>2 DEF Pending, c
      <4>2. CASE ~(members[d] # {} /\ members'[d] = {})
        <5>1. emptier[d] = q
          BY <2>4, <3>1, <4>2
        <5>2. d \in known
          BY <4>0, <5>1 DEF ChatInv, EmptierInv
        <5>3. ASSUME d \in chats', members'[d] = {}, Kind[q] = "leave" PROVE Pending(q, d)'
          <6>1. Pending(q, d)
            BY <1>1, <4>0, <4>2, <5>1, <5>3 DEF ChatInv, EmptierInv, Pending
          <6>2. q # r
            BY <1>1, <6>1 DEF Pending
          <6>. QED BY <1>1, <2>1, <6>1, <6>2, PendingElsewhere
        <5>. QED BY <1>1, <5>2, <5>3
      <4>. QED BY <4>1, <4>2
    <3>2. \A d \in Creations : emptier'[d] \in Requests \cup {None}
      BY <2>4
    <3>. QED BY <3>1, <3>2, EmptierFrom
  <2>. QED BY <2>6, <2>7, <2>8, <2>9, <2>10, <2>11 DEF ChatInv
<1>. QED BY <1>2, <1>3 DEF RemoveParticipants

LEMMA CountStep ==
    ASSUME ChatInv, NEW r \in Requests, CountParticipants(r)
    PROVE  ChatInv'
<1>1. /\ pc[r] = "count" /\ Kind[r] = "leave" /\ r \notin Creations /\ Control(r)
      /\ UNCHANGED <<users, chats, members, target, todo, known, overlap, thinned, emptier, joined>>
      /\ Fault \/ NoFault
  BY Paths DEF CountParticipants, ChatInv, ControlInv, db
<1>2. CASE /\ Return(r, "ok") \/ Return(r, "error")
           /\ Return(r, "error") \/ members[target[r]] # {}
  <2>1. /\ pc' = [pc EXCEPT ![r] = "done"] /\ held' = [held EXCEPT ![r] = {}]
        /\ outcome' \in {[outcome EXCEPT ![r] = "ok"], [outcome EXCEPT ![r] = "error"]}
    BY <1>2 DEF Return
  <2>2. /\ \A q \in Requests : q # r =>
             pc'[q] = pc[q] /\ held'[q] = held[q] /\ outcome'[q] = outcome[q]
        /\ pc'[r] = "done"
    BY <2>1 DEF ChatInv, TypeOK
  <2>3. outcome'[r] = "error" \/ members[target[r]] # {}
    BY <1>2 DEF Return, ChatInv, TypeOK
  <2>4. TypeOK'
    <3>1. pc' \in [Requests -> Labels] /\ outcome' \in [Requests -> {"none", "ok", "error"}]
      BY <2>1 DEF ChatInv, TypeOK, Labels
    <3>2. held' \in [Requests -> SUBSET users]
      BY <2>1 DEF ChatInv, TypeOK
    <3>3. faults' \in 0..MaxFaults
      BY <1>1, FaultType DEF ChatInv
    <3>. QED BY <1>1, <3>1, <3>2, <3>3 DEF ChatInv, TypeOK
  <2>5. Control(r)'
    BY <1>1, <2>2 DEF Control
  <2>. QED BY <1>1, <2>2, <2>3, <2>4, <2>5, ReturnStep
<1>3. CASE members[target[r]] = {} /\ Goto(r, "drop") /\ NoFault /\ UNCHANGED held
  <2>1. /\ pc' = [pc EXCEPT ![r] = "drop"] /\ UNCHANGED <<held, outcome, faults>>
        /\ pc'[r] = "drop" /\ \A q \in Requests : q # r => pc'[q] = pc[q]
    BY <1>3 DEF Goto, NoFault, ChatInv, TypeOK
  <2>2. TypeOK'
    <3>1. pc' \in [Requests -> Labels]
      BY <2>1 DEF ChatInv, TypeOK, Labels
    <3>. QED BY <1>1, <2>1, <3>1 DEF ChatInv, TypeOK
  <2>3. Control(r)'
    BY <1>1, <2>1 DEF Control, Path
  <2>4. ControlInv'
    BY <1>1, <2>1, <2>3, ControlStep DEF ChatInv
  <2>5. OverlapInv'
    BY <1>1, <2>1, OverlapFrame DEF ChatInv, Active, Creations
  <2>6. PairInv' /\ SecondPrivateChatNeedsRace'
    BY <1>1, <2>1, PairFrame DEF ChatInv, Creations
  <2>7. DropInv'
    BY <1>1, <1>3, <2>1 DEF ChatInv, DropInv
  <2>8. EmptierInv'
    <3>1. \A c : \A q \in Requests : Pending(q, c) => Pending(q, c)'
      BY <1>1, <2>1 DEF Pending
    <3>. QED BY <1>1, <3>1, EmptierFrame DEF ChatInv
  <2>. QED BY <2>2, <2>4, <2>5, <2>6, <2>7, <2>8 DEF ChatInv
<1>. QED BY <1>2, <1>3 DEF CountParticipants

LEMMA DeleteChatStep ==
    ASSUME ChatInv, NEW r \in Requests, DeleteChat(r)
    PROVE  ChatInv'
<1> DEFINE c == target[r]
<1>1. /\ pc[r] = "drop" /\ Kind[r] \in {"leave", "delete"} /\ r \notin Creations /\ Control(r)
      /\ c \in known /\ c \in Creations
      /\ UNCHANGED <<users, target, todo, known, overlap, thinned, emptier, joined>>
  BY Paths DEF DeleteChat, ChatInv, ControlInv, TypeOK
<1>2. /\ pc' = [pc EXCEPT ![r] = "done"] /\ held' = [held EXCEPT ![r] = {}]
      /\ outcome' \in {[outcome EXCEPT ![r] = "ok"], [outcome EXCEPT ![r] = "error"]}
  BY DEF DeleteChat, Return
<1>3. /\ \A q \in Requests : q # r =>
           pc'[q] = pc[q] /\ held'[q] = held[q] /\ outcome'[q] = outcome[q]
      /\ pc'[r] = "done"
  BY <1>2 DEF ChatInv, TypeOK
<1>4. faults' \in 0..MaxFaults
  BY FaultType DEF DeleteChat, ChatInv
<1>5. Control(r)'
  BY <1>1, <1>3 DEF Control
<1>6. /\ pc' \in [Requests -> Labels] /\ outcome' \in [Requests -> {"none", "ok", "error"}]
      /\ held' \in [Requests -> SUBSET users]
  <2>1. pc' \in [Requests -> Labels]
    BY <1>2 DEF ChatInv, TypeOK, Labels
  <2>2. outcome' \in [Requests -> {"none", "ok", "error"}]
    BY <1>2 DEF ChatInv, TypeOK
  <2>3. held' \in [Requests -> SUBSET users]
    BY <1>2 DEF ChatInv, TypeOK
  <2>. QED BY <2>1, <2>2, <2>3
<1>7. CASE UNCHANGED <<chats, members>> /\ Return(r, "error")
  <2>1. TypeOK'
    BY <1>1, <1>4, <1>6, <1>7 DEF ChatInv, TypeOK
  <2>2. outcome'[r] = "error"
    BY <1>7 DEF Return, ChatInv, TypeOK
  <2>. QED BY <1>1, <1>3, <1>5, <1>7, <2>1, <2>2, ReturnStep
<1>8. CASE chats' = chats \ {c} /\ members' = [members EXCEPT ![c] = {}]
  <2>1. \A d \in Creations : members'[d] = IF d = c THEN {} ELSE members[d]
    BY <1>1, <1>8 DEF ChatInv, TypeOK
  <2>2. TypeOK'
    <3>1. /\ members' \in [Creations -> SUBSET users]
          /\ \A d \in Creations \ chats' : members'[d] = {}
          /\ chats' \subseteq known
      BY <1>1, <1>8 DEF ChatInv, TypeOK
    <3>. QED BY <1>1, <1>4, <1>6, <3>1 DEF ChatInv, TypeOK
  <2>3. ControlInv'
    BY <1>1, <1>3, <1>5, ControlStep DEF ChatInv
  <2>4. OverlapInv'
    BY <1>1, <1>3, OverlapFrame DEF ChatInv, Active, Creations
  <2>5. PairInv' /\ SecondPrivateChatNeedsRace'
    <3>1. chats' \subseteq chats /\ \A d \in chats' : members'[d] = members[d]
      BY <1>8, <2>1 DEF ChatInv, TypeOK
    <3>. QED BY <1>1, <1>3, <3>1, PairFrame DEF ChatInv, Creations
  <2>6. DropInv'
    <3>1. ASSUME NEW q \in Requests, Kind[q] = "leave", pc'[q] = "drop"
          PROVE  pc[q] = "drop" /\ members'[target[q]] \subseteq members[target[q]]
      <4>1. pc[q] = "drop"
        BY <1>3, <3>1
      <4>2. target[q] \in known /\ known \subseteq Creations
        BY <4>1, Paths DEF ChatInv, ControlInv, TypeOK
      <4>. QED BY <2>1, <4>1, <4>2
    <3>. QED BY <1>1, <3>1, DropFrame DEF ChatInv
  <2>7. EmptierInv'
    <3>1. \A d \in known : d \in chats' /\ members'[d] = {} => d \in chats /\ members[d] = {}
      BY <1>8, <2>1 DEF ChatInv, TypeOK
    <3>2. ASSUME NEW d \in Creations, NEW q \in Requests, d \in chats', Pending(q, d)
          PROVE  Pending(q, d)'
      <4>1. q # r
        BY <1>8, <3>2 DEF Pending
      <4>. QED BY <1>1, <1>3, <3>2, <4>1, PendingElsewhere
    <3>. QED BY <1>1, <3>1, <3>2, EmptierFrame DEF ChatInv
  <2>. QED BY <2>2, <2>3, <2>4, <2>5, <2>6, <2>7 DEF ChatInv
<1>. QED BY <1>7, <1>8 DEF DeleteChat

LEMMA DeleteUserStep ==
    ASSUME ChatInv, NEW u \in Users, DeleteUser(u)
    PROVE  ChatInv'
<1> DEFINE gone == [c \in Creations |-> members[c] \ {u}]
<1>1. /\ users' = users \ {u} /\ \A r \in Requests : u \notin held[r]
      /\ Without(gone, None)
      /\ UNCHANGED <<chats, pc, target, todo, held, outcome, faults, known, overlap, joined>>
  BY DEF DeleteUser, local
<1>2. gone \in [Creations -> SUBSET users'] /\ \A c \in Creations : gone[c] \subseteq members[c]
  BY <1>1 DEF ChatInv, TypeOK
<1> HIDE DEF gone
<1>3. /\ members' \in [Creations -> SUBSET users']
      /\ \A c \in Creations \ chats : members'[c] = {}
      /\ thinned' \in SUBSET Creations /\ thinned \subseteq thinned'
      /\ emptier' \in [Creations -> Requests \cup {None}]
      /\ \A c \in Creations :
           /\ members'[c] \subseteq members[c]
           /\ members'[c] = members[c] \/ c \in thinned'
           /\ emptier'[c] = IF members[c] # {} /\ members'[c] = {} THEN None ELSE emptier[c]
  BY <1>1, <1>2, WithoutFacts DEF ChatInv
<1>4. TypeOK'
  <2>1. users' \in SUBSET Users /\ held' \in [Requests -> SUBSET users']
    BY <1>1 DEF ChatInv, TypeOK
  <2>. QED BY <1>1, <1>3, <2>1 DEF ChatInv, TypeOK
<1>5. ControlInv'
  BY <1>1 DEF ChatInv, ControlInv, Control, Pair
<1>6. OverlapInv'
  BY <1>1, OverlapFrame DEF ChatInv, Active
<1>7. PairInv' /\ SecondPrivateChatNeedsRace'
  <2>1. chats \subseteq Creations
    BY DEF ChatInv, TypeOK
  <2>. QED BY <1>1, <1>3, <2>1, PairFrame DEF ChatInv
<1>8. DropInv'
  <2>1. ASSUME NEW q \in Requests, Kind[q] = "leave", pc'[q] = "drop"
        PROVE  pc[q] = "drop" /\ members'[target[q]] \subseteq members[target[q]]
    <3>1. target[q] \in known /\ known \subseteq Creations
      BY <1>1, <2>1, Paths DEF ChatInv, ControlInv, TypeOK
    <3>. QED BY <1>1, <1>3, <2>1, <3>1
  <2>. QED BY <1>1, <2>1, DropFrame DEF ChatInv
<1>9. EmptierInv'
  <2>1. ASSUME NEW c \in Creations, NEW r \in Requests, emptier'[c] = r
        PROVE  /\ c \in known'
               /\ c \in chats' /\ members'[c] = {} /\ Kind[r] = "leave" => Pending(r, c)'
    <3>1. r # None
      BY ChatAssumption
    <3>2. emptier[c] = r /\ (members'[c] = {} => members[c] = {})
      BY <1>3, <2>1, <3>1
    <3>3. c \in known
      BY <3>1, <3>2 DEF ChatInv, EmptierInv
    <3>4. c \in chats /\ members[c] = {} /\ Kind[r] = "leave" => Pending(r, c)
      BY <3>1, <3>2 DEF ChatInv, EmptierInv, Pending
    <3>. QED BY <1>1, <3>2, <3>3, <3>4, PendingElsewhere
  <2>2. \A c \in Creations : emptier'[c] \in Requests \cup {None}
    BY <1>3
  <2>. QED BY <2>1, <2>2, EmptierFrom
<1>. QED BY <1>4, <1>5, <1>6, <1>7, <1>8, <1>9 DEF ChatInv

-----------------------------------------------------------------------------
LEMMA ChatInitially == Init => ChatInv
<1> SUFFICES ASSUME Init PROVE ChatInv
  OBVIOUS
<1>1. TypeOK
  BY ChatAssumption DEF Init, TypeOK, Labels
<1>2. ControlInv
  BY DEF Init, ControlInv, Control
<1>3. OverlapInv /\ DropInv
  BY DEF Init, OverlapInv, Active, DropInv, Creations
<1>4. PairInv /\ SecondPrivateChatNeedsRace /\ EmptierInv
  BY DEF Init, PairInv, SecondPrivateChatNeedsRace, EmptierInv
<1>. QED BY <1>1, <1>2, <1>3, <1>4 DEF ChatInv

LEMMA ChatNext == ChatInv /\ [Next]_vars => ChatInv'
<1> SUFFICES ASSUME ChatInv, [Next]_vars PROVE ChatInv'
  OBVIOUS
<1>1. ASSUME NEW r \in Requests, Handler(r) PROVE ChatInv'
  BY <1>1, StartStep, FindStep, InsertGroupStep, JoinStep, CommitStep, AddStep, AllAddedStep,
     RemoveStep, CountStep, DeleteChatStep DEF Handler
<1>2. ASSUME NEW u \in Users, DeleteUser(u) PROVE ChatInv'
  BY <1>2, DeleteUserStep
<1>3. CASE UNCHANGED vars
  <2>1. UNCHANGED <<users, chats, members, pc, target, todo, held, outcome, faults, known,
                    overlap, thinned, emptier, joined>>
    BY <1>3 DEF vars, db, local
  <2>2. TypeOK'
    BY <2>1 DEF ChatInv, TypeOK
  <2>3. ControlInv' /\ OverlapInv' /\ DropInv'
    BY <2>1 DEF ChatInv, ControlInv, Control, Pair, OverlapInv, Active, DropInv
  <2>4. PairInv' /\ SecondPrivateChatNeedsRace'
    BY <2>1, PairFrame DEF ChatInv
  <2>5. EmptierInv'
    BY <2>1 DEF ChatInv, EmptierInv, Pending
  <2>. QED BY <2>2, <2>3, <2>4, <2>5 DEF ChatInv
<1>. QED BY <1>1, <1>2, <1>3 DEF Next, Idle

THEOREM ChatInvariance == Spec => []ChatInv
BY ChatInitially, ChatNext, PTL DEF Spec

\* Types hold in every reachable state, with what the schema's foreign keys
\* keep: participants are users, and only chats that are there have any
\* (migrations/001_init.up.sql 33-39).
THEOREM ChatTypeCorrect == Spec => []TypeOK
<1>1. ChatInv => TypeOK
  BY DEF ChatInv
<1>. QED BY <1>1, ChatInvariance, PTL

\* Two users get a second private chat only from creations that ran at the same
\* time, or after one of the first was taken out, whatever other requests do
\* between the SELECT of CreatePrivateChat and its COMMIT
\* (chat_repository.go 36-57).
THEOREM OnePrivateChat == Spec => []SecondPrivateChatNeedsRace
<1>1. ChatInv => SecondPrivateChatNeedsRace
  BY DEF ChatInv
<1>. QED BY <1>1, ChatInvariance, PTL

\* However many leave at once, the last to go deletes the chat: a leaving
\* request that emptied it does not return before it has seen that
\* (chat_service.go LeaveGroup 79-100).
THEOREM LastLeaver == Spec => []LastLeaverDeletes
<1>1. ChatInv => LastLeaverDeletes
  <2> SUFFICES ASSUME ChatInv, NEW c \in chats, members[c] = {}, emptier[c] # None,
                      Kind[emptier[c]] = "leave"
               PROVE  ~(pc[emptier[c]] = "done" /\ outcome[emptier[c]] = "ok")
    BY DEF LastLeaverDeletes
  <2>1. Pending(emptier[c], c)
    BY DEF ChatInv, EmptierInv, TypeOK
  <2>. QED BY <2>1 DEF Pending
<1>. QED BY <1>1, ChatInvariance, PTL

\* Whom LeaveGroup deletes with the chat was added between its COUNT and its
\* DELETE (chat_service.go 86-97); nobody it has counted goes.
THEOREM LeaveSpares == Spec => LeaveSparesOthers
<1>1. ChatInv /\ [Next]_vars =>
        [\A r \in Requests :
           /\ Kind[r] = "leave" /\ pc[r] = "drop"
           /\ target[r] \in chats \ chats'
           /\ outcome'[r] # outcome[r]
           => members[target[r]] \subseteq joined[r]]_vars
  BY DEF ChatInv, DropInv
<1>. QED BY <1>1, ChatInvariance, PTL DEF Spec, LeaveSparesOthers

-----------------------------------------------------------------------------
(* RateLimiter                                                             *)

\* The part of LimiterTypeOK the refinement rests on: what the map may hold.
MapInv ==
    /\ clients \in [Callers -> Entries \cup {Absent}]
    /\ answer \in [Callers -> BOOLEAN]

\* An entry is a record and Absent is not one.
LEMMA AbsentIsNoEntry == Absent \notin Entries
BY LimiterAssumption DEF Entries, Resets

\* Each step of the limiter keeps counts and resets within their ranges.
LEMMA MapInvNext == MapInv /\ [LimiterNext]_limiterVars => MapInv'
<1> SUFFICES ASSUME MapInv, [LimiterNext]_limiterVars PROVE MapInv'
    OBVIOUS
<1> USE DEF MapInv
<1>1. ASSUME NEW u \in Callers, Allow(u) PROVE MapInv'
  <2>1. Touch(clients[u]) \in Entries
    BY LimiterAssumption
       DEF Touch, Over, Increment, Entries, Resets
  <2>. QED BY <1>1, <2>1, LimiterAssumption DEF Allow
<1>2. CASE Cleanup
  BY <1>2 DEF Cleanup
<1>3. CASE Tick
  <2>1. \A u \in Callers : Later(clients[u]) \in Entries \cup {Absent}
    BY LimiterAssumption DEF Later, Entries, Resets
  <2>. QED BY <1>3, <2>1 DEF Tick
<1>4. CASE UNCHANGED limiterVars
  BY <1>4 DEF limiterVars
<1>. QED BY <1>1, <1>2, <1>3, <1>4 DEF LimiterNext

\* The map is well formed in every reachable state.
THEOREM MapCorrect == LimiterSpec => []MapInv
<1>1. LimiterInit => MapInv
  BY DEF LimiterInit, MapInv
<1>. QED BY <1>1, MapInvNext, PTL DEF LimiterSpec

-----------------------------------------------------------------------------
\* How many ticks ago the window of an entry began.
Since(c) == Window - c.reset

\* A window that is on has counted what was admitted since it began; of what
\* was admitted earlier, no more than one quota is young enough to matter.
\* What no window that is on has counted was not admitted in this tick.
UserInv(c, n) ==
    /\ c = Absent => \A a \in Ages : n[a] <= Limit
    /\ c # Absent => \A a \in Ages :
           IF a <= Since(c) THEN n[a] <= Limit /\ n[a] <= c.count
           ELSE n[a] <= n[Since(c)] + Limit
    /\ c = Absent \/ Over(c) => n[0] = 0

WindowsInv == \A u \in Callers : UserInv(clients[u], admitted[u])

LimiterInv == LimiterTypeOK /\ WindowsInv

\* Allow starts a window only when all that is young enough was counted by one
\* window, and adds to a window only what its count leaves room for.
LEMMA AllowKeepsQuota ==
    ASSUME NEW c \in Entries \cup {Absent}, NEW n \in [Ages -> Nat],
           UserInv(c, n)
    PROVE  /\ Touch(c).count <= Limit => UserInv(Touch(c), [a \in Ages |-> n[a] + 1])
           /\ Touch(c).count > Limit => UserInv(Touch(c), n)
<1>1. /\ Limit \in Nat /\ Limit >= 1 /\ Window \in Nat /\ Window >= 1 /\ Grace \in Nat
      /\ Absent \notin Entries
  BY LimiterAssumption, AbsentIsNoEntry
<1>2. c # Absent => /\ c.count \in 1..(Limit + 1) /\ c.reset \in Int /\ c.reset <= Window
                    /\ c = [count |-> c.count, reset |-> c.reset]
  BY <1>1 DEF Entries, Resets
<1>3. \A a \in Ages : a \in Nat /\ a <= Window /\ n[a] \in Nat
  BY <1>1 DEF Ages
<1>4. CASE c = Absent \/ Over(c)
  <2>1. Touch(c) = [count |-> 1, reset |-> Window] /\ Touch(c) # Absent
    BY <1>1, <1>4 DEF Touch, Entries, Resets
  <2>2. Since(Touch(c)) = 0 /\ ~Over(Touch(c)) /\ Touch(c).count = 1
    BY <1>1, <2>1 DEF Since, Over
  <2>3. n[0] = 0 /\ 0 \in Ages
    BY <1>1, <1>4 DEF UserInv, Ages
  <2>4. \A a \in Ages : n[a] <= Limit
    BY <1>1, <1>2, <1>3, <1>4 DEF UserInv, Since, Over
  <2> QED BY <1>1, <1>3, <2>1, <2>2, <2>3, <2>4 DEF UserInv
<1>5. CASE c # Absent /\ ~Over(c)
  <2>0. Increment(c.count) \in 1..(Limit + 1)
    BY <1>1, <1>2, <1>5 DEF Increment
  <2>1. Touch(c) = [count |-> Increment(c.count), reset |-> c.reset] /\ Touch(c) # Absent
    <3>1. Touch(c) = [c EXCEPT !.count = Increment(@)]
      BY <1>5 DEF Touch
    <3>2. [count |-> Increment(c.count), reset |-> c.reset] \in Entries
      BY <1>5, <2>0 DEF Entries
    <3> QED BY <1>1, <1>2, <1>5, <3>1, <3>2
  <2>2. Since(Touch(c)) = Since(c) /\ ~Over(Touch(c)) /\ Since(c) \in Ages
    BY <1>1, <1>2, <1>5, <2>1 DEF Since, Over, Ages
  <2>3. /\ Touch(c).count <= Limit => Touch(c).count = c.count + 1
        /\ c.count <= Touch(c).count /\ Touch(c).count \in Int
    BY <1>1, <1>2, <1>5, <2>0, <2>1 DEF Increment
  <2>4. \A a \in Ages :
            IF a <= Since(c) THEN n[a] <= Limit /\ n[a] <= c.count
            ELSE n[a] <= n[Since(c)] + Limit
    BY <1>5 DEF UserInv
  <2>5. ASSUME Touch(c).count <= Limit
        PROVE  UserInv(Touch(c), [a \in Ages |-> n[a] + 1])
    <3> DEFINE m == [a \in Ages |-> n[a] + 1]
    <3>1. \A a \in Ages : m[a] = n[a] + 1
      OBVIOUS
    <3>2. ASSUME NEW a \in Ages
          PROVE  IF a <= Since(c) THEN m[a] <= Limit /\ m[a] <= Touch(c).count
                 ELSE m[a] <= m[Since(c)] + Limit
      <4> HIDE DEF m
      <4> QED BY <1>1, <1>2, <1>3, <1>5, <2>2, <2>3, <2>4, <2>5, <3>1
    <3> QED BY <2>1, <2>2, <3>2 DEF UserInv
  <2>6. ASSUME Touch(c).count > Limit PROVE UserInv(Touch(c), n)
    <3>1. \A a \in Ages : a <= Since(c) => n[a] <= Limit /\ n[a] <= Touch(c).count
      BY <1>2, <1>3, <1>5, <2>3, <2>4
    <3> QED BY <2>1, <2>2, <2>4, <3>1 DEF UserInv
  <2> QED BY <2>5, <2>6
<1> QED BY <1>4, <1>5

\* With each tick everything admitted ages, the windows with it.
LEMMA TickKeepsQuota ==
    ASSUME NEW c \in Entries \cup {Absent}, NEW n \in [Ages -> Nat],
           UserInv(c, n)
    PROVE  UserInv(Later(c), [a \in Ages |-> IF a = 0 THEN 0 ELSE n[a - 1]])
<1> DEFINE m == [a \in Ages |-> IF a = 0 THEN 0 ELSE n[a - 1]]
<1>1. /\ Limit \in Nat /\ Limit >= 1 /\ Window \in Nat /\ Window >= 1 /\ Grace \in Nat
      /\ Absent \notin Entries
  BY LimiterAssumption, AbsentIsNoEntry
<1>2. c # Absent => /\ c.count \in 1..(Limit + 1) /\ c.reset \in Int /\ c.reset <= Window
                    /\ c = [count |-> c.count, reset |-> c.reset]
                    /\ c.reset >= -Grace - 1
  BY <1>1 DEF Entries, Resets
<1>3. \A a \in Ages : /\ a \in Nat /\ a <= Window /\ n[a] \in Nat
                      /\ a # 0 => a - 1 \in Ages /\ m[a] = n[a - 1]
  BY <1>1 DEF Ages
<1>4. 0 \in Ages /\ m[0] = 0
  BY <1>1 DEF Ages
<1> HIDE DEF m
<1>5. CASE c = Absent
  BY <1>1, <1>3, <1>4, <1>5 DEF UserInv, Later
<1>6. CASE c # Absent
  <2>1. \A a \in Ages :
            IF a <= Since(c) THEN n[a] <= Limit /\ n[a] <= c.count
            ELSE n[a] <= n[Since(c)] + Limit
    BY <1>6 DEF UserInv
  <2>2. /\ Later(c).count = c.count /\ Later(c) # Absent
        /\ Later(c).reset = IF c.reset = -Grace - 1 THEN c.reset ELSE c.reset - 1
    BY <1>1, <1>2, <1>6 DEF Later, Entries, Resets
  <2>3. Since(c) \in Int /\ Since(c) >= 0 /\ Since(Later(c)) \in Int
    BY <1>1, <1>2, <1>6, <2>2 DEF Since
  <2>4. Since(Later(c)) = Since(c) + 1 \/ (Since(Later(c)) = Since(c) /\ Since(c) > Window)
    BY <1>1, <1>2, <1>6, <2>2 DEF Since
  <2>5. ASSUME NEW a \in Ages
        PROVE  IF a <= Since(Later(c)) THEN m[a] <= Limit /\ m[a] <= Later(c).count
               ELSE m[a] <= m[Since(Later(c))] + Limit
    <3>1. CASE a = 0
      BY <1>1, <1>2, <1>4, <1>6, <2>2, <2>3, <2>4, <3>1
    <3>2. CASE a # 0 /\ a <= Since(Later(c))
      <4>1. a - 1 \in Ages /\ a - 1 <= Since(c) /\ m[a] = n[a - 1]
        BY <1>3, <2>3, <2>4, <3>2
      <4> QED BY <2>1, <2>2, <3>2, <4>1
    <3>3. CASE a # 0 /\ ~(a <= Since(Later(c)))
      <4>1. Since(Later(c)) = Since(c) + 1
        BY <1>1, <1>3, <2>3, <2>4, <3>3
      <4>2. /\ a - 1 \in Ages /\ ~(a - 1 <= Since(c)) /\ m[a] = n[a - 1]
            /\ Since(c) + 1 \in Ages
        <5>1. /\ a - 1 \in Ages /\ m[a] = n[a - 1] /\ a \in Nat /\ a <= Window
              /\ ~(a <= Since(c) + 1)
          BY <1>3, <3>3, <4>1
        <5> QED BY <1>1, <2>3, <5>1 DEF Ages
      <4>3. m[Since(c) + 1] = n[Since(c)]
        BY <1>3, <2>3, <4>2
      <4> QED BY <2>1, <3>3, <4>1, <4>2, <4>3
    <3> QED BY <3>1, <3>2, <3>3
  <2>6. UserInv(Later(c), m)
    BY <1>4, <2>2, <2>5 DEF UserInv
  <2> QED BY <2>6 DEF m
<1> QED BY <1>5, <1>6 DEF m

\* No step of the limiter admits more than the windows allow.
LEMMA LimiterInvStep == LimiterInv /\ [LimiterNext]_limiterVars => LimiterInv'
<1> SUFFICES ASSUME LimiterInv, [LimiterNext]_limiterVars PROVE LimiterInv'
    OBVIOUS
<1>0. /\ MapInv' /\ \A u \in Callers : UserInv(clients[u], admitted[u])
      /\ \A u \in Callers : clients[u] \in Entries \cup {Absent} /\ admitted[u] \in [Ages -> Nat]
  BY MapInvNext DEF MapInv, LimiterInv, LimiterTypeOK, WindowsInv
<1>1. SUFFICES /\ admitted' \in [Callers -> [Ages -> Nat]]
               /\ \A u \in Callers : UserInv(clients'[u], admitted'[u])
  BY <1>0 DEF MapInv, LimiterInv, LimiterTypeOK, WindowsInv
<1>2. ASSUME NEW u \in Callers, Allow(u)
      PROVE  /\ admitted' \in [Callers -> [Ages -> Nat]]
             /\ \A v \in Callers : UserInv(clients'[v], admitted'[v])
  <2>1. /\ clients' = [clients EXCEPT ![u] = Touch(clients[u])]
        /\ IF Touch(clients[u]).count <= Limit
             THEN admitted' = [admitted EXCEPT ![u] = [a \in Ages |-> admitted[u][a] + 1]]
             ELSE admitted' = admitted
    BY <1>2 DEF Allow, Admit
  <2>2. Touch(clients[u]).count \in Int
    BY <1>0, LimiterAssumption DEF Touch, Over, Increment, Entries
  <2>3. /\ Touch(clients[u]).count <= Limit =>
              UserInv(Touch(clients[u]), [a \in Ages |-> admitted[u][a] + 1])
        /\ Touch(clients[u]).count > Limit => UserInv(Touch(clients[u]), admitted[u])
    BY <1>0, AllowKeepsQuota
  <2>4. clients \in [Callers -> Entries \cup {Absent}] /\ admitted \in [Callers -> [Ages -> Nat]]
    BY DEF LimiterInv, LimiterTypeOK
  <2>5. [a \in Ages |-> admitted[u][a] + 1] \in [Ages -> Nat]
    BY <1>0
  <2>6. admitted' \in [Callers -> [Ages -> Nat]]
    BY <2>1, <2>4, <2>5
  <2>7. UserInv(clients'[u], admitted'[u])
    BY <2>1, <2>2, <2>3, <2>4, LimiterAssumption
  <2>8. \A v \in Callers \ {u} : clients'[v] = clients[v] /\ admitted'[v] = admitted[v]
    BY <2>1, <2>4
  <2> QED BY <1>0, <2>6, <2>7, <2>8
<1>3. CASE Cleanup
  <2>1. \A u \in Callers : Expired(clients[u]) =>
            Over(clients[u]) /\ \A a \in Ages : a <= Since(clients[u])
    BY <1>0, LimiterAssumption, AbsentIsNoEntry
       DEF Expired, Over, Since, Entries, Resets, Ages
  <2>2. \A u \in Callers : Expired(clients[u]) => UserInv(Absent, admitted[u])
    BY <1>0, <2>1 DEF UserInv, Expired
  <2> QED BY <1>0, <1>3, <2>2 DEF Cleanup, LimiterInv, LimiterTypeOK
<1>4. CASE Tick
  <2>1. \A u \in Callers :
            /\ clients'[u] = Later(clients[u])
            /\ admitted'[u] = [a \in Ages |-> IF a = 0 THEN 0 ELSE admitted[u][a - 1]]
    BY <1>4 DEF Tick
  <2>2. \A u \in Callers : [a \in Ages |-> IF a = 0 THEN 0 ELSE admitted[u][a - 1]]
                            \in [Ages -> Nat]
    BY <1>0, LimiterAssumption DEF Ages
  <2>3. \A u \in Callers : UserInv(clients'[u], admitted'[u])
    BY <1>0, <2>1, TickKeepsQuota
  <2> QED BY <1>4, <2>2, <2>3 DEF Tick
<1>5. CASE UNCHANGED limiterVars
  BY <1>0, <1>5 DEF limiterVars, LimiterInv, LimiterTypeOK
<1> QED BY <1>2, <1>3, <1>4, <1>5 DEF LimiterNext

\* Before the first request nobody has been admitted and nothing is counted.
LEMMA LimiterInitially == LimiterInit => LimiterInv
BY LimiterAssumption DEF LimiterInit, LimiterInv, LimiterTypeOK, WindowsInv, UserInv, Ages

\* Types hold in every reachable state: counts stay in 1 .. Limit + 1, and no
\* Reset lies further ahead than a window (rate_limiter.go Allow 28-51).
THEOREM LimiterTypeCorrect == LimiterSpec => []LimiterTypeOK
<1>1. LimiterInv => LimiterTypeOK
  BY DEF LimiterInv
<1>. QED BY <1>1, LimiterInitially, LimiterInvStep, PTL DEF LimiterSpec

\* However requests meet the ends of windows and the cleanup, no stretch of
\* Window ticks admits more than two quotas (rate_limiter.go Allow 28-51 with
\* its lazy reset at 43, startCleanupWorker 53-65).
THEOREM TwoQuotas == LimiterSpec => []AtMostTwoQuotas
<1>1. LimiterInv => AtMostTwoQuotas
  <2> SUFFICES ASSUME LimiterInv, NEW u \in Callers PROVE admitted[u][Window] <= 2 * Limit
      BY DEF AtMostTwoQuotas
  <2>1. UserInv(clients[u], admitted[u]) /\ Window \in Ages /\ Window \in Nat /\ Limit \in Nat
    BY LimiterAssumption DEF LimiterInv, WindowsInv, Ages
  <2>2. /\ clients[u] \in Entries \cup {Absent}
        /\ \A a \in Ages : admitted[u][a] \in Nat
    BY DEF LimiterInv, LimiterTypeOK
  <2>3. CASE clients[u] = Absent
    BY <2>1, <2>2, <2>3 DEF UserInv
  <2>4. CASE clients[u] # Absent /\ Window <= Since(clients[u])
    BY <2>1, <2>2, <2>4 DEF UserInv
  <2>5. CASE clients[u] # Absent /\ ~(Window <= Since(clients[u]))
    <3>1. Since(clients[u]) \in Ages /\ Since(clients[u]) <= Since(clients[u])
      BY <2>2, <2>5, LimiterAssumption DEF Since, Entries, Resets, Ages
    <3>2. /\ admitted[u][Since(clients[u])] <= Limit
          /\ admitted[u][Window] <= admitted[u][Since(clients[u])] + Limit
      BY <2>1, <2>5, <3>1 DEF UserInv
    <3> QED BY <2>1, <2>2, <3>2, <3>1 DEF Ages
  <2> QED BY <2>3, <2>4, <2>5
<1>. QED BY <1>1, LimiterInitially, LimiterInvStep, PTL DEF LimiterSpec

-----------------------------------------------------------------------------
Shows == [u \in Callers |-> Shown(clients[u])]

\* Every step of the limiter is a step of Quota or leaves its windows alone.
LEMMA QuotaStep ==
    MapInv /\ [LimiterNext]_limiterVars => [Promise!Next]_<<Shows, answer>>
<1> SUFFICES ASSUME MapInv, [LimiterNext]_limiterVars
             PROVE  Promise!Next \/ (Shows' = Shows /\ answer' = answer)
    BY DEF Shows
<1> USE DEF MapInv
<1>0. \A u \in Callers : clients[u] # Absent =>
        /\ clients[u].count \in 1..(Limit + 1)
        /\ clients[u].reset \in Resets
  BY LimiterAssumption DEF Entries
<1>1. ASSUME NEW u \in Callers, Allow(u) PROVE Promise!Request(u)
  <2> DEFINE c == Touch(clients[u])
  <2>1. /\ clients' = [clients EXCEPT ![u] = c]
        /\ answer' = [answer EXCEPT ![u] = c.count <= Limit]
    BY <1>1 DEF Allow
  <2>2. c \in Entries /\ c.reset \in 0..Window
    BY <1>0, LimiterAssumption DEF Touch, Over, Increment, Entries, Resets
  <2>3. Shown(c) = c
    BY <2>2, AbsentIsNoEntry, LimiterAssumption DEF Shown, Over
  <2>4. c = IF Shown(clients[u]) = Absent
              THEN [count |-> 1, reset |-> Window]
              ELSE Promise!Counted(Shown(clients[u]))
    BY DEF Touch, Shown, Increment, Promise!Counted
  <2>5. Shows' = [Shows EXCEPT ![u] = c]
    BY <2>1, <2>3 DEF Shows
  <2>6. Shows'[u] = c
    BY <2>5 DEF Shows
  <2>. HIDE DEF c
  <2>. QED BY <2>1, <2>4, <2>5, <2>6 DEF Promise!Request, Shows
<1>2. CASE Cleanup
  <2>1. \A u \in Callers : Expired(clients[u]) => Over(clients[u])
    BY <1>0, LimiterAssumption DEF Expired, Over, Resets
  <2>. QED BY <1>2, <2>1 DEF Cleanup, Shows, Shown
<1>3. CASE Tick
  <2>1. \A u \in Callers : Shown(Later(clients[u])) = Promise!Aged(Shown(clients[u]))
    BY <1>0, AbsentIsNoEntry, LimiterAssumption
       DEF Shown, Later, Over, Promise!Aged, Entries, Resets
  <2>. QED BY <1>3, <2>1 DEF Tick, Shows, Promise!Tick, Promise!Next
<1>4. CASE UNCHANGED limiterVars
  BY <1>4 DEF limiterVars, Shows
<1>. QED BY <1>1, <1>2, <1>3, <1>4 DEF LimiterNext, Promise!Next

\* The limiter implements Quota: its counters, its strict comparison with
\* Reset and its cleanup worker give every request the answer it would get
\* from a limiter that keeps one window per user and never forgets it.
THEOREM LimiterRefinement == LimiterSpec => ImplementsQuota
<1>1. LimiterInit => Promise!Init
  BY DEF LimiterInit, Promise!Init, Shown
<1>2. MapInv /\ [LimiterNext]_limiterVars => [Promise!Next]_<<Shows, answer>>
  BY QuotaStep
<1>. QED BY <1>1, <1>2, MapCorrect, PTL
         DEF LimiterSpec, ImplementsQuota, Promise!Spec, Shows
=============================================================================
