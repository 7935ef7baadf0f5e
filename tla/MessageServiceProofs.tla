------------------------ MODULE MessageServiceProofs ------------------------
(* Proofs about MessageService, for any users, requests, replies and       *)
(* bounds.                                                                 *)
EXTENDS MessageService, SequenceTheorems, FiniteSetTheorems, TLAPS

BeforeCommit == {"new", "parent", "check", "insert"}
AfterCommit == {"quote", "audit", "audience", "publish", "audience2", "publish2"}

\* What a request writes into its message
ContentOf(r) == IF Kind[r] = "delete" THEN Blank ELSE r

\* Sends, edits and deletions keep to their own labels.
ControlInv ==
    \A r \in Requests :
        /\ pc[r] \in {"parent", "check", "insert", "quote", "audience2", "publish2"} =>
             Kind[r] = "send"
        /\ pc[r] \in {"parent", "quote"} => ReplyTo[r] # None
        /\ pc[r] \in {"update", "audit"} => Kind[r] # "send"

\* There is no row before its INSERT, one that is there has been written, and a
\* deleted one is blank.
RowsInv ==
    \A m \in Messages :
        /\ pc[m] \in BeforeCommit => row[m] = NoRow /\ written[m] = {}
        /\ row[m].status # "absent" => written[m] # {}
        /\ row[m].status = "deleted" => row[m].content = Blank

\* Who is about to announce has committed.
CommitInv ==
    \A r \in Requests : pc[r] \in AfterCommit => ContentOf(r) \in written[Target[r]]

\* A handler knows only participants it has run with.
MembersInv ==
    \A r \in Requests :
        /\ pc[r] = "new" => todo[r] = {}
        /\ Active(r) => members \subseteq present[r]
        /\ pc[r] = "insert" => By[r] \in present[r]
        /\ todo[r] \subseteq present[r] \ {By[r]}

\* Who has not begun has announced nothing.
SilentInv == \A u \in Users : \A e \in ToSet(feed[u]) : pc[e.by] # "new"

MessageInv ==
    /\ TypeOK /\ ControlInv /\ RowsInv /\ CommitInv /\ MembersInv /\ SilentInv
    /\ EventsFollowCommits /\ PostersWereMembers /\ AudienceWereMembers

-----------------------------------------------------------------------------
LEMMA AppendToSet ==
    ASSUME NEW S, NEW q \in Seq(S), NEW e \in S
    PROVE  ToSet(Append(q, e)) = ToSet(q) \cup {e}
<1>1. /\ Len(q) \in Nat /\ DOMAIN q = 1..Len(q)
      /\ DOMAIN Append(q, e) = 1..(Len(q) + 1)
      /\ \A i \in 1..Len(q) : Append(q, e)[i] = q[i]
      /\ Append(q, e)[Len(q) + 1] = e
  BY AppendProperties, LenProperties
<1> QED BY <1>1 DEF ToSet

LEMMA EventsTyped ==
    ASSUME TypeOK, NEW u \in Users, NEW e \in ToSet(feed[u])
    PROVE  e \in Events
<1>1. feed[u] \in Seq(Events)
  BY DEF TypeOK
<1>2. PICK i \in DOMAIN feed[u] : e = feed[u][i]
  BY DEF ToSet
<1> QED BY <1>1, <1>2, ElementOfSeq, LenProperties

\* Steps that publish nothing.
LEMMA FeedFrame ==
    ASSUME MessageInv, feed' = feed, pc' \in [Requests -> Labels],
           \A r \in Requests : pc'[r] = "new" => pc[r] = "new",
           \A m \in Messages : written[m] \subseteq written'[m],
           \A r \in Requests : pc[r] = "new" \/ present[r] \subseteq present'[r]
    PROVE  SilentInv' /\ EventsFollowCommits' /\ AudienceWereMembers'
<1> SUFFICES ASSUME NEW u \in Users, NEW e \in ToSet(feed[u])
             PROVE  /\ pc'[e.by] # "new" /\ e.content \in written'[e.msg]
                    /\ u \in present'[e.by] \ {By[e.by]}
  BY DEF SilentInv, EventsFollowCommits, AudienceWereMembers
<1>1. e.msg \in Messages /\ e.by \in Requests
  BY EventsTyped DEF MessageInv, Events
<1>2. /\ pc[e.by] # "new" /\ e.content \in written[e.msg]
      /\ u \in present[e.by] \ {By[e.by]}
  BY DEF MessageInv, SilentInv, EventsFollowCommits, AudienceWereMembers
<1> QED BY <1>1, <1>2

\* Steps of one handler that only move it and leave the database and the
\* participants alone.
LEMMA MoveFrame ==
    ASSUME MessageInv, NEW r \in Requests, NEW label \in Labels, Goto(r, label), TypeOK',
           UNCHANGED <<members, row, feed, todo, written, present>>,
           Active(r),
           label \notin BeforeCommit \/ pc[r] \in BeforeCommit,
           label # "new",
           label \in {"parent", "check", "insert", "quote", "audience2", "publish2"} =>
               Kind[r] = "send",
           label \in {"parent", "quote"} => ReplyTo[r] # None,
           label \in {"update", "audit"} => Kind[r] # "send",
           label \in AfterCommit => ContentOf(r) \in written[Target[r]],
           label = "insert" => By[r] \in present[r]
    PROVE  MessageInv'
<1>1. /\ pc'[r] = label /\ \A s \in Requests : s # r => pc'[s] = pc[s]
  BY DEF Goto, MessageInv, TypeOK
<1>2. ControlInv'
  BY <1>1 DEF MessageInv, ControlInv
<1>3. RowsInv'
  BY <1>1 DEF MessageInv, RowsInv, Messages
<1>4. CommitInv'
  BY <1>1 DEF MessageInv, CommitInv
<1>5. MembersInv'
  BY <1>1 DEF MessageInv, MembersInv, Active
<1>6. SilentInv' /\ EventsFollowCommits' /\ AudienceWereMembers'
  BY <1>1, FeedFrame DEF TypeOK
<1>7. PostersWereMembers'
  BY DEF MessageInv, PostersWereMembers
<1> QED BY <1>2, <1>3, <1>4, <1>5, <1>6, <1>7 DEF MessageInv

LEMMA FaultType ==
    ASSUME TypeOK, Fault \/ NoFault
    PROVE  faults' \in 0..MaxFaults
  BY MessageAssumption DEF TypeOK, Fault, NoFault

LEMMA QuoteType ==
    ASSUME TypeOK, NEW r \in Requests, NEW reader \in {"server", "service"},
           NEW seen \in Contents \cup {None},
           quote' = [quote EXCEPT ![r][reader] = seen]
    PROVE  quote' \in [Requests -> [server : Contents \cup {None}, service : Contents \cup {None}]]
<1>1. [quote[r] EXCEPT ![reader] = seen]
        \in [server : Contents \cup {None}, service : Contents \cup {None}]
  <2>1. quote[r] \in [server : Contents \cup {None}, service : Contents \cup {None}]
    BY DEF TypeOK
  <2>2. CASE reader = "server"
    BY <2>1, <2>2
  <2>3. CASE reader = "service"
    BY <2>1, <2>3
  <2> QED BY <2>2, <2>3
<1>2. quote' = [quote EXCEPT ![r] = [quote[r] EXCEPT ![reader] = seen]]
  OBVIOUS
<1> QED BY <1>1, <1>2 DEF TypeOK

-----------------------------------------------------------------------------
LEMMA Initially == Init => MessageInv
<1> SUFFICES ASSUME Init PROVE MessageInv
  OBVIOUS
<1>1. ToSet(<<>>) = {}
  BY DEF ToSet
<1>2. TypeOK
  BY MessageAssumption DEF Init, TypeOK, NoRow, Rows, Labels
<1>3. ControlInv /\ RowsInv /\ CommitInv /\ MembersInv
  BY DEF Init, ControlInv, RowsInv, CommitInv, MembersInv, NoRow, AfterCommit, Active, Messages
<1>4. SilentInv /\ EventsFollowCommits /\ PostersWereMembers /\ AudienceWereMembers
  BY <1>1 DEF Init, SilentInv, EventsFollowCommits, PostersWereMembers, AudienceWereMembers
<1> QED BY <1>2, <1>3, <1>4 DEF MessageInv

\* The handler begins with the participants of now.
LEMMA StartStep ==
    ASSUME MessageInv, NEW r \in Requests, Start(r)
    PROVE  MessageInv'
<1> USE DEF db, history
<1>1. PICK label \in {"update", "parent", "check"} :
        /\ pc[r] = "new" /\ pc' = [pc EXCEPT ![r] = label]
        /\ label = "update" => Kind[r] # "send"
        /\ label # "update" => Kind[r] = "send"
        /\ label = "parent" => ReplyTo[r] # None
  BY DEF Start, Goto
<1>2. /\ present' = [present EXCEPT ![r] = members]
      /\ stable' = [stable EXCEPT ![r] = members]
      /\ UNCHANGED <<exists, members, row, logs, feed, todo, quote, outcome, faults,
                     changes, written>>
  BY DEF Start
<1>3. TypeOK'
  BY <1>1, <1>2 DEF MessageInv, TypeOK, Labels
<1>4. /\ pc'[r] = label /\ \A s \in Requests : s # r => pc'[s] = pc[s]
      /\ present'[r] = members /\ \A s \in Requests : s # r => present'[s] = present[s]
  BY <1>1, <1>2 DEF MessageInv, TypeOK
<1>5. ControlInv'
  BY <1>1, <1>4 DEF MessageInv, ControlInv
<1>6. RowsInv'
  BY <1>1, <1>2, <1>4 DEF MessageInv, RowsInv, Messages, BeforeCommit
<1>7. CommitInv'
  BY <1>1, <1>2, <1>4 DEF MessageInv, CommitInv, AfterCommit
<1>8. MembersInv'
  BY <1>1, <1>2, <1>4 DEF MessageInv, MembersInv, Active
<1>9. SilentInv' /\ EventsFollowCommits' /\ AudienceWereMembers'
  BY <1>1, <1>2, <1>3, <1>4, FeedFrame DEF TypeOK
<1>10. PostersWereMembers'
  BY <1>1, <1>2, <1>4 DEF MessageInv, PostersWereMembers, RowsInv, Messages, BeforeCommit
<1> QED BY <1>3, <1>5, <1>6, <1>7, <1>8, <1>9, <1>10 DEF MessageInv

\* Reads of the parent, the check of the membership and the audit rows.
LEMMA ReadStep ==
    ASSUME MessageInv, NEW r \in Requests,
           ReadParent(r) \/ CheckParticipant(r) \/ ReadQuote(r) \/ AuditChange(r)
               \/ LoopEnds(r) \/ AuditRequest(r)
    PROVE  MessageInv'
<1> USE DEF db, history
<1>t. TypeOK /\ ControlInv /\ CommitInv /\ MembersInv
  BY DEF MessageInv
<1>1. CASE ReadParent(r)
  <2>1. PICK seen \in {row[ReplyTo[r]].content, None} :
          quote' = [quote EXCEPT ![r]["server"] = seen]
    BY <1>1 DEF ReadParent, ReadParentInto
  <2>2. /\ pc[r] = "parent" /\ Goto(r, "check") /\ (Fault \/ NoFault)
        /\ UNCHANGED <<exists, members, row, logs, feed, todo, outcome, changes, written,
                       present, stable>>
    BY <1>1 DEF ReadParent, ReadParentInto
  <2>3. seen \in Contents \cup {None}
    BY <1>t, <2>2, MessageAssumption DEF TypeOK, ControlInv, Rows
  <2>4. TypeOK'
    BY <1>t, <2>1, <2>2, <2>3, FaultType, QuoteType DEF TypeOK, Goto, Labels
  <2> QED BY <1>t, <2>2, <2>4, MoveFrame DEF ControlInv, Active, Labels, BeforeCommit, AfterCommit
<1>2. CASE CheckParticipant(r)
  <2>1. /\ pc[r] = "check" /\ (Fault \/ NoFault)
        /\ \/ By[r] \in members /\ Goto(r, "insert") /\ outcome' = outcome
           \/ Goto(r, "log") /\ outcome' = [outcome EXCEPT ![r] = "error"]
        /\ UNCHANGED <<exists, members, row, logs, feed, todo, quote, changes, written,
                       present, stable>>
    BY <1>2 DEF CheckParticipant, Return
  <2>2. TypeOK'
    <3>1. faults' \in 0..MaxFaults
      BY <1>t, <2>1, FaultType
    <3>2. outcome' \in [Requests -> {"none", "ok", "error"}] /\ pc' \in [Requests -> Labels]
      BY <1>t, <2>1 DEF TypeOK, Goto, Labels
    <3> QED BY <1>t, <2>1, <3>1, <3>2 DEF TypeOK
  <2>3. By[r] \in members => By[r] \in present[r]
    BY <1>t, <2>1 DEF MembersInv, Active
  <2> QED BY <1>t, <2>1, <2>2, <2>3, MoveFrame
            DEF ControlInv, Active, Labels, BeforeCommit, AfterCommit
<1>3. CASE ReadQuote(r)
  <2>1. PICK seen \in {row[ReplyTo[r]].content, None} :
          quote' = [quote EXCEPT ![r]["service"] = seen]
    BY <1>3 DEF ReadQuote, ReadParentInto
  <2>2. /\ pc[r] = "quote" /\ Goto(r, "audience") /\ (Fault \/ NoFault)
        /\ UNCHANGED <<exists, members, row, logs, feed, todo, outcome, changes, written,
                       present, stable>>
    BY <1>3 DEF ReadQuote, ReadParentInto
  <2>3. seen \in Contents \cup {None}
    BY <1>t, <2>2, MessageAssumption DEF TypeOK, ControlInv, Rows
  <2>4. TypeOK'
    BY <1>t, <2>1, <2>2, <2>3, FaultType, QuoteType DEF TypeOK, Goto, Labels
  <2> QED BY <1>t, <2>2, <2>4, MoveFrame DEF CommitInv, Active, Labels, BeforeCommit, AfterCommit
<1>4. CASE AuditChange(r)
  <2>1. /\ pc[r] = "audit" /\ Goto(r, "audience") /\ (Fault \/ NoFault)
        /\ logs' \in {logs, logs \cup {<<r, "service">>}}
        /\ UNCHANGED <<exists, members, row, feed, todo, quote, outcome, changes, written,
                       present, stable>>
    BY <1>4 DEF AuditChange, InsertLog, NoFault
  <2>2. TypeOK'
    BY <1>t, <2>1, MessageAssumption DEF TypeOK, Goto, Labels, Fault, NoFault
  <2> QED BY <1>t, <2>1, <2>2, MoveFrame DEF CommitInv, Active, Labels, BeforeCommit, AfterCommit
<1>5. CASE LoopEnds(r)
  <2>1. /\ pc[r] \in {"publish", "publish2"}
        /\ \/ Kind[r] = "send" /\ Goto(r, "audience2") /\ outcome' = outcome
           \/ Goto(r, "log") /\ outcome' = [outcome EXCEPT ![r] = "ok"]
        /\ UNCHANGED <<exists, members, row, logs, feed, todo, quote, faults, changes, written,
                       present, stable>>
    BY <1>5 DEF LoopEnds, Return
  <2>2. TypeOK'
    BY <1>t, <2>1 DEF TypeOK, Goto, Labels
  <2> QED BY <1>t, <2>1, <2>2, MoveFrame DEF CommitInv, Active, Labels, BeforeCommit, AfterCommit
<1>6. CASE AuditRequest(r)
  <2>1. /\ pc[r] = "log" /\ Goto(r, "done") /\ (Fault \/ NoFault)
        /\ logs' \in {logs, logs \cup {<<r, "rpc">>}}
        /\ UNCHANGED <<exists, members, row, feed, todo, quote, outcome, changes, written,
                       present, stable>>
    BY <1>6 DEF AuditRequest, InsertLog, NoFault
  <2>2. TypeOK'
    BY <1>t, <2>1, MessageAssumption DEF TypeOK, Goto, Labels, Fault, NoFault
  <2> QED BY <2>1, <2>2, MoveFrame DEF Active, Labels, BeforeCommit, AfterCommit
<1> QED BY <1>1, <1>2, <1>3, <1>4, <1>5, <1>6

\* The request returns an error and nothing else has happened.
LEMMA RefusedStep ==
    ASSUME MessageInv, NEW r \in Requests, pc[r] \in {"insert", "update"},
           Return(r, "error"), Fault \/ NoFault,
           UNCHANGED <<exists, members, row, logs, feed, todo, quote, changes, written, present,
                       stable>>
    PROVE  MessageInv'
<1>1. Goto(r, "log") /\ outcome' = [outcome EXCEPT ![r] = "error"]
  BY DEF Return
<1>2. TypeOK'
  <2>1. faults' \in 0..MaxFaults
    BY FaultType DEF MessageInv
  <2> QED BY <1>1, <2>1 DEF MessageInv, TypeOK, Goto, Labels
<1> QED BY <1>1, <1>2, MoveFrame DEF Active, Labels, BeforeCommit, AfterCommit

LEMMA InsertStep ==
    ASSUME MessageInv, NEW r \in Requests, InsertMessage(r)
    PROVE  MessageInv'
<1> USE DEF db, history
<1>t. TypeOK /\ ControlInv /\ RowsInv /\ CommitInv /\ MembersInv
  BY DEF MessageInv
<1>1. CASE /\ Return(r, "error") /\ (Fault \/ NoFault)
           /\ UNCHANGED <<row, written>>
  BY <1>1, RefusedStep DEF InsertMessage
<1>2. ASSUME NEW label \in {"quote", "audience"},
             /\ label = "quote" => ReplyTo[r] # None
             /\ row' = [row EXCEPT ![r] = [status |-> "live", content |-> r]]
             /\ written' = [written EXCEPT ![r] = {r}]
             /\ Goto(r, label) /\ NoFault /\ UNCHANGED outcome
      PROVE  MessageInv'
  <2>1. /\ pc[r] = "insert" /\ pc' = [pc EXCEPT ![r] = label]
        /\ UNCHANGED <<exists, members, logs, feed, todo, quote, outcome, faults, changes, present,
                       stable>>
    BY <1>2 DEF InsertMessage, Goto, NoFault
  <2>2. r \in Messages /\ Target[r] = r /\ Kind[r] = "send"
    BY <1>t, <2>1, MessageAssumption DEF ControlInv, Messages
  <2>3. /\ pc'[r] = label /\ \A s \in Requests : s # r => pc'[s] = pc[s]
        /\ row'[r] = [status |-> "live", content |-> r] /\ written'[r] = {r}
        /\ \A m \in Messages : m # r => row'[m] = row[m] /\ written'[m] = written[m]
    BY <1>t, <1>2, <2>1, <2>2 DEF TypeOK
  <2>4. written[r] = {} /\ By[r] \in present[r]
    BY <1>t, <2>1, <2>2 DEF RowsInv, MembersInv, BeforeCommit
  <2>5. TypeOK'
    <3>1. row' \in [Messages -> Rows] /\ written' \in [Messages -> SUBSET Contents]
      BY <1>t, <1>2, <2>2 DEF TypeOK, Rows, Contents
    <3> QED BY <1>t, <2>1, <3>1 DEF TypeOK, Labels
  <2>6. ControlInv'
    BY <1>t, <1>2, <2>2, <2>3 DEF ControlInv
  <2>7. RowsInv'
    BY <1>t, <2>1, <2>2, <2>3 DEF RowsInv, BeforeCommit, Messages
  <2>8. CommitInv'
    <3> SUFFICES ASSUME NEW s \in Requests, pc'[s] \in AfterCommit
                 PROVE  ContentOf(s) \in written'[Target[s]]
      BY DEF CommitInv
    <3>1. Target[s] \in Messages
      BY MessageAssumption
    <3>2. CASE s = r
      BY <2>2, <2>3, <3>2 DEF ContentOf
    <3>3. CASE s # r
      <4>1. ContentOf(s) \in written[Target[s]]
        BY <1>t, <2>3, <3>3 DEF CommitInv
      <4> QED BY <2>3, <2>4, <3>1, <4>1
    <3> QED BY <3>2, <3>3
  <2>9. MembersInv'
    BY <1>t, <2>1, <2>3 DEF MembersInv, Active
  <2>10. \A m \in Messages : written[m] \subseteq written'[m]
    BY <2>3, <2>4
  <2>11. SilentInv' /\ EventsFollowCommits' /\ AudienceWereMembers'
    BY <2>1, <2>3, <2>5, <2>10, FeedFrame DEF TypeOK
  <2>12. PostersWereMembers'
    BY <2>1, <2>3, <2>4 DEF MessageInv, PostersWereMembers
  <2> QED BY <2>5, <2>6, <2>7, <2>8, <2>9, <2>11, <2>12 DEF MessageInv
<1>3. \/ Return(r, "error") /\ (Fault \/ NoFault) /\ UNCHANGED <<row, written>>
      \/ \E label \in {"quote", "audience"} :
           /\ label = "quote" => ReplyTo[r] # None
           /\ row' = [row EXCEPT ![r] = [status |-> "live", content |-> r]]
           /\ written' = [written EXCEPT ![r] = {r}]
           /\ Goto(r, label) /\ NoFault /\ UNCHANGED outcome
  BY DEF InsertMessage
<1> QED BY <1>1, <1>2, <1>3

\* What an UPDATE that matches makes of the row
LEMMA NewRowFacts ==
    ASSUME NEW r \in Requests, Kind[r] # "send"
    PROVE  /\ NewRow(r) \in Rows /\ NewRow(r).status # "absent"
           /\ NewRow(r).content = ContentOf(r) /\ ContentOf(r) \in Contents
           /\ NewRow(r).status = "deleted" => NewRow(r) = [status |-> "deleted", content |-> Blank]
  BY MessageAssumption DEF NewRow, Rows, Contents, ContentOf

LEMMA UpdateStep ==
    ASSUME MessageInv, NEW r \in Requests, UpdateMessage(r)
    PROVE  MessageInv'
<1> USE DEF db, history
<1>t. TypeOK /\ ControlInv /\ RowsInv /\ CommitInv /\ MembersInv
  BY DEF MessageInv
<1> DEFINE m == Target[r]
<1>1. CASE /\ Return(r, "error") /\ (Fault \/ NoFault)
           /\ UNCHANGED <<row, written>>
  BY <1>1, RefusedStep DEF UpdateMessage
<1>2. CASE /\ UpdateMatches(r)
           /\ row' = [row EXCEPT ![m] = NewRow(r)]
           /\ written' = [written EXCEPT ![m] = @ \cup {NewRow(r).content}]
           /\ Goto(r, "audit") /\ NoFault /\ UNCHANGED outcome
  <2>1. /\ pc[r] = "update" /\ pc' = [pc EXCEPT ![r] = "audit"]
        /\ UNCHANGED <<exists, members, logs, feed, todo, quote, outcome, faults, changes, present,
                       stable>>
    BY <1>2 DEF UpdateMessage, Goto, NoFault
  <2>2. /\ m \in Messages /\ Kind[r] # "send" /\ row[m].status # "absent"
        /\ m \in Requests /\ r \notin Messages
    BY <1>t, <1>2, <2>1, MessageAssumption
       DEF ControlInv, UpdateMatches, EditMatches, DeleteMatches, Messages
  <2>3. pc[m] \notin BeforeCommit /\ written[m] # {}
    BY <1>t, <2>2 DEF RowsInv, NoRow
  <2>4. /\ pc'[r] = "audit" /\ \A s \in Requests : s # r => pc'[s] = pc[s]
        /\ row'[m] = NewRow(r) /\ written'[m] = written[m] \cup {ContentOf(r)}
        /\ \A x \in Messages : x # m => row'[x] = row[x] /\ written'[x] = written[x]
    BY <1>t, <1>2, <2>1, <2>2, NewRowFacts DEF TypeOK
  <2>5. TypeOK'
    <3>1. row' \in [Messages -> Rows] /\ written' \in [Messages -> SUBSET Contents]
      BY <1>t, <1>2, <2>2, NewRowFacts DEF TypeOK
    <3> QED BY <1>t, <2>1, <3>1 DEF TypeOK, Labels
  <2>6. ControlInv'
    BY <1>t, <2>2, <2>4 DEF ControlInv
  <2>7. RowsInv'
    <3> SUFFICES ASSUME NEW x \in Messages
                 PROVE  /\ pc'[x] \in BeforeCommit => row'[x] = NoRow /\ written'[x] = {}
                        /\ row'[x].status # "absent" => written'[x] # {}
                        /\ row'[x].status = "deleted" => row'[x].content = Blank
      BY DEF RowsInv
    <3>1. x # r /\ x \in Requests
      BY <2>2 DEF Messages
    <3>2. CASE x = m
      BY <2>2, <2>3, <2>4, <3>1, <3>2, NewRowFacts
    <3>3. CASE x # m
      BY <1>t, <2>4, <3>1, <3>3 DEF RowsInv
    <3> QED BY <3>2, <3>3
  <2>8. \A x \in Messages : written[x] \subseteq written'[x]
    BY <2>4
  <2>9. CommitInv'
    <3> SUFFICES ASSUME NEW s \in Requests, pc'[s] \in AfterCommit
                 PROVE  ContentOf(s) \in written'[Target[s]]
      BY DEF CommitInv
    <3>1. CASE s = r
      BY <2>4, <3>1
    <3>2. CASE s # r
      BY <1>t, <2>4, <2>8, <3>2, MessageAssumption DEF CommitInv
    <3> QED BY <3>1, <3>2
  <2>10. MembersInv'
    BY <1>t, <2>1, <2>4 DEF MembersInv, Active
  <2>11. SilentInv' /\ EventsFollowCommits' /\ AudienceWereMembers'
    BY <2>1, <2>4, <2>5, <2>8, FeedFrame DEF TypeOK
  <2>12. PostersWereMembers'
    BY <2>1, <2>3, <2>4 DEF MessageInv, PostersWereMembers
  <2> QED BY <2>5, <2>6, <2>7, <2>9, <2>10, <2>11, <2>12 DEF MessageInv
<1>3. \/ Return(r, "error") /\ (Fault \/ NoFault) /\ UNCHANGED <<row, written>>
      \/ /\ UpdateMatches(r)
         /\ row' = [row EXCEPT ![m] = NewRow(r)]
         /\ written' = [written EXCEPT ![m] = @ \cup {NewRow(r).content}]
         /\ Goto(r, "audit") /\ NoFault /\ UNCHANGED outcome
  BY DEF UpdateMessage
<1> QED BY <1>1, <1>2, <1>3

\* The list of the loop is of participants of now, and the handler is running.
LEMMA AudienceStep ==
    ASSUME MessageInv, NEW r \in Requests, ReadAudience(r)
    PROVE  MessageInv'
<1> USE DEF db, history
<1>t. TypeOK /\ ControlInv /\ CommitInv /\ MembersInv
  BY DEF MessageInv
<1>1. PICK label \in {"publish", "publish2"}, part \in SUBSET (members \ {By[r]}) :
        /\ pc[r] = IF label = "publish" THEN "audience" ELSE "audience2"
        /\ pc' = [pc EXCEPT ![r] = label]
        /\ todo' = [todo EXCEPT ![r] = part]
        /\ Fault \/ NoFault
        /\ stable' \in {stable, [stable EXCEPT ![r] = {}]}
        /\ UNCHANGED <<exists, members, row, logs, feed, quote, outcome, changes, written, present>>
  BY DEF ReadAudience, Goto
<1>2. /\ pc'[r] = label /\ \A s \in Requests : s # r => pc'[s] = pc[s]
      /\ todo'[r] = part /\ \A s \in Requests : s # r => todo'[s] = todo[s]
  BY <1>t, <1>1 DEF TypeOK
<1>3. TypeOK'
  <2>1. faults' \in 0..MaxFaults
    BY <1>t, <1>1, FaultType
  <2>2. part \subseteq Users
    BY <1>t DEF TypeOK
  <2>3. /\ pc' \in [Requests -> Labels] /\ todo' \in [Requests -> SUBSET Users]
        /\ stable' \in [Requests -> SUBSET Users]
    BY <1>t, <1>1, <2>2 DEF TypeOK, Labels
  <2> QED BY <1>t, <1>1, <2>1, <2>3 DEF TypeOK
<1>4. ControlInv'
  BY <1>t, <1>1, <1>2 DEF ControlInv
<1>5. RowsInv'
  BY <1>1, <1>2 DEF MessageInv, RowsInv, BeforeCommit, Messages
<1>6. CommitInv'
  BY <1>t, <1>1, <1>2 DEF CommitInv, AfterCommit
<1>7. MembersInv'
  <2>1. Active(r) /\ part \subseteq present[r] \ {By[r]}
    BY <1>t, <1>1 DEF MembersInv, Active
  <2> QED BY <1>t, <1>1, <1>2, <2>1 DEF MembersInv, Active
<1>8. SilentInv' /\ EventsFollowCommits' /\ AudienceWereMembers'
  BY <1>1, <1>2, <1>3, FeedFrame DEF TypeOK
<1>9. PostersWereMembers'
  BY <1>1 DEF MessageInv, PostersWereMembers
<1> QED BY <1>3, <1>4, <1>5, <1>6, <1>7, <1>8, <1>9 DEF MessageInv

LEMMA EventFacts ==
    ASSUME TypeOK, NEW r \in Requests
    PROVE  /\ EventOf(r) \in Events
           /\ EventOf(r).by = r /\ EventOf(r).msg = Target[r]
           /\ EventOf(r).content = ContentOf(r)
<1>1. Kind[r] \in {"send", "edit", "delete"} /\ Target[r] \in Messages
  BY MessageAssumption
<1>2. quote[r].server \in Contents \cup {None} /\ quote[r].service \in Contents \cup {None}
  BY DEF TypeOK
<1> QED BY <1>1, <1>2 DEF EventOf, Events, ContentOf, Contents

\* What is published was committed, and whoever hears of it was read as a
\* participant.
LEMMA PublishStep ==
    ASSUME MessageInv, NEW r \in Requests, NEW u \in Users, Publish(r, u)
    PROVE  MessageInv'
<1> USE DEF db, history
<1>t. TypeOK /\ ControlInv /\ CommitInv /\ MembersInv
  BY DEF MessageInv
<1> DEFINE e == EventOf(r)
<1>1. /\ pc[r] \in {"publish", "publish2"} /\ u \in todo[r]
      /\ feed' = [feed EXCEPT ![u] = Append(@, e)]
      /\ todo' = [todo EXCEPT ![r] = @ \ {u}]
      /\ UNCHANGED <<exists, members, row, logs, pc, quote, outcome, faults, changes, written,
                     present, stable>>
  BY DEF Publish
<1>2. e \in Events /\ e.by = r /\ e.msg = Target[r] /\ e.content = ContentOf(r)
  BY <1>t, EventFacts
<1> HIDE DEF e
<1>3. TypeOK'
  <2>1. Append(feed[u], e) \in Seq(Events)
    BY <1>t, <1>2, AppendProperties DEF TypeOK
  <2>2. feed' \in [Users -> Seq(Events)] /\ todo' \in [Requests -> SUBSET Users]
    BY <1>t, <1>1, <2>1 DEF TypeOK
  <2> QED BY <1>t, <1>1, <2>2 DEF TypeOK
<1>4. /\ ToSet(feed'[u]) = ToSet(feed[u]) \cup {e}
      /\ \A v \in Users : v # u => feed'[v] = feed[v]
  BY <1>t, <1>1, <1>2, AppendToSet DEF TypeOK
<1>5. /\ ControlInv' /\ RowsInv' /\ CommitInv' /\ PostersWereMembers'
  BY <1>1 DEF MessageInv, ControlInv, RowsInv, CommitInv, PostersWereMembers
<1>6. MembersInv'
  BY <1>t, <1>1 DEF MembersInv, Active, TypeOK
<1>7. /\ pc[e.by] # "new" /\ e.content \in written[e.msg]
      /\ u \in present[e.by] \ {By[e.by]}
  BY <1>t, <1>1, <1>2 DEF CommitInv, MembersInv, AfterCommit
<1>8. SilentInv' /\ EventsFollowCommits' /\ AudienceWereMembers'
  <2> SUFFICES ASSUME NEW v \in Users, NEW f \in ToSet(feed'[v])
               PROVE  /\ pc[f.by] # "new" /\ f.content \in written[f.msg]
                      /\ v \in present[f.by] \ {By[f.by]}
    BY <1>1 DEF SilentInv, EventsFollowCommits, AudienceWereMembers
  <2>1. CASE f \in ToSet(feed[v])
    BY <2>1 DEF MessageInv, SilentInv, EventsFollowCommits, AudienceWereMembers
  <2>2. CASE f \notin ToSet(feed[v])
    <3>1. v = u /\ f = e
      BY <1>4, <2>2
    <3> QED BY <1>7, <3>1
  <2> QED BY <2>1, <2>2
<1> QED BY <1>3, <1>5, <1>6, <1>8 DEF MessageInv

\* Participants come and go, or the chat goes with its messages.
LEMMA ChatStep ==
    ASSUME MessageInv, ChatService
    PROVE  MessageInv'
<1> USE DEF local
<1>t. TypeOK /\ ControlInv /\ RowsInv /\ CommitInv /\ MembersInv
  BY DEF MessageInv
<1>1. PICK M \in SUBSET Users : SetMembers(M) /\ exists' \in BOOLEAN
        /\ (row' = row \/ row' = [m \in Messages |-> NoRow])
  BY <1>t DEF ChatService, AddParticipant, RemoveParticipants, DeleteChat, TypeOK
<1>2. /\ members' = M /\ changes < MaxChanges /\ changes' = changes + 1
      /\ present' = [r \in Requests |-> IF Active(r) THEN present[r] \cup M ELSE present[r]]
      /\ stable' = [r \in Requests |-> IF Active(r) THEN stable[r] \cap M ELSE stable[r]]
      /\ UNCHANGED <<logs, feed, pc, todo, quote, outcome, faults, written>>
  BY <1>1 DEF SetMembers
<1>3. TypeOK'
  <2>1. /\ present' \in [Requests -> SUBSET Users] /\ stable' \in [Requests -> SUBSET Users]
    BY <1>t, <1>2 DEF TypeOK
  <2>2. row' \in [Messages -> Rows]
    BY <1>t, <1>1 DEF TypeOK, NoRow, Rows
  <2>3. changes' \in 0..MaxChanges
    BY <1>t, <1>2, MessageAssumption DEF TypeOK
  <2> QED BY <1>t, <1>1, <1>2, <2>1, <2>2, <2>3 DEF TypeOK
<1>4. ControlInv' /\ CommitInv'
  BY <1>t, <1>2 DEF ControlInv, CommitInv
<1>5. RowsInv'
  BY <1>t, <1>1, <1>2 DEF RowsInv, NoRow
<1>6. \A r \in Requests : present[r] \subseteq present'[r]
  BY <1>2
<1>7. MembersInv'
  BY <1>t, <1>2 DEF MembersInv, Active
<1>8. SilentInv' /\ EventsFollowCommits' /\ AudienceWereMembers'
  BY <1>2, <1>3, <1>6, FeedFrame DEF TypeOK
<1>9. PostersWereMembers'
  BY <1>2, <1>6 DEF MessageInv, PostersWereMembers, Messages
<1> QED BY <1>3, <1>4, <1>5, <1>7, <1>8, <1>9 DEF MessageInv

LEMMA UnchangedStep ==
    ASSUME MessageInv, UNCHANGED vars
    PROVE  MessageInv'
  BY DEF MessageInv, TypeOK, ControlInv, RowsInv, CommitInv, MembersInv, SilentInv,
         EventsFollowCommits, PostersWereMembers, AudienceWereMembers, Active,
         vars, db, local, history

LEMMA MessageNext == MessageInv /\ [Next]_vars => MessageInv'
<1> SUFFICES ASSUME MessageInv, [Next]_vars PROVE MessageInv'
  OBVIOUS
<1>1. ASSUME NEW r \in Requests, Handler(r) PROVE MessageInv'
  BY <1>1, StartStep, ReadStep, InsertStep, UpdateStep, AudienceStep, PublishStep DEF Handler
<1>2. CASE ChatService
  BY <1>2, ChatStep
<1>3. CASE Idle \/ UNCHANGED vars
  BY <1>3, UnchangedStep DEF Idle
<1> QED BY <1>1, <1>2, <1>3 DEF Next

LEMMA MessageInvariant == Spec => []MessageInv
<1>1. Init => MessageInv
  BY Initially
<1>2. MessageInv /\ [Next]_vars => MessageInv'
  BY MessageNext
<1> QED BY <1>1, <1>2, PTL DEF Spec

-----------------------------------------------------------------------------
\* Rows, events and handlers keep their types.
THEOREM TypeCorrect == Spec => []TypeOK
<1>1. MessageInv => TypeOK
  BY DEF MessageInv
<1> QED BY <1>1, MessageInvariant, PTL

\* Whatever statements of other handlers come between the UPDATE or INSERT of a
\* handler and its publications: every event was committed before
\* (message_service.go 51-93, message_server.go 58-86).
THEOREM CommittedFirst == Spec => []EventsFollowCommits
<1>1. MessageInv => EventsFollowCommits
  BY DEF MessageInv
<1> QED BY <1>1, MessageInvariant, PTL

\* The check of the membership, the INSERT and two reads of the participants
\* are separate statements; still only users who were participants while the
\* request ran post or hear of it (message_service.go 46-92).
THEOREM Membership == Spec => []OnlyMembersTakePart
<1>1. MessageInv => OnlyMembersTakePart
  BY DEF MessageInv, OnlyMembersTakePart
<1> QED BY <1>1, MessageInvariant, PTL

LEMMA DeletedStays ==
    ASSUME MessageInv, [Next]_vars, NEW m \in Messages, row[m].status = "deleted"
    PROVE  row'[m] \in {row[m], NoRow}
<1> USE DEF db, local, history
<1>t. TypeOK /\ ControlInv /\ RowsInv
  BY DEF MessageInv
<1>1. m \in Requests /\ row[m] # NoRow /\ row[m].content = Blank /\ row[m] \in Rows
  BY <1>t DEF Messages, NoRow, RowsInv, TypeOK
<1>2. ASSUME NEW r \in Requests, InsertMessage(r) PROVE row'[m] = row[m]
  <2>1. r # m
    BY <1>t, <1>1, <1>2 DEF InsertMessage, RowsInv, BeforeCommit
  <2> QED BY <1>t, <1>2, <2>1 DEF InsertMessage, TypeOK
<1>3. ASSUME NEW r \in Requests, UpdateMessage(r) PROVE row'[m] = row[m]
  <2>1. CASE row' = row
    BY <2>1
  <2>2. CASE UpdateMatches(r) /\ row' = [row EXCEPT ![Target[r]] = NewRow(r)]
    <3>1. CASE Target[r] # m
      BY <1>t, <2>2, <3>1 DEF TypeOK
    <3>2. CASE Target[r] = m
      <4>1. Kind[r] # "edit"
        BY <1>1, <2>2, <3>2 DEF UpdateMatches, EditMatches
      <4>2. NewRow(r) = [status |-> "deleted", content |-> Blank]
        BY <4>1 DEF NewRow
      <4>3. row[m] = [status |-> "deleted", content |-> Blank]
        BY <1>1 DEF Rows
      <4> QED BY <1>t, <2>2, <3>2, <4>2, <4>3 DEF TypeOK
    <3> QED BY <3>1, <3>2
  <2> QED BY <1>3, <2>1, <2>2 DEF UpdateMessage
<1>4. ASSUME NEW r \in Requests, Handler(r), ~InsertMessage(r), ~UpdateMessage(r)
      PROVE  row' = row
  BY <1>4 DEF Handler, Start, ReadParent, CheckParticipant, ReadQuote, AuditChange, ReadAudience,
              Publish, LoopEnds, AuditRequest
<1>5. CASE ChatService
  BY <1>5 DEF ChatService, AddParticipant, RemoveParticipants, DeleteChat
<1>6. CASE Idle \/ UNCHANGED vars
  BY <1>6 DEF Idle, vars
<1> QED BY <1>2, <1>3, <1>4, <1>5, <1>6 DEF Next

\* No edit that was under way when the deletion committed revives the message
\* (message_repository.go 187-188).
THEOREM DeletionIsFinal == Spec => DeletedIsFinal
<1>1. MessageInv /\ [Next]_vars =>
        [\A m \in Messages : row[m].status = "deleted" => row'[m] \in {row[m], NoRow}]_vars
  BY DeletedStays
<1> QED BY <1>1, MessageInvariant, PTL DEF Spec, DeletedIsFinal

LEMMA QuotesNothingDeleted ==
    ASSUME MessageInv, [Next]_vars, NEW r \in Messages, ReplyTo[r] # None,
           row[ReplyTo[r]].status = "deleted", quote'[r] # quote[r]
    PROVE  \E f \in {"server", "service"} : \E c \in {None, Blank} :
               quote'[r] = [quote[r] EXCEPT ![f] = c]
<1> USE DEF db, local, history
<1>t. TypeOK /\ RowsInv
  BY DEF MessageInv
<1>1. r \in Requests /\ ReplyTo[r] \in Messages /\ row[ReplyTo[r]].content = Blank
  BY <1>t, MessageAssumption DEF Messages, RowsInv
<1>2. ASSUME NEW s \in Requests, NEW reader \in {"server", "service"}, ReadParentInto(s, reader)
      PROVE  \E c \in {None, Blank} : quote'[r] = [quote[r] EXCEPT ![reader] = c]
  <2>1. PICK seen \in {row[ReplyTo[s]].content, None} :
          quote' = [quote EXCEPT ![s][reader] = seen]
    BY <1>2 DEF ReadParentInto
  <2>2. s = r
    BY <1>t, <1>1, <2>1 DEF TypeOK
  <2>3. quote'[r] = [quote[r] EXCEPT ![reader] = seen]
    BY <1>t, <1>1, <2>1, <2>2 DEF TypeOK
  <2> QED BY <1>1, <2>1, <2>2, <2>3
<1>3. ASSUME NEW s \in Requests, ReadParent(s)
      PROVE  \E c \in {None, Blank} : quote'[r] = [quote[r] EXCEPT !["server"] = c]
  BY <1>2, <1>3 DEF ReadParent
<1>4. ASSUME NEW s \in Requests, ReadQuote(s)
      PROVE  \E c \in {None, Blank} : quote'[r] = [quote[r] EXCEPT !["service"] = c]
  BY <1>2, <1>4 DEF ReadQuote
<1>5. ASSUME NEW s \in Requests, Handler(s), ~ReadParent(s), ~ReadQuote(s)
      PROVE  quote' = quote
  BY <1>5 DEF Handler, Start, CheckParticipant, InsertMessage, UpdateMessage, AuditChange,
              ReadAudience, Publish, LoopEnds, AuditRequest
<1>6. CASE ChatService
  BY <1>6 DEF ChatService, AddParticipant, RemoveParticipants, DeleteChat, SetMembers
<1>7. CASE Idle \/ UNCHANGED vars
  BY <1>7 DEF Idle, vars
<1> QED BY <1>3, <1>4, <1>5, <1>6, <1>7 DEF Next

\* A reply that reads its parent after the deletion quotes nothing of it, in the
\* publication of the service and in that of the server (message_server.go
\* 45-56).
THEOREM DeletionIsNotQuoted == Spec => DeletedIsNotQuoted
<1>1. MessageInv /\ [Next]_vars =>
        [\A r \in Messages :
          ReplyTo[r] # None /\ row[ReplyTo[r]].status = "deleted"
          /\ quote'[r] # quote[r]
          => \E f \in {"server", "service"} :
               \E c \in {None, Blank} : quote'[r] = [quote[r] EXCEPT ![f] = c]]_vars
  BY QuotesNothingDeleted
<1> QED BY <1>1, MessageInvariant, PTL DEF Spec, DeletedIsNotQuoted

-----------------------------------------------------------------------------
(* How often each participant hears of a request.                          *)

\* How often a handler that is where it is has published to u, of the
\* participants that stayed.
Due(r, u) ==
    IF outcome[r] = "ok" THEN IF Kind[r] = "send" THEN 2 ELSE 1
    ELSE IF pc[r] = "publish" THEN IF u \in todo[r] THEN 0 ELSE 1
    ELSE IF pc[r] = "audience2" THEN 1
    ELSE IF pc[r] = "publish2" THEN IF u \in todo[r] THEN 1 ELSE 2
    ELSE 0

\* A handler has a result when it is done, who stayed is a participant while it
\* runs, and has been published to as often as it is due.
NoticesOf(r) ==
    /\ outcome[r] = "none" <=> pc[r] \notin {"log", "done"}
    /\ Active(r) => stable[r] \subseteq members
    /\ outcome[r] # "error" =>
         \A u \in stable[r] \ {By[r]} : Notices(r, u) = Due(r, u)

NoticesInv == \A r \in Requests : NoticesOf(r)

LEMMA CountedFinite ==
    ASSUME TypeOK, NEW r \in Requests, NEW u \in Users
    PROVE  /\ IsFiniteSet({i \in DOMAIN feed[u] : feed[u][i].by = r})
           /\ Notices(r, u) \in Nat
<1> DEFINE counted == {i \in DOMAIN feed[u] : feed[u][i].by = r}
<1>1. Len(feed[u]) \in Nat /\ DOMAIN feed[u] = 1..Len(feed[u])
  BY LenProperties DEF TypeOK
<1>2. IsFiniteSet(1..Len(feed[u])) /\ counted \in SUBSET (1..Len(feed[u]))
  BY <1>1, FS_Interval
<1>3. IsFiniteSet(counted)
  BY <1>2, FS_Subset
<1> QED BY <1>3, FS_CardinalityType DEF Notices

\* A publication adds one notice of its own request, for its own user.
LEMMA OneMore ==
    ASSUME TypeOK, NEW r \in Requests, NEW u \in Users, Publish(r, u)
    PROVE  \A s \in Requests : \A v \in Users :
               Notices(s, v)' = Notices(s, v) + IF s = r /\ v = u THEN 1 ELSE 0
<1> SUFFICES ASSUME NEW s \in Requests, NEW v \in Users
             PROVE  Notices(s, v)' = Notices(s, v) + IF s = r /\ v = u THEN 1 ELSE 0
  OBVIOUS
<1>0. PICK e \in Events : e.by = r /\ feed' = [feed EXCEPT ![u] = Append(@, e)]
  BY EventFacts DEF Publish
<1>1. feed \in [Users -> Seq(Events)]
  BY DEF TypeOK
<1>2. CASE v # u
  <2>1. feed'[v] = feed[v]
    BY <1>0, <1>1, <1>2
  <2>2. Notices(s, v)' = Notices(s, v)
    BY <2>1 DEF Notices
  <2>3. Notices(s, v) \in Nat
    BY CountedFinite
  <2> QED BY <1>2, <2>2, <2>3
<1>3. CASE v = u
  <2> DEFINE n == Len(feed[u])
             C == {i \in DOMAIN feed[u] : feed[u][i].by = s}
             D == {i \in DOMAIN feed'[u] : feed'[u][i].by = s}
  <2>1. /\ n \in Nat /\ DOMAIN feed[u] = 1..n
        /\ feed'[u] = Append(feed[u], e)
    BY <1>0, <1>1, LenProperties
  <2>2. /\ DOMAIN feed'[u] = 1..(n + 1) /\ feed'[u][n + 1] = e
        /\ \A i \in 1..n : feed'[u][i] = feed[u][i]
    BY <1>1, <2>1, AppendProperties, LenProperties
  <2>3. IsFiniteSet(C) /\ Cardinality(C) \in Nat
    BY CountedFinite, FS_CardinalityType
  <2>4. Notices(s, v)' = Cardinality(D) /\ Notices(s, v) = Cardinality(C)
    BY <1>3 DEF Notices
  <2>5. n + 1 \notin C
    BY <2>1
  <2> HIDE DEF n
  <2>6. CASE s = r
    <3>1. D = C \cup {n + 1}
      BY <1>0, <2>1, <2>2, <2>6
    <3>2. Cardinality(D) = Cardinality(C) + 1
      BY <2>3, <2>5, <3>1, FS_AddElement
    <3> QED BY <1>3, <2>4, <2>6, <3>2
  <2>7. CASE s # r
    <3>1. D = C
      BY <1>0, <2>1, <2>2, <2>7
    <3>2. Notices(s, v)' = Notices(s, v)
      BY <2>4, <3>1
    <3> HIDE DEF C
    <3> QED BY <2>3, <2>4, <2>7, <3>2
  <2> QED BY <2>6, <2>7
<1> QED BY <1>2, <1>3

\* Who publishes nothing and keeps its place is due what it was.
LEMMA NoticesFrame ==
    ASSUME NEW s \in Requests, NoticesOf(s),
           feed' = feed, pc'[s] = pc[s], outcome'[s] = outcome[s], todo'[s] = todo[s],
           stable'[s] \subseteq stable[s],
           Active(s) => stable'[s] \subseteq members'
    PROVE  NoticesOf(s)'
<1>1. \A u : Notices(s, u)' = Notices(s, u) /\ Due(s, u)' = Due(s, u)
  BY DEF Notices, Due
<1> QED BY <1>1 DEF NoticesOf, Active

\* Steps of a handler that move it to where as much is due as was before.
LEMMA NoticesMove ==
    ASSUME MessageInv, NoticesInv, NEW r \in Requests, pc[r] \notin {"log", "done"},
           NEW label, NEW result, Goto(r, label),
           outcome' = [outcome EXCEPT ![r] = result],
           result = "none" <=> label \notin {"log", "done"},
           feed' = feed, members' = members,
           \A s \in Requests : s # r => todo'[s] = todo[s] /\ stable'[s] = stable[s],
           label \notin {"new", "done"} => stable'[r] \subseteq members,
           result # "error" =>
               \A u \in stable'[r] \ {By[r]} : Notices(r, u) = Due(r, u)'
    PROVE  NoticesInv'
<1>1. /\ pc'[r] = label /\ outcome'[r] = result
      /\ \A s \in Requests : s # r => pc'[s] = pc[s] /\ outcome'[s] = outcome[s]
  BY DEF Goto, MessageInv, TypeOK
<1>2. \A u : Notices(r, u)' = Notices(r, u)
  BY DEF Notices
<1>3. NoticesOf(r)'
  BY <1>1, <1>2 DEF NoticesOf, Active
<1>4. ASSUME NEW s \in Requests, s # r PROVE NoticesOf(s)'
  BY <1>1, <1>4, NoticesFrame DEF NoticesInv, NoticesOf
<1> QED BY <1>3, <1>4 DEF NoticesInv

\* Where the handler is before it publishes for the first time
Unheard == {"new", "parent", "check", "insert", "quote", "update", "audit", "audience"}

\* A handler that has no result and has not published is due nothing.
LEMMA NothingDue ==
    ASSUME MessageInv, NoticesInv, NEW r \in Requests, pc[r] \in Unheard
    PROVE  /\ outcome[r] = "none"
           /\ \A u \in stable[r] \ {By[r]} : Notices(r, u) = 0
<1>1. outcome[r] = "none" /\ pc[r] \notin {"publish", "audience2", "publish2"}
  BY DEF NoticesInv, NoticesOf, Unheard
<1>2. \A u : Due(r, u) = 0
  BY <1>1 DEF Due
<1> QED BY <1>1, <1>2 DEF NoticesInv, NoticesOf

\* Nobody has heard of a request that has not come.
LEMMA NoNotices ==
    ASSUME MessageInv, NEW r \in Requests, pc[r] = "new", NEW u \in Users
    PROVE  Notices(r, u) = 0
<1>1. \A i \in DOMAIN feed[u] : feed[u][i] \in ToSet(feed[u])
  BY DEF ToSet
<1>2. {i \in DOMAIN feed[u] : feed[u][i].by = r} = {}
  BY <1>1 DEF MessageInv, SilentInv
<1> QED BY <1>2, FS_EmptySet DEF Notices

LEMMA StartNotices ==
    ASSUME MessageInv, NoticesInv, NEW r \in Requests, Start(r)
    PROVE  NoticesInv'
<1>1. PICK label \in {"update", "parent", "check"} :
        pc[r] = "new" /\ Goto(r, label)
  BY DEF Start
<1>2. /\ stable' = [stable EXCEPT ![r] = members]
      /\ UNCHANGED <<members, feed, todo, outcome>>
  BY DEF Start, db
<1>3. stable'[r] = members /\ members \subseteq Users /\ pc'[r] = label
  BY <1>1, <1>2 DEF MessageInv, TypeOK, Goto
<1>4. outcome[r] = "none"
  BY <1>1, NothingDue DEF Unheard
<1>5. outcome' = [outcome EXCEPT ![r] = "none"]
  BY <1>2, <1>4 DEF MessageInv, TypeOK
<1>6. outcome'[r] = "none"
  BY <1>2, <1>4
<1>7. \A u \in stable'[r] \ {By[r]} : Notices(r, u) = Due(r, u)'
  <2>1. \A u : Due(r, u)' = 0
    BY <1>3, <1>6 DEF Due
  <2> QED BY <1>1, <1>3, <2>1, NoNotices
<1>8. \A s \in Requests : s # r => todo'[s] = todo[s] /\ stable'[s] = stable[s]
  BY <1>2 DEF MessageInv, TypeOK
<1> QED BY <1>1, <1>2, <1>3, <1>5, <1>7, <1>8, NoticesMove

\* Steps before the first publication.
LEMMA EarlyNotices ==
    ASSUME MessageInv, NoticesInv, NEW r \in Requests,
           ReadParent(r) \/ CheckParticipant(r) \/ InsertMessage(r) \/ ReadQuote(r)
               \/ UpdateMessage(r) \/ AuditChange(r)
    PROVE  NoticesInv'
<1> DEFINE before == {"parent", "check", "insert", "quote", "update", "audit"}
           after == {"check", "insert", "quote", "audit", "audience"}
<1>1. /\ pc[r] \in before
      /\ UNCHANGED <<members, feed, todo, stable>>
      /\ \/ \E label \in after : Goto(r, label) /\ UNCHANGED outcome
         \/ Return(r, "error")
  BY DEF ReadParent, CheckParticipant, InsertMessage, ReadQuote, UpdateMessage, AuditChange,
         db, history
<1>2. /\ outcome[r] = "none" /\ pc[r] \notin {"log", "done"}
      /\ \A u \in stable[r] \ {By[r]} : Notices(r, u) = 0
  BY <1>1, NothingDue DEF Unheard
<1>3. stable[r] \subseteq members
  BY <1>1 DEF NoticesInv, NoticesOf, Active
<1>4. CASE Return(r, "error")
  <2>1. Goto(r, "log") /\ outcome' = [outcome EXCEPT ![r] = "error"]
    BY <1>4 DEF Return
  <2> QED BY <1>1, <1>2, <1>3, <2>1, NoticesMove
<1>5. ASSUME NEW label \in after, Goto(r, label), UNCHANGED outcome
      PROVE  NoticesInv'
  <2>1. outcome' = [outcome EXCEPT ![r] = "none"] /\ outcome'[r] = "none" /\ pc'[r] = label
    BY <1>2, <1>5 DEF MessageInv, TypeOK, Goto
  <2>2. \A u : Due(r, u)' = 0
    BY <2>1 DEF Due
  <2> QED BY <1>1, <1>2, <1>3, <1>5, <2>1, <2>2, NoticesMove
<1> QED BY <1>1, <1>4, <1>5

\* Who stayed a participant is on the list, unless the read of it failed; then
\* nobody counts as one who stayed.
LEMMA AudienceNotices ==
    ASSUME MessageInv, NoticesInv, NEW r \in Requests, ReadAudience(r)
    PROVE  NoticesInv'
<1>1. PICK label \in {"publish", "publish2"} :
        /\ pc[r] = IF label = "publish" THEN "audience" ELSE "audience2"
        /\ Goto(r, label)
  BY DEF ReadAudience
<1>2. /\ UNCHANGED <<members, feed, outcome>>
      /\ \/ todo' = [todo EXCEPT ![r] = members \ {By[r]}] /\ stable' = stable
         \/ /\ \E part \in SUBSET (members \ {By[r]}) : todo' = [todo EXCEPT ![r] = part]
            /\ stable' = [stable EXCEPT ![r] = {}]
  BY DEF ReadAudience, db
<1>3. /\ outcome[r] = "none" /\ pc[r] \notin {"log", "done"} /\ stable[r] \subseteq members
  BY <1>1 DEF NoticesInv, NoticesOf, Active
<1>4. /\ outcome' = [outcome EXCEPT ![r] = "none"] /\ outcome'[r] = "none" /\ pc'[r] = label
  BY <1>1, <1>2, <1>3 DEF MessageInv, TypeOK, Goto
<1>5. \A s \in Requests : s # r => todo'[s] = todo[s] /\ stable'[s] = stable[s]
  BY <1>2 DEF MessageInv, TypeOK
<1>6. stable'[r] \subseteq stable[r] /\ \A u \in stable'[r] \ {By[r]} : u \in todo'[r]
  BY <1>2, <1>3 DEF MessageInv, TypeOK
<1>7. \A u \in stable'[r] \ {By[r]} : Notices(r, u) = Due(r, u)'
  <2>1. \A u \in stable[r] \ {By[r]} : Notices(r, u) = Due(r, u)
    BY <1>3 DEF NoticesInv, NoticesOf
  <2>2. \A u \in stable'[r] \ {By[r]} : Due(r, u) = Due(r, u)'
    BY <1>1, <1>3, <1>4, <1>6 DEF Due
  <2> QED BY <1>6, <2>1, <2>2
<1> QED BY <1>1, <1>2, <1>3, <1>4, <1>5, <1>6, <1>7, NoticesMove

LEMMA PublishNotices ==
    ASSUME MessageInv, NoticesInv, NEW r \in Requests, NEW u \in Users, Publish(r, u)
    PROVE  NoticesInv'
<1>1. /\ pc[r] \in {"publish", "publish2"} /\ u \in todo[r]
      /\ todo' = [todo EXCEPT ![r] = @ \ {u}]
      /\ UNCHANGED <<members, pc, outcome, stable>>
  BY DEF Publish, db, history
<1>2. todo'[r] = todo[r] \ {u} /\ \A s \in Requests : s # r => todo'[s] = todo[s]
  BY <1>1 DEF MessageInv, TypeOK
<1>3. \A s \in Requests : \A v \in Users :
          Notices(s, v)' = Notices(s, v) + IF s = r /\ v = u THEN 1 ELSE 0
  BY OneMore DEF MessageInv
<1>4. \A s \in Requests : stable[s] \subseteq Users
  BY DEF MessageInv, TypeOK
<1>5. ASSUME NEW s \in Requests PROVE NoticesOf(s)'
  <2>1. NoticesOf(s)
    BY DEF NoticesInv
  <2>2. ASSUME outcome[s] # "error", NEW v \in stable[s] \ {By[s]}
        PROVE  Notices(s, v)' = Due(s, v)'
    <3>1. Notices(s, v) = Due(s, v) /\ v \in Users
      BY <1>4, <2>1, <2>2 DEF NoticesOf
    <3>2. CASE s = r
      <4>1. outcome[r] = "none"
        BY <1>1, <2>1, <3>2 DEF NoticesOf
      <4>2. Due(s, v)' = Due(s, v) + IF v = u THEN 1 ELSE 0
        BY <1>1, <1>2, <3>2, <4>1 DEF Due
      <4>3. Notices(s, v)' = Notices(s, v) + IF v = u THEN 1 ELSE 0
        BY <1>3, <3>1, <3>2
      <4> QED BY <3>1, <4>2, <4>3, <3>2
    <3>3. CASE s # r
      <4>1. Due(s, v)' = Due(s, v)
        BY <1>1, <1>2, <3>3 DEF Due
      <4>2. Notices(s, v)' = Notices(s, v) + 0 /\ Notices(s, v) \in Nat
        BY <1>3, <3>1, <3>3, CountedFinite DEF MessageInv
      <4> QED BY <3>1, <4>1, <4>2
    <3> QED BY <3>2, <3>3
  <2> QED BY <1>1, <2>1, <2>2 DEF NoticesOf, Active
<1> QED BY <1>5 DEF NoticesInv

\* The loop ends when everybody on its list has been published to.
LEMMA LoopNotices ==
    ASSUME MessageInv, NoticesInv, NEW r \in Requests, LoopEnds(r)
    PROVE  NoticesInv'
<1>1. /\ pc[r] \in {"publish", "publish2"} /\ todo[r] = {}
      /\ UNCHANGED <<members, feed, todo, stable>>
      /\ IF pc[r] = "publish" /\ Kind[r] = "send"
           THEN Goto(r, "audience2") /\ UNCHANGED outcome
           ELSE Goto(r, "log") /\ outcome' = [outcome EXCEPT ![r] = "ok"]
  BY DEF LoopEnds, Return, db, history
<1>2. /\ pc[r] = "publish2" => Kind[r] = "send"
      /\ outcome[r] = "none" /\ pc[r] \notin {"log", "done"} /\ stable[r] \subseteq members
      /\ \A u \in stable[r] \ {By[r]} : Notices(r, u) = Due(r, u)
  BY <1>1 DEF NoticesInv, NoticesOf, Active, MessageInv, ControlInv
<1>3. CASE pc[r] = "publish" /\ Kind[r] = "send"
  <2>1. /\ outcome' = [outcome EXCEPT ![r] = "none"] /\ outcome'[r] = "none"
        /\ pc'[r] = "audience2" /\ Goto(r, "audience2")
    BY <1>1, <1>2, <1>3 DEF MessageInv, TypeOK, Goto
  <2>2. \A u : Due(r, u)' = Due(r, u)
    BY <1>1, <1>2, <1>3, <2>1 DEF Due
  <2>3. \A u \in stable'[r] \ {By[r]} : Notices(r, u) = Due(r, u)'
    BY <1>1, <1>2, <2>2
  <2>4. \A s \in Requests : todo'[s] = todo[s] /\ stable'[s] = stable[s]
    BY <1>1
  <2> QED BY <1>1, <1>2, <2>1, <2>3, <2>4, NoticesMove
<1>4. CASE ~(pc[r] = "publish" /\ Kind[r] = "send")
  <2>1. /\ outcome' = [outcome EXCEPT ![r] = "ok"] /\ Goto(r, "log")
        /\ outcome'[r] = "ok" /\ pc'[r] = "log"
    BY <1>1, <1>4 DEF MessageInv, TypeOK, Goto
  <2>2. \A u : Due(r, u)' = Due(r, u)
    BY <1>1, <1>2, <1>4, <2>1 DEF Due
  <2> QED BY <1>1, <1>2, <2>1, <2>2, NoticesMove
<1> QED BY <1>3, <1>4

\* The audit row of the request changes nothing any more.
LEMMA LogNotices ==
    ASSUME MessageInv, NoticesInv, NEW r \in Requests, AuditRequest(r)
    PROVE  NoticesInv'
<1>1. /\ pc[r] = "log" /\ pc' = [pc EXCEPT ![r] = "done"]
      /\ UNCHANGED <<members, feed, todo, outcome, stable>>
  BY DEF AuditRequest, Goto, history
<1>2. pc'[r] = "done" /\ \A s \in Requests : s # r => pc'[s] = pc[s]
  BY <1>1 DEF MessageInv, TypeOK
<1>3. \A u : Notices(r, u)' = Notices(r, u) /\ Due(r, u)' = Due(r, u)
  BY <1>1, <1>2 DEF Notices, Due
<1>4. NoticesOf(r)'
  BY <1>1, <1>2, <1>3 DEF NoticesInv, NoticesOf, Active
<1>5. ASSUME NEW s \in Requests, s # r PROVE NoticesOf(s)'
  BY <1>1, <1>2, <1>5, NoticesFrame DEF NoticesInv, NoticesOf
<1> QED BY <1>4, <1>5 DEF NoticesInv

\* Who leaves has not stayed.
LEMMA ChatNotices ==
    ASSUME MessageInv, NoticesInv, ChatService
    PROVE  NoticesInv'
<1>1. PICK M \in SUBSET Users : SetMembers(M)
  BY DEF MessageInv, ChatService, AddParticipant, RemoveParticipants, DeleteChat, TypeOK
<1>2. /\ members' = M
      /\ stable' = [r \in Requests |-> IF Active(r) THEN stable[r] \cap M ELSE stable[r]]
      /\ UNCHANGED <<feed, pc, todo, outcome>>
  BY <1>1 DEF SetMembers, local
<1>3. ASSUME NEW s \in Requests PROVE NoticesOf(s)'
  <2>1. /\ stable'[s] \subseteq stable[s]
        /\ Active(s) => stable'[s] \subseteq members'
    BY <1>2
  <2> QED BY <1>2, <2>1, NoticesFrame DEF NoticesInv
<1> QED BY <1>3 DEF NoticesInv

LEMMA NoticesNext ==
    ASSUME MessageInv, NoticesInv, [Next]_vars
    PROVE  NoticesInv'
<1>1. ASSUME NEW r \in Requests, Handler(r) PROVE NoticesInv'
  BY <1>1, StartNotices, EarlyNotices, AudienceNotices, PublishNotices, LoopNotices, LogNotices
     DEF Handler
<1>2. CASE ChatService
  BY <1>2, ChatNotices
<1>3. CASE Idle \/ UNCHANGED vars
  BY <1>3 DEF Idle, vars, db, local, history, NoticesInv, NoticesOf, Notices, Due, Active
<1> QED BY <1>1, <1>2, <1>3 DEF Next

\* Who is a participant during the whole of a successful request hears of it:
\* once of an edit or deletion and twice of a new message, which service and
\* server both publish, however the participants change meanwhile
\* (message_service.go 60-93, message_server.go 58-86).
THEOREM Notified == Spec => []StableMembersNotified
<1>1. Init => NoticesInv
  <2> SUFFICES ASSUME Init PROVE NoticesInv
    OBVIOUS
  <2>1. \A r \in Requests : pc[r] = "new" /\ outcome[r] = "none" /\ stable[r] = {}
    BY DEF Init
  <2> QED BY <2>1 DEF NoticesInv, NoticesOf, Active
<1>2. MessageInv /\ NoticesInv /\ [Next]_vars => NoticesInv'
  BY NoticesNext
<1>3. NoticesInv => StableMembersNotified
  <2> SUFFICES ASSUME NoticesInv, NEW r \in Requests, outcome[r] = "ok",
                      NEW u \in stable[r] \ {By[r]}
               PROVE  Notices(r, u) = IF Kind[r] = "send" THEN 2 ELSE 1
    BY DEF StableMembersNotified
  <2> QED BY DEF NoticesInv, NoticesOf, Due
<1> QED BY <1>1, <1>2, <1>3, MessageInvariant, PTL DEF Spec
=============================================================================
