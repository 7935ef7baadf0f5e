---------------------------- MODULE FilesProofs -----------------------------
(* Proofs about Files, for any files, bounds and chunks: what the table    *)
(* files, the directory of files and the messages about them have to do    *)
(* with each other while statements and requests fail; that the wire gives *)
(* back the messages written to it; and what Bob sees and saves.           *)
EXTENDS Files, SequenceTheorems, TLAPS

Composers == {"idle", "reading", "unread", "posted", "sending", "sent", "refused"}
Uploads == {"none", "received", "onDisk", "done", "failed"}
Attachments == [isFile : {TRUE}, file : LocalFiles, fileUrl : Nat]
StoredFiles == [file : LocalFiles, chunks : Nat]
Contents == [attachment : Attachments, isEncrypted : BOOLEAN, quote : Quotable \cup {Null}]

\* The types of Alice's side and of the server's.
StoreType ==
    /\ composer \in [phase : Composers, file : LocalFiles \cup {Null},
                     quote : Quotable \cup {Null}, url : Nat \cup {Null}]
    /\ replyTo \in Quotable \cup {Null}
    /\ upload \in [phase : Uploads, file : LocalFiles \cup {Null}, id : Nat]
    /\ disk \in Seq(StoredFiles)
    /\ messages \in Seq(Contents)

\* The whole file f is on disk as id.
Whole(id, f) == id \in DOMAIN disk /\ disk[id].file = f /\ disk[id].chunks = ChunkCount[f]

\* A handler of UploadFile runs only while the composer waits for it, for the
\* same file, and what it has done so far is there.
UploadInv ==
    /\ upload.phase # "none" => composer.phase = "posted" /\ upload.file = composer.file
    /\ upload.phase \in {"onDisk", "done"} => Whole(upload.id, upload.file)
    /\ upload.phase = "done" => upload.id \in rows

\* An attachment has a file, and once it is sent the file of its url.
ComposerInv ==
    /\ composer.phase # "idle" => composer.file \in LocalFiles
    /\ composer.phase = "sending" =>
         composer.url \in rows /\ disk[composer.url].file = composer.file

\* FilesMatchRows by its parts
RowsHaveFiles ==
    \A id \in rows : id \in DOMAIN disk /\ disk[id].chunks = ChunkCount[disk[id].file]
MessagesHaveRows ==
    \A m \in DOMAIN messages :
        /\ messages[m].attachment.fileUrl \in rows
        /\ disk[messages[m].attachment.fileUrl].file = messages[m].attachment.file
OrphansExplained ==
    \A id \in DOMAIN disk \ rows :
        id \in broken \/ (upload.id = id /\ upload.phase = "onDisk")

StoreInv ==
    /\ StoreType /\ UploadInv /\ ComposerInv
    /\ RowsHaveFiles /\ MessagesHaveRows /\ OrphansExplained
-----------------------------------------------------------------------------
LEMMA AppendFacts ==
    ASSUME NEW S, NEW q \in Seq(S), NEW e \in S
    PROVE  /\ Append(q, e) \in Seq(S)
           /\ DOMAIN Append(q, e) = (DOMAIN q) \cup {Len(q) + 1}
           /\ Len(q) + 1 \notin DOMAIN q
           /\ \A i \in DOMAIN q : Append(q, e)[i] = q[i]
           /\ Append(q, e)[Len(q) + 1] = e
<1>1. /\ Append(q, e) \in Seq(S) /\ Len(Append(q, e)) = Len(q) + 1
      /\ \A i \in 1..Len(q) : Append(q, e)[i] = q[i]
      /\ Append(q, e)[Len(q) + 1] = e
  BY AppendProperties
<1>2. /\ Len(q) \in Nat /\ DOMAIN q = 1..Len(q)
      /\ DOMAIN Append(q, e) = 1..(Len(q) + 1)
  BY <1>1, LenProperties
<1> QED BY <1>1, <1>2

LEMMA Initially == Init => StoreInv
<1> SUFFICES ASSUME Init PROVE StoreInv
  OBVIOUS
<1>1. disk = <<>> /\ messages = <<>> /\ DOMAIN disk = {} /\ DOMAIN messages = {}
  BY DEF Init
<1>2. StoreType
  BY <1>1 DEF Init, StoreType, Idle, NoUpload, Composers, Uploads
<1> QED BY <1>1, <1>2 DEF Init, Idle, NoUpload, StoreInv, UploadInv, ComposerInv,
               Whole, RowsHaveFiles, MessagesHaveRows, OrphansExplained

\* Steps of Bob, and of Alice beside the attachment.
LEMMA Elsewhere ==
    ASSUME StoreInv, replyTo' \in Quotable \cup {Null},
           UNCHANGED <<composer, upload, disk, rows, messages, broken>>
    PROVE  StoreInv'
  BY DEF StoreInv, StoreType, UploadInv, Whole, ComposerInv, RowsHaveFiles, MessagesHaveRows,
         OrphansExplained, Attachments, Contents

\* Steps of the composer that leave the server alone, and where they lead.
LEMMA ComposerSteps ==
    ASSUME StoreInv, UNCHANGED <<disk, rows, messages, broken>>,
           ReaderFails \/ UploadAnswered \/ MessageAnswered \/ SendRefused
               \/ ReadFile \/ \E f \in LocalFiles : PickFile(f)
    PROVE  StoreInv'
<1> USE DEF StoreInv, Composers, Uploads, Idle, NoUpload, Fault, server, sender, Whole
<1>1. RowsHaveFiles' /\ MessagesHaveRows'
  BY DEF RowsHaveFiles, MessagesHaveRows
<1>2. /\ disk' \in Seq(StoredFiles)
      /\ messages' \in Seq(Contents)
  BY DEF StoreType
<1>3. CASE \E f \in LocalFiles : PickFile(f)
  <2> PICK f \in LocalFiles : PickFile(f)
    BY <1>3
  <2>1. StoreType'
    BY <1>2 DEF PickFile, StoreType
  <2>2. upload.phase = "none" /\ upload' = upload
    BY DEF PickFile, UploadInv
  <2> QED BY <1>1, <2>1, <2>2 DEF PickFile, UploadInv, ComposerInv, OrphansExplained
<1>4. CASE ReadFile
  <2>1. composer.file \in LocalFiles /\ upload.phase = "none"
    BY <1>4 DEF ReadFile, ComposerInv, UploadInv
  <2>2. StoreType'
    BY <1>2, <1>4, <2>1 DEF ReadFile, StoreType
  <2>3. /\ upload'.phase = "received" /\ upload'.file = composer.file
        /\ composer'.phase = "posted" /\ composer'.file = composer.file
    BY <1>4 DEF ReadFile, StoreType
  <2> QED BY <1>1, <2>1, <2>2, <2>3 DEF UploadInv, ComposerInv, OrphansExplained
<1>5. CASE ReaderFails
  <2>1. StoreType'
    BY <1>2, <1>5 DEF ReaderFails, StoreType
  <2>2. upload.phase = "none" /\ upload' = upload
    BY <1>5 DEF ReaderFails, UploadInv
  <2>3. composer'.phase = "unread" /\ composer'.file = composer.file
    BY <1>5 DEF ReaderFails, StoreType
  <2>4. composer.file \in LocalFiles
    BY <1>5 DEF ReaderFails, ComposerInv
  <2> QED BY <1>1, <2>1, <2>2, <2>3, <2>4 DEF UploadInv, ComposerInv, OrphansExplained
<1>6. CASE UploadAnswered
  <2>1. /\ composer.phase = "posted" /\ composer.file \in LocalFiles
        /\ upload.phase \in {"done", "failed"} /\ upload' = NoUpload
        /\ replyTo' = replyTo
    BY <1>6 DEF UploadAnswered, ComposerInv
  <2>2. \/ composer' = Idle
        \/ /\ upload.phase = "done"
           /\ composer' = [composer EXCEPT !.phase = "sending", !.url = upload.id]
    BY <1>6 DEF UploadAnswered, GiveUp
  <2>3. StoreType'
    <3>1. CASE composer' = Idle
      BY <1>2, <2>1, <3>1 DEF StoreType
    <3>2. CASE composer' = [composer EXCEPT !.phase = "sending", !.url = upload.id]
      BY <1>2, <2>1, <3>2 DEF StoreType
    <3> QED BY <2>2, <3>1, <3>2
  <2>4. ComposerInv'
    <3>1. CASE composer' = Idle
      BY <3>1 DEF ComposerInv
    <3>2. CASE /\ upload.phase = "done"
               /\ composer' = [composer EXCEPT !.phase = "sending", !.url = upload.id]
      <4>1. /\ composer'.phase = "sending" /\ composer'.url = upload.id
            /\ composer'.file = composer.file
        BY <3>2 DEF StoreType
      <4> QED BY <3>2, <4>1, <2>1 DEF ComposerInv, UploadInv
    <3> QED BY <2>2, <3>1, <3>2
  <2> QED BY <1>1, <2>1, <2>3, <2>4 DEF UploadInv, OrphansExplained
<1>7. CASE MessageAnswered
  <2>1. upload.phase = "none" /\ upload' = upload /\ composer' = Idle
    BY <1>7 DEF MessageAnswered, UploadInv, GiveUp
  <2>2. StoreType'
    BY <1>2, <1>7, <2>1 DEF MessageAnswered, StoreType
  <2> QED BY <1>1, <2>1, <2>2 DEF UploadInv, ComposerInv, OrphansExplained
<1>8. CASE SendRefused
  <2>1. /\ upload.phase = "none" /\ upload' = upload
        /\ composer' = [composer EXCEPT !.phase = "refused"]
        /\ composer.file \in LocalFiles /\ replyTo' = replyTo
    BY <1>8 DEF SendRefused, UploadInv, ComposerInv
  <2>2. composer'.phase = "refused" /\ composer'.file = composer.file
    BY <2>1 DEF StoreType
  <2>3. StoreType'
    BY <1>2, <2>1 DEF StoreType
  <2> QED BY <1>1, <2>1, <2>2, <2>3 DEF UploadInv, ComposerInv, OrphansExplained
<1> QED BY <1>3, <1>4, <1>5, <1>6, <1>7, <1>8

\* A new file is the last of the directory.
LEMMA NewFile ==
    ASSUME StoreType, NEW f \in LocalFiles, NEW n \in Nat, disk' = Append(disk, Stored(f, n))
    PROVE  /\ disk' \in Seq(StoredFiles)
           /\ DOMAIN disk' = (DOMAIN disk) \cup {Len(disk) + 1}
           /\ Len(disk) + 1 \notin DOMAIN disk /\ Len(disk) + 1 \in Nat
           /\ \A i \in DOMAIN disk : disk'[i] = disk[i]
           /\ disk'[Len(disk) + 1].file = f /\ disk'[Len(disk) + 1].chunks = n
<1>1. disk \in Seq(StoredFiles) /\ Stored(f, n) \in StoredFiles
  BY DEF StoreType, Stored, StoredFiles
<1>2. Stored(f, n).file = f /\ Stored(f, n).chunks = n
  BY DEF Stored
<1>3. Len(disk) + 1 \in Nat
  BY <1>1, LenProperties
<1> QED BY <1>1, <1>2, <1>3, AppendFacts

\* It is explained by the handler that is about to insert its row; no orphan
\* before it was another handler's.
LEMMA SaveFileStep ==
    ASSUME StoreInv, SaveFile
    PROVE  StoreInv'
<1> USE DEF StoreInv
<1> DEFINE new == Len(disk) + 1
<1>1. /\ upload.phase = "received" /\ upload.file = composer.file
      /\ composer.phase = "posted" /\ composer.file \in LocalFiles
      /\ disk' = Append(disk, Stored(upload.file, ChunkCount[upload.file]))
      /\ upload' = [upload EXCEPT !.phase = "onDisk", !.id = new]
      /\ UNCHANGED <<composer, replyTo, rows, messages, broken>>
  BY DEF SaveFile, UploadInv, ComposerInv, sender, history
<1>2. /\ disk' \in Seq(StoredFiles)
      /\ DOMAIN disk' = (DOMAIN disk) \cup {new}
      /\ new \notin DOMAIN disk /\ new \in Nat
      /\ \A i \in DOMAIN disk : disk'[i] = disk[i]
      /\ disk'[new].file = upload.file /\ disk'[new].chunks = ChunkCount[upload.file]
  BY <1>1, NewFile, FilesAssumption
<1> HIDE DEF new
<1>3. upload'.phase = "onDisk" /\ upload'.id = new /\ upload'.file = upload.file
  BY <1>1 DEF StoreType
<1>4. StoreType'
  BY <1>1, <1>2 DEF StoreType, Uploads
<1>5. UploadInv'
  BY <1>1, <1>2, <1>3 DEF UploadInv, Whole
<1>6. RowsHaveFiles' /\ MessagesHaveRows' /\ ComposerInv'
  BY <1>1, <1>2 DEF RowsHaveFiles, MessagesHaveRows, ComposerInv
<1>7. OrphansExplained'
  BY <1>1, <1>2, <1>3 DEF OrphansExplained
<1> QED BY <1>4, <1>5, <1>6, <1>7

LEMMA SaveMetadataStep ==
    ASSUME StoreInv, SaveMetadata
    PROVE  StoreInv'
<1> USE DEF StoreInv
<1>1. /\ upload.phase = "onDisk" /\ upload.file = composer.file
      /\ composer.phase = "posted"
      /\ Whole(upload.id, upload.file)
      /\ rows' = rows \cup {upload.id}
      /\ upload' = [upload EXCEPT !.phase = "done"]
      /\ UNCHANGED <<composer, replyTo, disk, messages, broken>>
  BY DEF SaveMetadata, UploadInv, sender, history
<1>2. upload'.phase = "done" /\ upload'.id = upload.id /\ upload'.file = upload.file
  BY <1>1 DEF StoreType
<1>3. StoreType'
  BY <1>1 DEF StoreType, Uploads
<1>4. UploadInv' /\ ComposerInv'
  BY <1>1, <1>2 DEF UploadInv, ComposerInv, Whole
<1>5. RowsHaveFiles' /\ MessagesHaveRows'
  BY <1>1 DEF RowsHaveFiles, MessagesHaveRows, Whole
<1>6. OrphansExplained'
  BY <1>1, <1>2 DEF OrphansExplained
<1> QED BY <1>3, <1>4, <1>5, <1>6

\* What a failed write or INSERT leaves behind is in broken; a row whose answer
\* is lost has its whole file.
LEMMA UploadFailsStep ==
    ASSUME StoreInv, UploadFails
    PROVE  StoreInv'
<1> USE DEF StoreInv
<1>1. /\ upload.phase \in {"received", "onDisk"} /\ upload.file = composer.file
      /\ composer.phase = "posted" /\ composer.file \in LocalFiles
      /\ upload' = [upload EXCEPT !.phase = "failed"]
      /\ UNCHANGED <<composer, replyTo, messages>>
  BY DEF UploadFails, UploadInv, ComposerInv, sender
<1>2. upload'.phase = "failed" /\ upload'.file = upload.file
  BY <1>1 DEF StoreType
<1>3. UploadInv'
  BY <1>1, <1>2 DEF UploadInv
<1>4. CASE UNCHANGED <<disk, rows, broken>> /\ upload.phase = "received"
  <2>1. StoreType'
    BY <1>1, <1>4 DEF StoreType, Uploads
  <2>2. RowsHaveFiles' /\ MessagesHaveRows' /\ ComposerInv' /\ OrphansExplained'
    BY <1>1, <1>4 DEF RowsHaveFiles, MessagesHaveRows, ComposerInv, OrphansExplained
  <2> QED BY <1>3, <2>1, <2>2
<1>5. ASSUME NEW n \in 0..ChunkCount[upload.file], upload.phase = "received",
             disk' = Append(disk, Stored(upload.file, n)),
             broken' = broken \cup {Len(disk) + 1}, UNCHANGED rows
      PROVE  StoreInv'
  <2>1. n \in Nat
    BY <1>1, <1>5, FilesAssumption
  <2>2. /\ disk' \in Seq(StoredFiles)
        /\ DOMAIN disk' = (DOMAIN disk) \cup {Len(disk) + 1}
        /\ \A i \in DOMAIN disk : disk'[i] = disk[i]
    BY <1>1, <1>5, <2>1, NewFile
  <2>3. StoreType'
    BY <1>1, <2>2 DEF StoreType, Uploads
  <2>4. RowsHaveFiles' /\ MessagesHaveRows' /\ ComposerInv'
    BY <1>1, <1>5, <2>2 DEF RowsHaveFiles, MessagesHaveRows, ComposerInv
  <2>5. OrphansExplained'
    BY <1>1, <1>5, <2>2 DEF OrphansExplained
  <2> QED BY <1>3, <2>3, <2>4, <2>5
<1>6. CASE /\ upload.phase = "onDisk"
           /\ rows' \in {rows, rows \cup {upload.id}}
           /\ broken' = broken \cup {upload.id}
           /\ UNCHANGED disk
  <2>1. StoreType'
    BY <1>1, <1>6 DEF StoreType, Uploads
  <2>2. RowsHaveFiles' /\ MessagesHaveRows' /\ ComposerInv'
    BY <1>1, <1>6 DEF RowsHaveFiles, MessagesHaveRows, ComposerInv, UploadInv, Whole
  <2>3. OrphansExplained'
    BY <1>1, <1>6 DEF OrphansExplained
  <2> QED BY <1>3, <2>1, <2>2, <2>3
<1> QED BY <1>4, <1>5, <1>6 DEF UploadFails

\* A message is only sent with the answer of an upload that inserted its row.
LEMMA SendMessageStep ==
    ASSUME StoreInv, SendMessage
    PROVE  StoreInv'
<1> USE DEF StoreInv
<1>1. /\ composer.phase = "sending" /\ composer.file \in LocalFiles
      /\ composer.url \in rows /\ disk[composer.url].file = composer.file
      /\ upload.phase = "none"
      /\ UNCHANGED <<replyTo, upload, disk, rows, broken>>
  BY DEF SendMessage, ComposerInv, UploadInv, history
<1>2. PICK isEncrypted \in BOOLEAN :
        messages' = Append(messages,
            [attachment |-> [isFile |-> TRUE, file |-> composer.file, fileUrl |-> composer.url],
             isEncrypted |-> isEncrypted, quote |-> composer.quote])
  BY DEF SendMessage
<1> DEFINE msg == [attachment |-> [isFile |-> TRUE, file |-> composer.file,
                                   fileUrl |-> composer.url],
                   isEncrypted |-> isEncrypted, quote |-> composer.quote]
<1>3. composer.url \in Nat
  BY <1>1, LenProperties DEF RowsHaveFiles, StoreType
<1>4. msg \in Contents
  BY <1>1, <1>3 DEF StoreType, Contents, Attachments
<1>5. msg.attachment.fileUrl = composer.url /\ msg.attachment.file = composer.file
  OBVIOUS
<1> HIDE DEF msg
<1>6. /\ messages' \in Seq(Contents)
      /\ DOMAIN messages' = (DOMAIN messages) \cup {Len(messages) + 1}
      /\ \A i \in DOMAIN messages : messages'[i] = messages[i]
      /\ messages'[Len(messages) + 1] = msg
  BY <1>2, <1>4, AppendFacts DEF StoreType, msg
<1>7. \E to \in {"sent", "refused"} : composer' = [composer EXCEPT !.phase = to]
  BY DEF SendMessage
<1>8. composer'.phase \in {"sent", "refused"} /\ composer'.file = composer.file
  BY <1>7 DEF StoreType
<1>9. StoreType'
  BY <1>1, <1>6, <1>7 DEF StoreType, Composers
<1>10. UploadInv' /\ ComposerInv'
  BY <1>1, <1>8 DEF UploadInv, ComposerInv
<1>11. RowsHaveFiles' /\ OrphansExplained'
  BY <1>1 DEF RowsHaveFiles, OrphansExplained
<1>12. MessagesHaveRows'
  BY <1>1, <1>5, <1>6 DEF MessagesHaveRows
<1> QED BY <1>9, <1>10, <1>11, <1>12

-----------------------------------------------------------------------------
LEMMA StoreNext == StoreInv /\ [Next]_vars => StoreInv'
<1> SUFFICES ASSUME StoreInv, [Next]_vars PROVE StoreInv'
  OBVIOUS
<1> DEFINE Same == UNCHANGED <<composer, upload, disk, rows, messages, broken>>
<1>1. replyTo \in Quotable \cup {Null}
  BY DEF StoreInv, StoreType
<1>2. ASSUME NEW q \in Quotable \cup {Null}, ChooseReply(q) PROVE StoreInv'
  BY <1>2, Elsewhere DEF ChooseReply, server, history
<1>3. ASSUME NEW f \in LocalFiles, PickFile(f) PROVE StoreInv'
  <2>1. UNCHANGED <<disk, rows, messages, broken>>
    BY <1>3 DEF PickFile, server
  <2> QED BY <1>3, <2>1, ComposerSteps
<1>4. ASSUME NEW msg \in shown, ClickDownload(msg) PROVE StoreInv'
  BY <1>4, <1>1, Elsewhere DEF ClickDownload, sender, server, history
<1>5. ASSUME NEW m \in 1..MaxUploads, Download(m) PROVE StoreInv'
  <2>1. CASE ServeDownload(m)
    BY <2>1, <1>1, Elsewhere DEF ServeDownload, SetDownload, sender, server, history
  <2>2. CASE SendChunk(m)
    BY <2>2, <1>1, Elsewhere DEF SendChunk, SetDownload, sender, server, history
  <2>3. CASE ReceiveChunk(m)
    BY <2>3, <1>1, Elsewhere DEF ReceiveChunk, SetDownload, sender, server, history
  <2>4. CASE SettleDownload(m)
    BY <2>4, <1>1, Elsewhere DEF SettleDownload, sender, server
  <2> QED BY <1>5, <2>1, <2>2, <2>3, <2>4 DEF Download
<1>6. CASE BlockPeer
  BY <1>6, <1>1, Elsewhere DEF BlockPeer, server, history
<1>7. CASE Upload
  <2>1. CASE ReadFile \/ ReaderFails \/ UploadAnswered \/ MessageAnswered \/ SendRefused
    <3>1. UNCHANGED <<disk, rows, messages, broken>>
      BY <2>1 DEF ReadFile, ReaderFails, UploadAnswered, MessageAnswered, SendRefused,
                  server, history
    <3> QED BY <2>1, <3>1, ComposerSteps
  <2>2. CASE SaveFile \/ SaveMetadata \/ UploadFails \/ SendMessage
    BY <2>2, SaveFileStep, SaveMetadataStep, UploadFailsStep, SendMessageStep
  <2> QED BY <1>7, <2>1, <2>2 DEF Upload
<1>8. CASE ReceiveEvent
  BY <1>8, <1>1, Elsewhere DEF ReceiveEvent, sender, server, history
<1>9. CASE FetchMessages
  BY <1>9, <1>1, Elsewhere DEF FetchMessages, sender, server, history
<1>10. CASE RefreshToken
  BY <1>10, <1>1, Elsewhere DEF RefreshToken, sender, server, history
<1>11. CASE ReloadPage
  BY <1>11, <1>1, Elsewhere DEF ReloadPage, sender, server, history
<1>12. CASE UNCHANGED vars
  BY <1>12, <1>1, Elsewhere DEF vars, sender, server, history
<1> QED BY <1>2, <1>3, <1>4, <1>5, <1>6, <1>7, <1>8, <1>9, <1>10, <1>11, <1>12 DEF Next

LEMMA StoreInvariant == Spec => []StoreInv
<1>1. Init => StoreInv
  BY Initially
<1>2. StoreInv /\ [Next]_vars => StoreInv'
  BY StoreNext
<1> QED BY <1>1, <1>2, PTL DEF Spec

\* Alice's side and the server's keep their types: what MessageInput has under
\* way, the handler of UploadFile, the files and the messages about them.
THEOREM StoreTypeCorrect == Spec => []StoreType
<1>1. StoreInv => StoreType
  BY DEF StoreInv
<1> QED BY <1>1, StoreInvariant, PTL

\* However requests, writes, statements and messages fail, every row of files
\* has its whole file and every attachment of a message its row and its file;
\* a file without a row is what a failed write or INSERT left, or its INSERT is
\* under way (file_service.go 40-57, file_repository.go 22-24).
THEOREM RowsMatchFiles == Spec => []FilesMatchRows
<1>1. StoreInv => FilesMatchRows
  BY DEF StoreInv, RowsHaveFiles, MessagesHaveRows, OrphansExplained, FilesMatchRows, FileOf
<1> QED BY <1>1, StoreInvariant, PTL

-----------------------------------------------------------------------------
(* The wire                                                                *)

\* w is a sequence of fields with numbers from a to b, each at most once and
\* with the value g has for it; only defaults are left out.
Holds(w, a, b, g) ==
    /\ Len(w) \in Nat /\ DOMAIN w = 1..Len(w)
    /\ \E S : w \in Seq(S)
    /\ \A i \in DOMAIN w : w[i].number \in a..b /\ w[i].value = g[w[i].number]
    /\ \A i, j \in DOMAIN w : w[i].number = w[j].number => i = j
    /\ \A n \in a..b : g[n] = Default(n) \/ \E i \in DOMAIN w : w[i].number = n

LEMMA OneHolds ==
    ASSUME NEW n \in Nat, NEW g
    PROVE  Holds(<<[number |-> n, value |-> g[n]]>>, n, n, g)
<1> DEFINE e == [number |-> n, value |-> g[n]]
<1>1. /\ Len(<<e>>) = 1 /\ DOMAIN <<e>> = {1} /\ <<e>>[1] = e /\ n..n = {n} /\ 1..1 = {1}
  OBVIOUS
<1>2. <<e>> \in Seq({e})
  OBVIOUS
<1>3. \E S : <<e>> \in Seq(S)
  BY <1>2
<1> DEFINE w == <<e>>
<1>4. e.number = n /\ e.value = g[n]
  OBVIOUS
<1> HIDE DEF w, e
<1>5. /\ Len(w) = 1 /\ DOMAIN w = {1} /\ w[1] = e /\ \E S : w \in Seq(S)
  BY <1>1, <1>3 DEF w
<1>6. Holds(w, n, n, g)
  BY <1>1, <1>4, <1>5 DEF Holds
<1> QED BY <1>6 DEF w, e

LEMMA FieldHolds ==
    ASSUME NEW n \in Nat, NEW g
    PROVE  Holds(Field(n, g[n]), n, n, g)
<1>1. CASE g[n] = Default(n)
  <2>1. Field(n, g[n]) = <<>> /\ n..n = {n}
    BY <1>1 DEF Field
  <2>2. <<>> \in Seq({}) /\ Len(<<>>) = 0 /\ DOMAIN <<>> = {} /\ 1..0 = {}
    OBVIOUS
  <2> QED BY <1>1, <2>1, <2>2 DEF Holds
<1>2. CASE g[n] # Default(n)
  BY <1>2, OneHolds DEF Field
<1> QED BY <1>1, <1>2

\* Writing goes on with higher numbers.
LEMMA Joined ==
    ASSUME NEW v, NEW w, NEW g, NEW a \in Nat, NEW b \in Nat, NEW c \in Nat, a <= b, b < c,
           Holds(v, a, b, g), Holds(w, b + 1, c, g)
    PROVE  Holds(v \o w, a, c, g)
<1>1. PICK S, T : v \in Seq(S) /\ w \in Seq(T)
  BY DEF Holds
<1>2. v \in Seq(S \cup T) /\ w \in Seq(S \cup T)
  BY <1>1, SeqDef
<1> DEFINE m == Len(v)
           n == Len(w)
           x == v \o w
<1>3. /\ m \in Nat /\ n \in Nat /\ x \in Seq(S \cup T)
      /\ Len(x) = m + n /\ DOMAIN x = 1..(m + n) /\ DOMAIN v = 1..m /\ DOMAIN w = 1..n
      /\ \A i \in 1..(m + n) : x[i] = IF i <= m THEN v[i] ELSE w[i - m]
  BY <1>2, ConcatProperties, LenProperties DEF Holds
<1> HIDE DEF m, n, x
<1>h. /\ \A i \in 1..m : v[i].number \in a..b /\ v[i].value = g[v[i].number]
      /\ \A i, j \in 1..m : v[i].number = v[j].number => i = j
      /\ \A i \in 1..n : w[i].number \in (b + 1)..c /\ w[i].value = g[w[i].number]
      /\ \A i, j \in 1..n : w[i].number = w[j].number => i = j
  BY <1>3 DEF Holds
<1>4. /\ \A i \in 1..m : x[i] = v[i] /\ x[i].number \in a..b
      /\ \A i \in (m + 1)..(m + n) : /\ x[i] = w[i - m] /\ x[i].number \in (b + 1)..c
                                     /\ i - m \in 1..n
      /\ \A i \in 1..(m + n) : i \in 1..m \/ i \in (m + 1)..(m + n)
  <2>1. ASSUME NEW i \in 1..m PROVE x[i] = v[i]
    BY <1>3
  <2>2. ASSUME NEW i \in (m + 1)..(m + n) PROVE x[i] = w[i - m] /\ i - m \in 1..n
    BY <1>3
  <2>3. \A i \in 1..(m + n) : i \in 1..m \/ i \in (m + 1)..(m + n)
    BY <1>3
  <2> QED BY <1>h, <2>1, <2>2, <2>3
<1>5. \A i \in 1..(m + n) : x[i].number \in a..c /\ x[i].value = g[x[i].number]
  <2>1. ASSUME NEW i \in 1..m PROVE x[i].number \in a..c /\ x[i].value = g[x[i].number]
    BY <1>h, <1>4, <2>1
  <2>2. ASSUME NEW i \in (m + 1)..(m + n)
        PROVE  x[i].number \in a..c /\ x[i].value = g[x[i].number]
    BY <1>h, <1>4, <2>2
  <2> QED BY <1>4, <2>1, <2>2
<1>6. ASSUME NEW i \in 1..(m + n), NEW j \in 1..(m + n), x[i].number = x[j].number
      PROVE  i = j
  <2>1. CASE i \in 1..m /\ j \in 1..m
    BY <1>h, <1>4, <1>6, <2>1
  <2>2. CASE i \in (m + 1)..(m + n) /\ j \in (m + 1)..(m + n)
    <3>1. i - m = j - m
      BY <1>h, <1>4, <1>6, <2>2
    <3> QED BY <1>3, <2>2, <3>1
  <2>3. CASE (i \in 1..m /\ j \in (m + 1)..(m + n)) \/ (i \in (m + 1)..(m + n) /\ j \in 1..m)
    <3>1. \A k \in a..b : k \notin (b + 1)..c
      OBVIOUS
    <3> QED BY <1>4, <1>6, <2>3, <3>1
  <2> QED BY <1>4, <2>1, <2>2, <2>3
<1>7. ASSUME NEW k \in a..c, g[k] # Default(k)
      PROVE  \E i \in 1..(m + n) : x[i].number = k
  <2>1. CASE k \in a..b
    <3>1. PICK i \in 1..m : v[i].number = k
      BY <1>3, <1>7, <2>1 DEF Holds
    <3> QED BY <1>3, <1>4, <3>1
  <2>2. CASE k \in (b + 1)..c
    <3>1. PICK i \in 1..n : w[i].number = k
      BY <1>3, <1>7, <2>2 DEF Holds
    <3>2. i \in Nat /\ m \in Nat /\ n \in Nat /\ 1 <= i /\ i <= n
      BY <1>3, <3>1
    <3>3. i + m \in 1..(m + n) /\ i + m > m /\ (i + m) - m = i
      BY <3>2
    <3>4. i + m \in (m + 1)..(m + n)
      BY <3>2
    <3>5. x[i + m] = w[(i + m) - m]
      BY <1>4, <3>4
    <3> QED BY <3>1, <3>3, <3>5
  <2> QED BY <2>1, <2>2
<1>8. \E U : x \in Seq(U)
  BY <1>3
<1>9. \A k \in a..c : g[k] = Default(k) \/ \E i \in DOMAIN x : x[i].number = k
  <2>1. DOMAIN x = 1..(m + n)
    BY <1>3
  <2> HIDE DEF x
  <2> QED BY <1>7, <2>1
<1>10. Holds(x, a, c, g)
  <2>1. Len(x) \in Nat /\ DOMAIN x = 1..Len(x)
    BY <1>3
  <2> QED BY <1>3, <1>5, <1>6, <1>8, <1>9, <2>1 DEF Holds
<1> QED BY <1>10 DEF x

\* What the reader finds is what was written.
LEMMA ReadBack ==
    ASSUME NEW w, NEW g, NEW a \in Nat, NEW b \in Nat, Holds(w, a, b, g)
    PROVE  /\ \A n \in a..b : Value(w, n) = g[n]
           /\ \A n \in a..b : Places(w, n) # {} => LastOf(w, n) = g[n]
           /\ \A n : n \notin a..b => Places(w, n) = {}
<1>1. ASSUME NEW n \in a..b, Places(w, n) # {}
      PROVE  LastOf(w, n) = g[n]
  <2>1. PICK i \in DOMAIN w : w[i].number = n
    BY <1>1 DEF Places
  <2>2. Places(w, n) = {i} /\ i \in Nat
    BY <2>1 DEF Places, Holds
  <2>3. (CHOOSE k \in Places(w, n) : \A j \in Places(w, n) : j <= k) = i
    BY <2>2
  <2> QED BY <2>1, <2>3 DEF LastOf, Holds
<1>2. ASSUME NEW n \in a..b, Places(w, n) = {}
      PROVE  g[n] = Default(n)
  BY <1>2 DEF Places, Holds
<1>3. ASSUME NEW n, n \notin a..b
      PROVE  Places(w, n) = {}
  BY <1>3 DEF Places, Holds
<1> QED BY <1>1, <1>2, <1>3 DEF Value

\* A message by its fields, without what it quotes
IsMessage(msg) ==
    msg = [id |-> msg.id, chatId |-> msg.chatId, senderId |-> msg.senderId,
           encryptedContent |-> msg.encryptedContent, isEncrypted |-> msg.isEncrypted,
           sentAt |-> msg.sentAt, createdAt |-> msg.createdAt, isEdited |-> msg.isEdited,
           isDeleted |-> msg.isDeleted, replyTo |-> msg.replyTo]

\* A message that is one because it is a function on the fields of a new one.
HasFields(msg) ==
    DOMAIN msg = DOMAIN NewMessageResponse /\ msg = [k \in DOMAIN msg |-> msg[k]]

LEMMA FieldsSuffice ==
    ASSUME NEW msg, HasFields(msg)
    PROVE  IsMessage(msg)
<1> DEFINE names == {"id", "chatId", "senderId", "encryptedContent", "isEncrypted", "sentAt",
                     "createdAt", "isEdited", "isDeleted", "replyTo"}
           r == [id |-> msg.id, chatId |-> msg.chatId, senderId |-> msg.senderId,
                 encryptedContent |-> msg.encryptedContent, isEncrypted |-> msg.isEncrypted,
                 sentAt |-> msg.sentAt, createdAt |-> msg.createdAt, isEdited |-> msg.isEdited,
                 isDeleted |-> msg.isDeleted, replyTo |-> msg.replyTo]
<1>1. DOMAIN msg = names
  BY DEF HasFields, NewMessageResponse
<1>2. DOMAIN r = names
  OBVIOUS
<1>3. \A k \in DOMAIN r : r[k] = msg[k]
  OBVIOUS
<1>4. r = [k \in DOMAIN r |-> r[k]]
  OBVIOUS
<1> HIDE DEF r, names
<1>5. r = msg
  BY <1>1, <1>2, <1>3, <1>4 DEF HasFields
<1> QED BY <1>5 DEF IsMessage, r

Values(msg, quoted) ==
    <<msg.id, msg.chatId, msg.senderId, msg.encryptedContent, msg.isEncrypted, msg.sentAt,
      msg.createdAt, msg.isEdited, msg.isDeleted, quoted>>

LEMMA ScalarsHold ==
    ASSUME NEW msg, NEW quoted
    PROVE  Holds(WriteScalars(msg), 1, 9, Values(msg, quoted))
<1> DEFINE g == Values(msg, quoted)
<1>1. /\ g[1] = msg.id /\ g[2] = msg.chatId /\ g[3] = msg.senderId
      /\ g[4] = msg.encryptedContent /\ g[5] = msg.isEncrypted /\ g[6] = msg.sentAt
      /\ g[7] = msg.createdAt /\ g[8] = msg.isEdited /\ g[9] = msg.isDeleted
  BY DEF Values
<1> HIDE DEF g
<1>2. \A n \in 1..9 : Holds(Field(n, g[n]), n, n, g)
  BY FieldHolds
<1> DEFINE w2 == Field(1, g[1]) \o Field(2, g[2])
           w3 == w2 \o Field(3, g[3])
           w4 == w3 \o Field(4, g[4])
           w5 == w4 \o Field(5, g[5])
           w6 == w5 \o Field(6, g[6])
           w7 == w6 \o Field(7, g[7])
           w8 == w7 \o Field(8, g[8])
           w9 == w8 \o Field(9, g[9])
<1>3. WriteScalars(msg) = w9
  BY <1>1 DEF WriteScalars
<1>4. Holds(w2, 1, 2, g)
  BY <1>2, Joined
<1> HIDE DEF w2
<1>5. Holds(w3, 1, 3, g)
  BY <1>2, <1>4, Joined
<1> HIDE DEF w3
<1>6. Holds(w4, 1, 4, g)
  BY <1>2, <1>5, Joined
<1> HIDE DEF w4
<1>7. Holds(w5, 1, 5, g)
  BY <1>2, <1>6, Joined
<1> HIDE DEF w5
<1>8. Holds(w6, 1, 6, g)
  BY <1>2, <1>7, Joined
<1> HIDE DEF w6
<1>9. Holds(w7, 1, 7, g)
  BY <1>2, <1>8, Joined
<1> HIDE DEF w7
<1>10. Holds(w8, 1, 8, g)
  BY <1>2, <1>9, Joined
<1> HIDE DEF w8
<1>11. Holds(w9, 1, 9, g)
  BY <1>2, <1>10, Joined
<1> QED BY <1>3, <1>11 DEF g

\* The scalars are read back, whatever stands behind them.
LEMMA ScalarsBack ==
    ASSUME NEW msg, NEW quoted, NEW w, NEW last \in {9, 10},
           Holds(w, 1, last, Values(msg, quoted)), IsMessage(msg)
    PROVE  ReadScalars(w) = [msg EXCEPT !.replyTo = Null]
<1> DEFINE g == Values(msg, quoted)
<1>1. \A n \in 1..9 : Value(w, n) = g[n]
  BY ReadBack
<1>2. /\ g[1] = msg.id /\ g[2] = msg.chatId /\ g[3] = msg.senderId
      /\ g[4] = msg.encryptedContent /\ g[5] = msg.isEncrypted /\ g[6] = msg.sentAt
      /\ g[7] = msg.createdAt /\ g[8] = msg.isEdited /\ g[9] = msg.isDeleted
  BY DEF Values
<1>3. /\ Value(w, 1) = msg.id /\ Value(w, 2) = msg.chatId /\ Value(w, 3) = msg.senderId
      /\ Value(w, 4) = msg.encryptedContent /\ Value(w, 5) = msg.isEncrypted
      /\ Value(w, 6) = msg.sentAt /\ Value(w, 7) = msg.createdAt
      /\ Value(w, 8) = msg.isEdited /\ Value(w, 9) = msg.isDeleted
  BY <1>1, <1>2
<1> QED BY <1>3 DEF ReadScalars, IsMessage

\* The reader of the generated code makes of what its writer wrote the message
\* itself, with what it quotes (message_pb.js 926-1088).
THEOREM MessageRoundTrip ==
    ASSUME NEW msg, IsMessage(msg),
           msg.replyTo # Null => IsMessage(msg.replyTo) /\ msg.replyTo.replyTo = Null
    PROVE  DeserializeMessage(SerializeMessage(msg)) = msg
<1>1. CASE ~HasReplyTo(msg)
  <2>1. Holds(WriteScalars(msg), 1, 9, Values(msg, Null))
    BY ScalarsHold
  <2>2. ReadScalars(WriteScalars(msg)) = msg
    <3>1. ReadScalars(WriteScalars(msg)) = [msg EXCEPT !.replyTo = Null]
      BY <2>1, ScalarsBack
    <3> QED BY <1>1, <3>1 DEF HasReplyTo, IsMessage
  <2>3. Places(WriteScalars(msg), ReplyToField) = {}
    <3>1. 10 \notin 1..9
      OBVIOUS
    <3> QED BY <2>1, <3>1, ReadBack DEF ReplyToField
  <2> QED BY <1>1, <2>2, <2>3 DEF SerializeMessage, DeserializeMessage
<1>2. CASE HasReplyTo(msg)
  <2> DEFINE quoted == WriteScalars(msg.replyTo)
             e == [number |-> 10, value |-> quoted]
             g == Values(msg, quoted)
             w == WriteScalars(msg)
  <2>1. Holds(w, 1, 9, g)
    BY ScalarsHold
  <2>2. Holds(<<e>>, 10, 10, g)
    <3>1. g[10] = quoted
      BY DEF Values
    <3> HIDE DEF g, quoted
    <3> QED BY <3>1, OneHolds
  <2>3. Append(w, e) = w \o <<e>>
    <3>1. PICK S : w \in Seq(S)
      BY <2>1 DEF Holds
    <3> HIDE DEF w, e
    <3>2. w \in Seq(S \cup {e}) /\ e \in S \cup {e}
      BY <3>1, SeqDef
    <3> QED BY <3>2, AppendIsConcat
  <2>4. SerializeMessage(msg) = w \o <<e>>
    BY <1>2, <2>3 DEF SerializeMessage, ReplyToField
  <2> HIDE DEF w, e, g, quoted
  <2>5. Holds(w \o <<e>>, 1, 10, g)
    BY <2>1, <2>2, Joined
  <2>6. ReadScalars(w \o <<e>>) = [msg EXCEPT !.replyTo = Null]
    BY <2>5, ScalarsBack DEF g
  <2>7. /\ Places(w \o <<e>>, 10) # {}
        /\ LastOf(w \o <<e>>, 10) = quoted
    <3>1. g[10] = quoted
      BY DEF g, Values
    <3>2. PICK S : w \in Seq(S)
      BY <2>1 DEF Holds
    <3>3. w \in Seq(S \cup {e}) /\ <<e>> \in Seq(S \cup {e})
      BY <3>2, SeqDef
    <3>4. /\ Len(w) + 1 \in DOMAIN (w \o <<e>>) /\ (w \o <<e>>)[Len(w) + 1] = e
      BY <3>3, ConcatProperties, LenProperties
    <3>5. Len(w) + 1 \in Places(w \o <<e>>, 10)
      BY <3>4 DEF Places, e
    <3>6. Places(w \o <<e>>, 10) # {}
      BY <3>5
    <3>7. 10 \in 1..10
      OBVIOUS
    <3>8. LastOf(w \o <<e>>, 10) = g[10]
      BY <2>5, <3>6, <3>7, ReadBack
    <3> QED BY <3>1, <3>6, <3>8
  <2>8. ReadScalars(quoted) = msg.replyTo
    <3>1. Holds(quoted, 1, 9, Values(msg.replyTo, Null))
      BY ScalarsHold DEF quoted
    <3>2. IsMessage(msg.replyTo) /\ msg.replyTo.replyTo = Null
      BY <1>2 DEF HasReplyTo
    <3>3. ReadScalars(quoted) = [msg.replyTo EXCEPT !.replyTo = Null]
      BY <3>1, <3>2, ScalarsBack
    <3> QED BY <3>2, <3>3 DEF IsMessage
  <2>9. DeserializeMessage(w \o <<e>>) = [msg EXCEPT !.replyTo = msg.replyTo]
    BY <2>6, <2>7, <2>8 DEF DeserializeMessage, SetReplyTo, ReplyToField, IsMessage
  <2> QED BY <2>4, <2>9 DEF IsMessage
<1> QED BY <1>1, <1>2

\* A request and a chunk are what was sent.
LEMMA OneFieldRoundTrip ==
    ASSUME NEW value
    PROVE  /\ DeserializeRequest(SerializeRequest(value)) = value
           /\ DeserializeChunk(SerializeChunk(value)) = value
<1> DEFINE g == <<value>>
<1>1. g[1] = value
  OBVIOUS
<1> HIDE DEF g
<1>2. Holds(Field(1, value), 1, 1, g)
  BY <1>1, FieldHolds
<1>3. Value(Field(1, value), 1) = value
  BY <1>1, <1>2, ReadBack
<1> QED BY <1>3 DEF DeserializeRequest, SerializeRequest, DeserializeChunk, SerializeChunk,
                    OnlyField

-----------------------------------------------------------------------------
(* Bob's side                                                              *)

Wires == {SerializeMessage(EventOf(m)) : m \in DOMAIN messages}
Pieces(m) == {SerializeChunk(<<FileOf(m), i>>) : i \in 1..ChunkCount[FileOf(m)]}

\* What was chosen for a message is what its row quotes, and what the message
\* under way will quote.
SentInv ==
    /\ DOMAIN chosen = 1..MaxUploads
    /\ \A m \in DOMAIN messages : chosen[m] = messages[m].quote
    /\ composer.phase \in {"reading", "posted", "sending"} =>
         composer.quote = chosen[Len(messages) + 1]

\* The list shows rows, as they were fetched or as they came in events.
ShownInv ==
    /\ channel \in Seq(Wires)
    /\ \A s \in shown : s.id \in DOMAIN messages /\ s \in {RowOf(s.id), EventOf(s.id)}

\* The calls a click makes of a message
Calls(m) ==
    {CallDownloadFile(BackendFileName(messages[m].attachment), t) : t \in {"valid", Null}}

DownloadType(m) ==
    [call : Calls(m),
     state : {"called", "open", "end", "error"},
     at : 0..ChunkCount[FileOf(m)],
     wire : Seq(Pieces(m)),
     chunks : Seq(LocalFiles \X Nat),
     fault : BOOLEAN]

\* Why a download fails.
Explained(m, token, fault) ==
    separator = "slash" \/ FileOf(m) \in Forbidden \/ token = Null \/ fault

\* A download asks for the file of the message.  What has come and what is on
\* the wire are its first chunks in their order, all of them when the stream
\* has ended.  It was opened only on a server with backslashes.
DownloadInv(m, d) ==
    /\ m \in DOMAIN messages
    /\ d \in DownloadType(m)
    /\ Len(d.chunks) + Len(d.wire) = d.at
    /\ \A i \in 1..Len(d.chunks) : d.chunks[i] = <<FileOf(m), i>>
    /\ \A i \in 1..Len(d.wire) :
         d.wire[i] = SerializeChunk(<<FileOf(m), Len(d.chunks) + i>>)
    /\ d.state \in {"open", "end"} => separator = "backslash"
    /\ d.state = "end" => d.at = ChunkCount[FileOf(m)]
    /\ d.state = "error" => Explained(m, d.call.token, d.fault)

DownloadsInv ==
    /\ stream.token \in {"valid", Null}
    /\ DOMAIN downloads = 1..MaxUploads
    /\ \A m \in 1..MaxUploads : downloads[m] # Null => DownloadInv(m, downloads[m])

EndedInv ==
    /\ \A s \in saved :
         /\ separator = "backslash" /\ s.msg \in DOMAIN messages
         /\ s.chunks = [i \in 1..ChunkCount[FileOf(s.msg)] |-> <<FileOf(s.msg), i>>]
    /\ \A f \in failures : f.msg \in DOMAIN messages /\ Explained(f.msg, f.token, f.fault)

ReceiverInv ==
    /\ separator \in {"slash", "backslash"}
    /\ SentInv /\ ShownInv /\ DownloadsInv /\ EndedInv

LEMMA ReceiverInit == Init => ReceiverInv
<1> SUFFICES ASSUME Init PROVE ReceiverInv
  OBVIOUS
<1>1. SentInv
  <2>1. composer.phase = "idle" /\ DOMAIN messages = {} /\ DOMAIN chosen = 1..MaxUploads
    BY DEF Init, Idle
  <2> QED BY <2>1 DEF SentInv
<1>2. ShownInv
  BY DEF Init, ShownInv
<1>3. DownloadsInv
  BY DEF Init, DownloadsInv
<1>4. EndedInv /\ separator \in {"slash", "backslash"}
  BY DEF Init, EndedInv
<1> QED BY <1>1, <1>2, <1>3, <1>4 DEF ReceiverInv

\* What is said of a message depends on its row only.
LEMMA SameRow ==
    ASSUME NEW m, messages'[m] = messages[m], separator' = separator
    PROVE  /\ RowOf(m)' = RowOf(m) /\ EventOf(m)' = EventOf(m) /\ FileOf(m)' = FileOf(m)
           /\ DownloadType(m)' = DownloadType(m)
           /\ \A t, x : Explained(m, t, x)' = Explained(m, t, x)
<1>1. RowOf(m)' = RowOf(m) /\ FileOf(m)' = FileOf(m)
  BY DEF RowOf, FileOf
<1>2. EventOf(m)' = EventOf(m)
  BY <1>1 DEF EventOf
<1>3. Calls(m)' = Calls(m)
  BY DEF Calls, BackendFileName
<1>4. Pieces(m)' = Pieces(m)
  BY <1>1 DEF Pieces
<1>5. DownloadType(m)' = DownloadType(m)
  BY <1>1, <1>3, <1>4 DEF DownloadType
<1>6. \A t, x : Explained(m, t, x)' = Explained(m, t, x)
  BY <1>1 DEF Explained
<1> QED BY <1>1, <1>2, <1>5, <1>6

LEMMA SameDownload ==
    ASSUME NEW m, messages'[m] = messages[m], separator' = separator,
           m \in DOMAIN messages => m \in DOMAIN messages', NEW d, DownloadInv(m, d)
    PROVE  DownloadInv(m, d)'
<1>1. /\ FileOf(m)' = FileOf(m) /\ DownloadType(m)' = DownloadType(m)
      /\ \A t, x : Explained(m, t, x)' = Explained(m, t, x)
  BY SameRow
<1> QED BY <1>1 DEF DownloadInv

\* Steps without a new message: what they leave alone stays right.
LEMMA SentFrame ==
    ASSUME SentInv, UNCHANGED <<messages, chosen, composer>>
    PROVE  SentInv'
  BY DEF SentInv

LEMMA ShownFrame ==
    ASSUME ShownInv, UNCHANGED <<separator, messages, channel, shown>>
    PROVE  ShownInv'
<1>1. \A m : RowOf(m)' = RowOf(m) /\ EventOf(m)' = EventOf(m)
  BY SameRow
<1>2. Wires' = Wires
  BY <1>1 DEF Wires
<1> QED BY <1>1, <1>2 DEF ShownInv

LEMMA DownloadsFrame ==
    ASSUME DownloadsInv, UNCHANGED <<separator, messages>>,
           stream'.token \in {"valid", Null}, DOMAIN downloads' = 1..MaxUploads,
           \A m \in 1..MaxUploads :
               downloads'[m] = downloads[m] \/ downloads'[m] = Null
                   \/ DownloadInv(m, downloads'[m])
    PROVE  DownloadsInv'
<1>1. ASSUME NEW m \in 1..MaxUploads, NEW d, d = downloads'[m], d # Null
      PROVE  DownloadInv(m, d)'
  <2>1. DownloadInv(m, d)
    BY <1>1 DEF DownloadsInv
  <2> QED BY <2>1, SameDownload
<1>2. \A m \in 1..MaxUploads : downloads'[m] # Null => DownloadInv(m, downloads[m])'
  BY <1>1 DEF DownloadInv
<1> QED BY <1>2 DEF DownloadsInv

LEMMA EndedFrame ==
    ASSUME EndedInv, UNCHANGED <<separator, messages, saved, failures>>
    PROVE  EndedInv'
  BY DEF EndedInv, Explained, FileOf

\* Steps of Alice and of the server other than the sending.
LEMMA Apart ==
    ASSUME ReceiverInv, SentInv',
           UNCHANGED <<separator, messages, channel, receiver, saved, failures>>
    PROVE  ReceiverInv'
<1>1. UNCHANGED <<shown, stream, downloads>>
  BY DEF receiver
<1>2. ShownInv' /\ EndedInv'
  BY <1>1, ShownFrame, EndedFrame DEF ReceiverInv
<1>3. DownloadsInv'
  BY <1>1, DownloadsFrame DEF ReceiverInv, DownloadsInv
<1> QED BY <1>1, <1>2, <1>3 DEF ReceiverInv

\* The quote is kept while the file is read, uploaded and sent.
LEMMA QuoteKept ==
    ASSUME StoreInv, SentInv,
           \/ \E f \in LocalFiles : PickFile(f)
           \/ ReadFile \/ ReaderFails \/ UploadAnswered \/ MessageAnswered \/ SendRefused
    PROVE  SentInv'
<1> DEFINE on == {"reading", "posted", "sending"}
<1>1. /\ composer \in [phase : Composers, file : LocalFiles \cup {Null},
                      quote : Quotable \cup {Null}, url : Nat \cup {Null}]
      /\ Len(messages) \in Nat /\ DOMAIN messages = 1..Len(messages)
  BY LenProperties DEF StoreInv, StoreType
<1>2. ASSUME NEW f \in LocalFiles, PickFile(f) PROVE SentInv'
  <2>1. /\ Len(messages) < MaxUploads /\ messages' = messages
        /\ composer' = [Idle EXCEPT !.phase = "reading", !.file = f, !.quote = replyTo]
        /\ chosen' = [chosen EXCEPT ![Len(messages) + 1] = replyTo]
    BY <1>2 DEF PickFile, server
  <2>2. Len(messages) + 1 \in 1..MaxUploads /\ Len(messages) + 1 \notin DOMAIN messages
    BY <1>1, <2>1, FilesAssumption
  <2>3. composer'.quote = replyTo
    BY <2>1 DEF Idle
  <2> QED BY <2>1, <2>2, <2>3 DEF SentInv
<1>3. CASE ReadFile \/ ReaderFails \/ UploadAnswered \/ MessageAnswered \/ SendRefused
  <2>1. UNCHANGED <<messages, chosen>>
    BY <1>3 DEF ReadFile, ReaderFails, UploadAnswered, MessageAnswered, SendRefused, server,
                history
  <2>2. \/ composer' = Idle
        \/ \E to \in {"unread", "refused"} : composer' = [composer EXCEPT !.phase = to]
        \/ /\ composer.phase \in on
           /\ \/ composer' = [composer EXCEPT !.phase = "posted"]
              \/ composer' = [composer EXCEPT !.phase = "sending", !.url = upload.id]
    BY <1>3 DEF ReadFile, ReaderFails, UploadAnswered, MessageAnswered, SendRefused, GiveUp
  <2>3. composer'.phase \in on => composer.phase \in on /\ composer'.quote = composer.quote
    <3>1. CASE composer' = Idle
      BY <3>1 DEF Idle
    <3>2. ASSUME NEW to \in {"unread", "refused"}, composer' = [composer EXCEPT !.phase = to]
          PROVE  composer'.phase \notin on
      BY <1>1, <3>2
    <3>3. CASE /\ composer.phase \in on
               /\ composer' = [composer EXCEPT !.phase = "posted"]
      <4>1. composer'.quote = composer.quote
        BY <1>1, <3>3
      <4> QED BY <3>3, <4>1
    <3>4. CASE /\ composer.phase \in on
               /\ composer' = [composer EXCEPT !.phase = "sending", !.url = upload.id]
      <4>1. composer'.quote = composer.quote
        BY <1>1, <3>4
      <4> QED BY <3>4, <4>1
    <3> QED BY <2>2, <3>1, <3>2, <3>3, <3>4
  <2> QED BY <2>1, <2>3 DEF SentInv
<1> QED BY <1>2, <1>3

\* A new message changes nothing about the earlier ones, and its event is its row.
LEMMA SendArrives ==
    ASSUME StoreInv, ReceiverInv, SendMessage
    PROVE  ReceiverInv'
<1>0. /\ composer.file \in LocalFiles /\ composer.quote \in Quotable \cup {Null}
      /\ composer.url \in Nat
  <2>1. composer.phase = "sending"
    BY DEF SendMessage
  <2>2. composer.url \in DOMAIN disk /\ DOMAIN disk = 1..Len(disk)
    BY <2>1, LenProperties DEF StoreInv, StoreType, ComposerInv, RowsHaveFiles
  <2>3. composer.url \in Nat
    BY <2>2
  <2> QED BY <2>1, <2>3 DEF StoreInv, StoreType, ComposerInv
<1>1. PICK msg \in Contents : messages' = Append(messages, msg) /\ msg.quote = composer.quote
  <2>1. PICK isEncrypted \in BOOLEAN :
          messages' = Append(messages,
             [attachment |-> [isFile |-> TRUE, file |-> composer.file, fileUrl |-> composer.url],
              isEncrypted |-> isEncrypted, quote |-> composer.quote])
    BY DEF SendMessage
  <2> DEFINE new == [attachment |-> [isFile |-> TRUE, file |-> composer.file,
                                     fileUrl |-> composer.url],
                     isEncrypted |-> isEncrypted, quote |-> composer.quote]
  <2>2. new \in Contents /\ new.quote = composer.quote
    BY <1>0 DEF Contents, Attachments
  <2> HIDE DEF new
  <2>3. messages' = Append(messages, new)
    BY <2>1 DEF new
  <2> QED BY <2>2, <2>3
<1>2. messages \in Seq(Contents)
  BY DEF StoreInv, StoreType
<1>3. PICK n : n = Len(messages) + 1
  OBVIOUS
<1>4. /\ DOMAIN messages' = (DOMAIN messages) \cup {n} /\ n \notin DOMAIN messages
      /\ \A m \in DOMAIN messages : messages'[m] = messages[m]
      /\ messages'[n] = msg /\ messages' \in Seq(Contents)
  BY <1>1, <1>2, <1>3, AppendFacts
<1>5. Len(messages') = n
  BY <1>1, <1>2, <1>3, AppendProperties
<1>6. /\ UNCHANGED <<separator, shown, stream, downloads, saved, failures>>
      /\ chosen' = chosen
      /\ channel' \in {channel, Append(channel, SerializeMessage(EventOf(n)'))}
  <2>1. EventOf(Len(messages))' = EventOf(n)'
    BY <1>5 DEF EventOf, RowOf
  <2> QED BY <1>1, <2>1 DEF SendMessage, receiver, history
<1>7. \A m \in DOMAIN messages :
          /\ RowOf(m)' = RowOf(m) /\ EventOf(m)' = EventOf(m) /\ FileOf(m)' = FileOf(m)
          /\ \A t, x : Explained(m, t, x)' = Explained(m, t, x)
  BY <1>4, <1>6, SameRow
<1>8. SentInv'
  <2>1. composer.phase = "sending" /\ msg.quote = chosen[n]
    BY <1>1, <1>3 DEF SendMessage, ReceiverInv, SentInv
  <2>2. composer'.phase \in {"sent", "refused"}
    <3>1. \E to \in {"sent", "refused"} : composer' = [composer EXCEPT !.phase = to]
      BY DEF SendMessage
    <3> QED BY <3>1 DEF StoreInv, StoreType
  <2> QED BY <1>4, <1>6, <2>1, <2>2 DEF ReceiverInv, SentInv
<1>9. ShownInv'
  <2>1. Wires' = Wires \cup {SerializeMessage(EventOf(n)')}
    BY <1>4, <1>7 DEF Wires
  <2>2. channel \in Seq(Wires) /\ Seq(Wires) \subseteq Seq(Wires')
    BY <2>1, SeqDef DEF ReceiverInv, ShownInv
  <2>3. channel' \in Seq(Wires')
    BY <1>6, <2>1, <2>2, AppendProperties
  <2> QED BY <1>4, <1>6, <1>7, <2>3 DEF ReceiverInv, ShownInv
<1>10. DownloadsInv'
  <2> SUFFICES ASSUME NEW m \in 1..MaxUploads, downloads[m] # Null
               PROVE  DownloadInv(m, downloads[m])'
    BY <1>6 DEF ReceiverInv, DownloadsInv
  <2>1. DownloadInv(m, downloads[m])
    BY DEF ReceiverInv, DownloadsInv
  <2>2. PICK d : d = downloads[m]
    OBVIOUS
  <2>3. m \in DOMAIN messages
    BY <2>1 DEF DownloadInv
  <2>4. DownloadInv(m, d)'
    BY <1>4, <1>6, <2>1, <2>2, <2>3, SameDownload
  <2> QED BY <1>6, <2>2, <2>4 DEF DownloadInv
<1>11. EndedInv'
  <2>1. ASSUME NEW s \in saved
        PROVE  /\ separator' = "backslash" /\ s.msg \in DOMAIN messages'
               /\ s.chunks = [i \in 1..ChunkCount[FileOf(s.msg)'] |-> <<FileOf(s.msg)', i>>]
    BY <1>4, <1>6, <1>7 DEF ReceiverInv, EndedInv
  <2>2. ASSUME NEW f \in failures
        PROVE  f.msg \in DOMAIN messages' /\ Explained(f.msg, f.token, f.fault)'
    <3>1. f.msg \in DOMAIN messages /\ Explained(f.msg, f.token, f.fault)
      BY DEF ReceiverInv, EndedInv
    <3> QED BY <1>4, <1>7, <3>1
  <2> QED BY <1>6, <2>1, <2>2 DEF EndedInv
<1> QED BY <1>6, <1>8, <1>9, <1>10, <1>11 DEF ReceiverInv

LEMMA RowHasFields ==
    ASSUME NEW m
    PROVE  HasFields(RowOf(m))
<1>1. DOMAIN RowOf(m) = DOMAIN NewMessageResponse
  BY DEF RowOf
<1>2. RowOf(m) = [k \in DOMAIN RowOf(m) |-> RowOf(m)[k]]
  BY DEF RowOf
<1> QED BY <1>1, <1>2 DEF HasFields

\* A row and its event are messages the wire gives back, and the handler that
\* copies the fields loses none of them.
LEMMA EventArrives ==
    ASSUME NEW m
    PROVE  Received(DeserializeMessage(SerializeMessage(EventOf(m)))) = EventOf(m)
<1> DEFINE quoted == QuoteOf(messages[m].quote)
           dated == [quoted EXCEPT !.sentAt = "time"]
<1>1. /\ IsMessage(RowOf(m)) /\ RowOf(m).replyTo = quoted
      /\ RowOf(m).isEdited = FALSE /\ RowOf(m).isDeleted = FALSE
  <2> HIDE DEF quoted
  <2>1. HasFields(RowOf(m))
    BY RowHasFields
  <2>2. RowOf(m).replyTo = quoted
    BY DEF RowOf, NewMessageResponse, quoted
  <2>3. RowOf(m).isEdited = FALSE /\ RowOf(m).isDeleted = FALSE
    BY DEF RowOf, NewMessageResponse
  <2> QED BY <2>1, <2>2, <2>3, FieldsSuffice
<1>2. messages[m].quote # Null =>
        /\ IsMessage(quoted) /\ quoted.replyTo = Null
        /\ IsMessage(dated) /\ dated.replyTo = Null
  <2> SUFFICES ASSUME messages[m].quote # Null
               PROVE  /\ IsMessage(quoted) /\ quoted.replyTo = Null
                      /\ IsMessage(dated) /\ dated.replyTo = Null
    OBVIOUS
  <2>1. HasFields(quoted) /\ quoted.replyTo = Null
    BY DEF QuoteOf, HasFields, NewMessageResponse
  <2> HIDE DEF quoted
  <2>2. HasFields(dated) /\ dated.replyTo = Null
    BY <2>1 DEF HasFields, NewMessageResponse
  <2> QED BY <2>1, <2>2, FieldsSuffice
<1> HIDE DEF quoted, dated
<1>3. CASE messages[m].quote = Null
  <2>1. EventOf(m) = RowOf(m) /\ quoted = Null
    BY <1>3 DEF EventOf, QuoteOf, quoted
  <2>2. DeserializeMessage(SerializeMessage(RowOf(m))) = RowOf(m)
    BY <1>1, <2>1, MessageRoundTrip
  <2>3. Received(RowOf(m)) = RowOf(m)
    BY <1>1, <2>1 DEF Received, HasReplyTo, IsMessage
  <2> QED BY <2>1, <2>2, <2>3
<1>4. CASE messages[m].quote # Null
  <2>1. EventOf(m) = [RowOf(m) EXCEPT !.replyTo = dated]
    BY <1>1, <1>4 DEF EventOf, dated
  <2>2. /\ IsMessage(EventOf(m)) /\ EventOf(m).replyTo = dated
        /\ EventOf(m).isEdited = FALSE /\ EventOf(m).isDeleted = FALSE
    BY <1>1, <2>1 DEF IsMessage
  <2>3. DeserializeMessage(SerializeMessage(EventOf(m))) = EventOf(m)
    BY <1>2, <1>4, <2>2, MessageRoundTrip
  <2>4. SetReplyTo(dated, Null) = dated
    BY <1>2, <1>4 DEF SetReplyTo, IsMessage
  <2>5. Received(EventOf(m)) = EventOf(m)
    BY <2>2, <2>4 DEF Received, HasReplyTo, IsMessage
  <2> QED BY <2>3, <2>5
<1> QED BY <1>3, <1>4

LEMMA RowId ==
    ASSUME NEW m
    PROVE  /\ RowOf(m).id = m /\ EventOf(m).id = m
           /\ RowOf(m).encryptedContent = messages[m].attachment
           /\ EventOf(m).encryptedContent = messages[m].attachment
<1>1. RowOf(m).id = m /\ RowOf(m).encryptedContent = messages[m].attachment
  BY DEF RowOf, NewMessageResponse
<1>2. EventOf(m).id = RowOf(m).id /\ EventOf(m).encryptedContent = RowOf(m).encryptedContent
  BY DEF EventOf, RowOf, NewMessageResponse
<1> QED BY <1>1, <1>2

LEMMA ReceiveArrives ==
    ASSUME ReceiverInv, ReceiveEvent
    PROVE  ReceiverInv'
<1>1. /\ channel # <<>> /\ channel' = Tail(channel)
      /\ shown' = Show(Received(DeserializeMessage(Head(channel))))
      /\ UNCHANGED <<separator, messages, chosen, composer, stream, downloads, saved, failures>>
  BY DEF ReceiveEvent, sender, server, history
<1>2. channel \in Seq(Wires) /\ Head(channel) \in Wires /\ Tail(channel) \in Seq(Wires)
  BY <1>1, HeadTailProperties DEF ReceiverInv, ShownInv
<1>3. PICK m \in DOMAIN messages : Head(channel) = SerializeMessage(EventOf(m))
  BY <1>2 DEF Wires
<1>4. shown' \subseteq shown \cup {EventOf(m)}
  BY <1>1, <1>3, EventArrives DEF Show
<1>5. \A x : RowOf(x)' = RowOf(x) /\ EventOf(x)' = EventOf(x)
  BY <1>1, SameRow
<1>6. Wires' = Wires
  BY <1>1, <1>5 DEF Wires
<1>7. ShownInv'
  BY <1>1, <1>2, <1>4, <1>5, <1>6, RowId DEF ReceiverInv, ShownInv
<1>8. SentInv' /\ EndedInv'
  BY <1>1, SentFrame, EndedFrame DEF ReceiverInv
<1>9. DownloadsInv'
  BY <1>1, DownloadsFrame DEF ReceiverInv, DownloadsInv
<1> QED BY <1>1, <1>7, <1>8, <1>9 DEF ReceiverInv

\* Fetches, reloads and refreshes.
LEMMA ListStep ==
    ASSUME ReceiverInv, FetchMessages \/ RefreshToken \/ ReloadPage
    PROVE  ReceiverInv'
<1>1. /\ UNCHANGED <<separator, messages, chosen, composer, saved, failures>>
      /\ shown' = shown \/ shown' = {RowOf(m) : m \in DOMAIN messages}
      /\ channel' = channel \/ channel' = <<>>
      /\ stream' = stream \/ stream'.token \in {"valid", Null}
      /\ downloads' = downloads \/ downloads' = [m \in DOMAIN downloads |-> Null]
  BY DEF FetchMessages, RefreshToken, ReloadPage, sender, server, history
<1>2. \A x : RowOf(x)' = RowOf(x) /\ EventOf(x)' = EventOf(x)
  BY <1>1, SameRow
<1>3. Wires' = Wires
  BY <1>1, <1>2 DEF Wires
<1>4. ShownInv'
  <2>1. channel \in Seq(Wires) /\ <<>> \in Seq(Wires)
    BY DEF ReceiverInv, ShownInv
  <2>3. channel' \in Seq(Wires)
    BY <1>1, <2>1
  <2>2. \A s \in shown' : s.id \in DOMAIN messages /\ s \in {RowOf(s.id), EventOf(s.id)}
    BY <1>1, RowId DEF ReceiverInv, ShownInv
  <2> QED BY <1>1, <1>2, <1>3, <2>2, <2>3 DEF ShownInv
<1>5. SentInv' /\ EndedInv'
  BY <1>1, SentFrame, EndedFrame DEF ReceiverInv
<1>6. DownloadsInv'
  <2>1. stream'.token \in {"valid", Null}
    BY <1>1 DEF ReceiverInv, DownloadsInv
  <2>2. DOMAIN downloads' = 1..MaxUploads
    BY <1>1 DEF ReceiverInv, DownloadsInv
  <2>3. \A m \in 1..MaxUploads : downloads'[m] = downloads[m] \/ downloads'[m] = Null
    BY <1>1 DEF ReceiverInv, DownloadsInv
  <2> QED BY <1>1, <2>1, <2>2, <2>3, DownloadsFrame DEF ReceiverInv
<1> QED BY <1>1, <1>4, <1>5, <1>6 DEF ReceiverInv

\* What a download knows of its file.
LEMMA FileKnown ==
    ASSUME StoreInv, NEW m \in DOMAIN messages
    PROVE  /\ FileOf(m) \in LocalFiles /\ ChunkCount[FileOf(m)] \in Nat
           /\ messages[m].attachment.fileUrl \in DOMAIN disk
           /\ disk[messages[m].attachment.fileUrl].file = FileOf(m)
           /\ disk[messages[m].attachment.fileUrl].chunks = ChunkCount[FileOf(m)]
<1>1. messages[m] \in Contents
  BY DEF StoreInv, StoreType
<1>2. FileOf(m) \in LocalFiles
  BY <1>1 DEF FileOf, Contents, Attachments
<1>3. ChunkCount[FileOf(m)] \in Nat
  BY <1>2, FilesAssumption
<1> QED BY <1>2, <1>3 DEF StoreInv, MessagesHaveRows, RowsHaveFiles, FileOf

\* The server reads the path the client has cut.
LEMMA PathKnown ==
    ASSUME NEW m, NEW c \in Calls(m)
    PROVE  /\ c.token \in {"valid", Null}
           /\ DeserializeRequest(c.body) = BackendFileName(messages[m].attachment)
           /\ BackendFileName(messages[m].attachment).directory = (separator = "backslash")
           /\ BackendFileName(messages[m].attachment).id = messages[m].attachment.fileUrl
           /\ BackendFileName(messages[m].attachment).file = FileOf(m)
<1> DEFINE path == BackendFileName(messages[m].attachment)
<1>1. /\ path.directory = (separator = "backslash")
      /\ path.id = messages[m].attachment.fileUrl /\ path.file = FileOf(m)
  BY DEF BackendFileName, FileOf
<1> HIDE DEF path
<1>2. PICK t \in {"valid", Null} : c = CallDownloadFile(path, t)
  BY DEF Calls, path
<1>3. c.token = t /\ c.body = SerializeRequest(path)
  BY <1>2 DEF CallDownloadFile
<1> QED BY <1>1, <1>2, <1>3, OneFieldRoundTrip DEF path

LEMMA OneDownload ==
    ASSUME ReceiverInv, NEW m, NEW d, DownloadInv(m, d) \/ d = Null,
           downloads' = [downloads EXCEPT ![m] = d],
           UNCHANGED <<separator, messages, chosen, composer, channel, shown, stream>>, EndedInv'
    PROVE  ReceiverInv'
<1>1. SentInv' /\ ShownInv'
  BY SentFrame, ShownFrame DEF ReceiverInv
<1>2. DownloadsInv'
  <2>1. DOMAIN downloads' = 1..MaxUploads /\ stream'.token \in {"valid", Null}
    BY DEF ReceiverInv, DownloadsInv
  <2>2. \A k \in 1..MaxUploads :
            downloads'[k] = downloads[k] \/ downloads'[k] = Null \/ DownloadInv(k, downloads'[k])
    BY DEF ReceiverInv, DownloadsInv
  <2> QED BY <2>1, <2>2, DownloadsFrame DEF ReceiverInv
<1> QED BY <1>1, <1>2 DEF ReceiverInv

\* A click asks for the file of the message shown.
LEMMA ClickStep ==
    ASSUME StoreInv, ReceiverInv, NEW msg \in shown, ClickDownload(msg)
    PROVE  ReceiverInv'
<1>1. PICK m : m = msg.id
  OBVIOUS
<1>2. m \in DOMAIN messages /\ msg.encryptedContent = messages[m].attachment
  BY <1>1, RowId DEF ReceiverInv, ShownInv
<1> DEFINE d == [call |-> CallDownloadFile(BackendFileName(msg.encryptedContent), stream.token),
                 state |-> "called", at |-> 0, wire |-> <<>>, chunks |-> <<>>, fault |-> FALSE]
<1>3. /\ downloads' = [downloads EXCEPT ![m] = d]
      /\ UNCHANGED <<separator, messages, chosen, composer, channel, shown, stream, saved, failures>>
  BY <1>1 DEF ClickDownload, sender, server, history
<1>4. DownloadInv(m, d)
  <2>1. d.call \in Calls(m)
    BY <1>2 DEF Calls, ReceiverInv, DownloadsInv
  <2>2. ChunkCount[FileOf(m)] \in Nat
    BY <1>2, FileKnown
  <2>3. d \in DownloadType(m)
    BY <2>1, <2>2 DEF DownloadType
  <2> QED BY <1>2, <2>3 DEF DownloadInv
<1>5. EndedInv'
  BY <1>3, EndedFrame DEF ReceiverInv
<1> HIDE DEF d
<1> QED BY <1>3, <1>4, <1>5, OneDownload

\* The server opens the file unless one of the explanations holds.
LEMMA ServeStep ==
    ASSUME StoreInv, ReceiverInv, NEW m \in 1..MaxUploads, ServeDownload(m)
    PROVE  ReceiverInv'
<1>1. PICK d : d = downloads[m]
  OBVIOUS
<1>2. DownloadInv(m, d) /\ d.state = "called" /\ d \in DownloadType(m) /\ m \in DOMAIN messages
  BY <1>1 DEF ServeDownload, ReceiverInv, DownloadsInv, DownloadInv
<1>3. PICK s : s = IF Opens(d.call) THEN "open" ELSE "error"
  OBVIOUS
<1>4. /\ downloads' = [downloads EXCEPT ![m] = [d EXCEPT !.state = s]]
      /\ UNCHANGED <<separator, messages, chosen, composer, channel, shown, stream, saved, failures>>
  BY <1>1, <1>3 DEF ServeDownload, SetDownload, sender, server, history
<1>5. d.call \in Calls(m)
  BY <1>2 DEF DownloadType
<1>6. s = "open" => separator = "backslash"
  BY <1>3, <1>5, PathKnown DEF Opens
<1>7. s = "error" => Explained(m, d.call.token, d.fault)
  <2> SUFFICES ASSUME ~Opens(d.call) PROVE Explained(m, d.call.token, d.fault)
    BY <1>3
  <2>1. messages[m].attachment.fileUrl \in DOMAIN disk
    BY <1>2, FileKnown
  <2>2. PICK path : path = DeserializeRequest(d.call.body)
    OBVIOUS
  <2>3. /\ path.directory = (separator = "backslash") /\ path.file = FileOf(m)
        /\ path.id = messages[m].attachment.fileUrl /\ d.call.token \in {"valid", Null}
    BY <1>5, <2>2, PathKnown
  <2>4. separator \in {"slash", "backslash"}
    BY DEF ReceiverInv
  <2>5. d.call.token # "valid" \/ path.file \in Forbidden \/ ~path.directory
    BY <2>1, <2>2, <2>3 DEF Opens
  <2> QED BY <2>3, <2>4, <2>5 DEF Explained
<1>8. DownloadInv(m, [d EXCEPT !.state = s])
  <2> DEFINE e == [d EXCEPT !.state = s]
  <2>1. s \in {"open", "error"}
    BY <1>3
  <2>2. /\ e \in DownloadType(m) /\ e.state = s /\ e.call = d.call /\ e.at = d.at
        /\ e.wire = d.wire /\ e.chunks = d.chunks /\ e.fault = d.fault
    BY <1>2, <2>1 DEF DownloadType
  <2> HIDE DEF e
  <2>3. DownloadInv(m, e)
    BY <1>2, <1>6, <1>7, <2>1, <2>2 DEF DownloadInv
  <2> QED BY <2>3 DEF e
<1>9. EndedInv'
  BY <1>4, EndedFrame DEF ReceiverInv
<1> QED BY <1>4, <1>8, <1>9, OneDownload

\* The chunks of the file one after another; only its end ends the stream well.
LEMMA ChunkStep ==
    ASSUME StoreInv, ReceiverInv, NEW m \in 1..MaxUploads, SendChunk(m)
    PROVE  ReceiverInv'
<1>1. PICK d : d = downloads[m]
  OBVIOUS
<1>2. DownloadInv(m, d) /\ d.state = "open" /\ d \in DownloadType(m) /\ m \in DOMAIN messages
  BY <1>1 DEF SendChunk, ReceiverInv, DownloadsInv, DownloadInv
<1>3. PICK file : file = FileOf(m)
  OBVIOUS
<1>4. /\ file \in LocalFiles /\ ChunkCount[file] \in Nat
      /\ disk[DeserializeRequest(d.call.body).id].file = file
      /\ disk[DeserializeRequest(d.call.body).id].chunks = ChunkCount[file]
  <2>1. d.call \in Calls(m)
    BY <1>2 DEF DownloadType
  <2> QED BY <1>2, <1>3, <2>1, FileKnown, PathKnown
<1>5. /\ d.at \in 0..ChunkCount[file] /\ d.wire \in Seq(Pieces(m))
      /\ d.chunks \in Seq(LocalFiles \X Nat) /\ d.fault \in BOOLEAN /\ separator = "backslash"
  BY <1>2, <1>3 DEF DownloadType, DownloadInv
<1> DEFINE piece == SerializeChunk(<<file, d.at + 1>>)
           sent == [d EXCEPT !.at = @ + 1, !.wire = Append(@, piece)]
           ended == [d EXCEPT !.state = EndOf(d)]
           failed == [[d EXCEPT !.fault = TRUE] EXCEPT !.state = "error"]
<1>6. /\ \/ /\ d.at < ChunkCount[file]
            /\ downloads' = [downloads EXCEPT ![m] = sent]
         \/ /\ d.at = ChunkCount[file]
            /\ downloads' = [downloads EXCEPT ![m] = ended]
         \/ downloads' = [downloads EXCEPT ![m] = failed]
      /\ UNCHANGED <<separator, messages, chosen, composer, channel, shown, stream, saved, failures>>
  <2>1. EndOf([d EXCEPT !.fault = TRUE]) = "error"
    BY <1>2 DEF EndOf, DownloadType
  <2> QED BY <1>1, <1>4, <2>1 DEF SendChunk, SetDownload, sender, server, history
<1>7. EndedInv'
  BY <1>6, EndedFrame DEF ReceiverInv
<1>8. CASE d.at < ChunkCount[file] /\ downloads' = [downloads EXCEPT ![m] = sent]
  <2>1. piece \in Pieces(m) /\ d.at + 1 \in 0..ChunkCount[file]
    <3>1. d.at + 1 \in 1..ChunkCount[file]
      BY <1>4, <1>5, <1>8
    <3> QED BY <1>3, <3>1 DEF Pieces
  <2>2. /\ Append(d.wire, piece) \in Seq(Pieces(m))
        /\ Len(Append(d.wire, piece)) = Len(d.wire) + 1
        /\ \A i \in 1..Len(d.wire) : Append(d.wire, piece)[i] = d.wire[i]
        /\ Append(d.wire, piece)[Len(d.wire) + 1] = piece
    BY <1>5, <2>1, AppendProperties
  <2>3. /\ sent.at = d.at + 1 /\ sent.wire = Append(d.wire, piece)
        /\ sent.call = d.call /\ sent.state = "open" /\ sent.chunks = d.chunks
        /\ sent.fault = d.fault
    BY <1>2 DEF DownloadType
  <2>4. sent \in DownloadType(m)
    BY <1>2, <1>3, <2>1, <2>2 DEF DownloadType
  <2>5. Len(d.wire) \in Nat /\ Len(d.chunks) \in Nat
    BY <1>5, LenProperties
  <2>6. /\ Len(d.chunks) + Len(d.wire) = d.at
        /\ \A i \in 1..Len(d.chunks) : d.chunks[i] = <<file, i>>
        /\ \A i \in 1..Len(d.wire) : d.wire[i] = SerializeChunk(<<file, Len(d.chunks) + i>>)
    BY <1>2, <1>3 DEF DownloadInv
  <2>7. Len(sent.chunks) + Len(sent.wire) = sent.at
    <3> DEFINE j == Len(d.chunks)
               k == Len(d.wire)
    <3>1. Len(sent.chunks) = j /\ Len(sent.wire) = k + 1 /\ sent.at = d.at + 1
      BY <2>2, <2>3
    <3>2. j \in Nat /\ k \in Nat /\ j + k = d.at
      BY <2>5, <2>6
    <3> HIDE DEF sent, j, k
    <3>3. j + (k + 1) = (j + k) + 1
      BY <3>2
    <3> QED BY <3>1, <3>2, <3>3
  <2>8. \A i \in 1..Len(sent.wire) :
            sent.wire[i] = SerializeChunk(<<file, Len(sent.chunks) + i>>)
    <3> SUFFICES ASSUME NEW i \in 1..(Len(d.wire) + 1)
                 PROVE  Append(d.wire, piece)[i] = SerializeChunk(<<file, Len(d.chunks) + i>>)
      BY <2>2, <2>3
    <3>1. CASE i \in 1..Len(d.wire)
      BY <2>2, <2>6, <3>1
    <3>2. CASE i = Len(d.wire) + 1
      <4>1. Len(d.chunks) + i = d.at + 1
        <5> DEFINE j == Len(d.chunks)
                   k == Len(d.wire)
        <5>1. j \in Nat /\ k \in Nat /\ j + k = d.at /\ i = k + 1
          BY <2>5, <2>6, <3>2
        <5> HIDE DEF j, k
        <5>2. j + (k + 1) = (j + k) + 1
          BY <5>1
        <5>3. j + i = d.at + 1
          BY <5>1, <5>2
        <5> QED BY <5>3 DEF j
      <4> QED BY <2>2, <3>2, <4>1
    <3> QED BY <2>5, <3>1, <3>2
  <2> HIDE DEF sent
  <2>9. DownloadInv(m, sent)
    BY <1>2, <1>3, <1>5, <2>3, <2>4, <2>6, <2>7, <2>8 DEF DownloadInv
  <2> QED BY <1>6, <1>7, <1>8, <2>9, OneDownload
<1>9. CASE d.at = ChunkCount[file] /\ downloads' = [downloads EXCEPT ![m] = ended]
  <2>1. EndOf(d) \in {"end", "error"} /\ (EndOf(d) = "error" => d.fault)
    BY DEF EndOf
  <2>2. /\ ended \in DownloadType(m) /\ ended.state = EndOf(d) /\ ended.call = d.call
        /\ ended.at = d.at /\ ended.wire = d.wire /\ ended.chunks = d.chunks
        /\ ended.fault = d.fault
    BY <1>2, <2>1 DEF DownloadType
  <2> HIDE DEF ended
  <2>3. DownloadInv(m, ended)
    BY <1>2, <1>3, <1>5, <1>9, <2>1, <2>2 DEF DownloadInv, Explained
  <2> QED BY <1>6, <1>7, <1>9, <2>3, OneDownload
<1>10. CASE downloads' = [downloads EXCEPT ![m] = failed]
  <2>1. /\ failed \in DownloadType(m) /\ failed.state = "error" /\ failed.call = d.call
        /\ failed.at = d.at /\ failed.wire = d.wire /\ failed.chunks = d.chunks
        /\ failed.fault = TRUE
    BY <1>2 DEF DownloadType
  <2> HIDE DEF failed
  <2>2. DownloadInv(m, failed)
    BY <1>2, <2>1 DEF DownloadInv, Explained
  <2> QED BY <1>6, <1>7, <1>10, <2>2, OneDownload
<1> HIDE DEF sent, ended, failed
<1> QED BY <1>6, <1>8, <1>9, <1>10

\* What comes is the next chunk.
LEMMA PieceStep ==
    ASSUME StoreInv, ReceiverInv, NEW m \in 1..MaxUploads, ReceiveChunk(m)
    PROVE  ReceiverInv'
<1>1. PICK d : d = downloads[m]
  OBVIOUS
<1>2. DownloadInv(m, d) /\ d.wire # <<>> /\ d \in DownloadType(m) /\ m \in DOMAIN messages
  BY <1>1 DEF ReceiveChunk, ReceiverInv, DownloadsInv, DownloadInv
<1>3. PICK file, piece : file = FileOf(m) /\ piece = DeserializeChunk(Head(d.wire))
  OBVIOUS
<1> DEFINE e == [d EXCEPT !.wire = Tail(@), !.chunks = Append(@, piece)]
           j == Len(d.chunks)
           k == Len(d.wire)
<1>4. /\ downloads' = [downloads EXCEPT ![m] = e]
      /\ UNCHANGED <<separator, messages, chosen, composer, channel, shown, stream, saved, failures>>
  BY <1>1, <1>3 DEF ReceiveChunk, SetDownload, sender, server, history
<1>5. EndedInv'
  BY <1>4, EndedFrame DEF ReceiverInv
<1>6. /\ d.wire \in Seq(Pieces(m)) /\ d.chunks \in Seq(LocalFiles \X Nat)
      /\ file \in LocalFiles
  BY <1>2, <1>3, FileKnown DEF DownloadType
<1>7. /\ j + k = d.at
      /\ \A i \in 1..j : d.chunks[i] = <<file, i>>
      /\ \A i \in 1..k : d.wire[i] = SerializeChunk(<<file, j + i>>)
  BY <1>2, <1>3 DEF DownloadInv
<1>8. /\ k \in Nat \ {0} /\ j \in Nat
      /\ Head(d.wire) = d.wire[1] /\ Tail(d.wire) \in Seq(Pieces(m))
      /\ Len(Tail(d.wire)) = k - 1
      /\ \A i \in 1..(k - 1) : Tail(d.wire)[i] = d.wire[i + 1]
  BY <1>2, <1>6, LenProperties, EmptySeq, HeadTailProperties
<1>9. piece = <<file, j + 1>> /\ piece \in LocalFiles \X Nat
  <2>1. Head(d.wire) = SerializeChunk(<<file, j + 1>>)
    BY <1>7, <1>8
  <2>2. piece = <<file, j + 1>>
    BY <1>3, <2>1, OneFieldRoundTrip
  <2> QED BY <1>6, <1>8, <2>2
<1>10. /\ Append(d.chunks, piece) \in Seq(LocalFiles \X Nat)
       /\ Len(Append(d.chunks, piece)) = j + 1
       /\ \A i \in 1..j : Append(d.chunks, piece)[i] = d.chunks[i]
       /\ Append(d.chunks, piece)[j + 1] = piece
  BY <1>6, <1>9, AppendProperties
<1>11. /\ e.wire = Tail(d.wire) /\ e.chunks = Append(d.chunks, piece) /\ e.call = d.call
       /\ e.state = d.state /\ e.at = d.at /\ e.fault = d.fault
  BY <1>2 DEF DownloadType
<1>12. e \in DownloadType(m)
  BY <1>2, <1>8, <1>10 DEF DownloadType
<1>13. /\ Len(e.wire) = k - 1 /\ Len(e.chunks) = j + 1
       /\ \A i \in 1..(k - 1) : e.wire[i] = d.wire[i + 1]
       /\ \A i \in 1..j : e.chunks[i] = <<file, i>>
       /\ e.chunks[j + 1] = <<file, j + 1>>
  BY <1>7, <1>8, <1>9, <1>10, <1>11
<1> HIDE DEF e, j, k
<1>14. Len(e.chunks) + Len(e.wire) = e.at
  <2>1. (j + 1) + (k - 1) = j + k
    BY <1>8
  <2> QED BY <1>7, <1>11, <1>13, <2>1
<1>15. \A i \in 1..Len(e.chunks) : e.chunks[i] = <<file, i>>
  <2>1. \A i \in 1..(j + 1) : i \in 1..j \/ i = j + 1
    BY <1>8
  <2> QED BY <1>13, <2>1
<1>16. \A i \in 1..Len(e.wire) : e.wire[i] = SerializeChunk(<<file, Len(e.chunks) + i>>)
  <2> SUFFICES ASSUME NEW i \in 1..(k - 1)
               PROVE  d.wire[i + 1] = SerializeChunk(<<file, (j + 1) + i>>)
    BY <1>13
  <2>1. i + 1 \in 1..k /\ j + (i + 1) = (j + 1) + i
    BY <1>8
  <2> QED BY <1>7, <2>1
<1>17. DownloadInv(m, e)
  BY <1>2, <1>3, <1>11, <1>12, <1>14, <1>15, <1>16 DEF DownloadInv
<1> QED BY <1>4, <1>5, <1>17, OneDownload DEF e

\* A download that ends well has the whole file, and one that fails has a reason.
LEMMA SettleStep ==
    ASSUME StoreInv, ReceiverInv, NEW m \in 1..MaxUploads, SettleDownload(m)
    PROVE  ReceiverInv'
<1>1. PICK d : d = downloads[m]
  OBVIOUS
<1>2. /\ DownloadInv(m, d) /\ d.wire = <<>> /\ d.state \in {"end", "error"}
      /\ d \in DownloadType(m) /\ m \in DOMAIN messages
  BY <1>1 DEF SettleDownload, ReceiverInv, DownloadsInv, DownloadInv
<1>3. /\ downloads' = [downloads EXCEPT ![m] = Null]
      /\ UNCHANGED <<separator, messages, chosen, composer, channel, shown, stream>>
  BY DEF SettleDownload, sender, server
<1>4. \A x : FileOf(x)' = FileOf(x) /\ \A t, f : Explained(x, t, f)' = Explained(x, t, f)
  BY <1>3, SameRow
<1>5. CASE d.state = "end"
  <2>1. saved' = saved \cup {[msg |-> m, chunks |-> d.chunks]} /\ failures' = failures
    BY <1>1, <1>5 DEF SettleDownload
  <2>2. separator = "backslash" /\ Len(d.chunks) = ChunkCount[FileOf(m)]
    <3>1. /\ Len(d.chunks) + Len(d.wire) = ChunkCount[FileOf(m)] /\ Len(d.wire) = 0
          /\ separator = "backslash"
      BY <1>2, <1>5 DEF DownloadInv
    <3>2. Len(d.chunks) \in Nat
      BY <1>2, LenProperties DEF DownloadType
    <3> QED BY <3>1, <3>2
  <2>3. d.chunks = [i \in 1..ChunkCount[FileOf(m)] |-> <<FileOf(m), i>>]
    <3>1. d.chunks \in Seq(LocalFiles \X Nat)
      BY <1>2 DEF DownloadType
    <3>2. d.chunks = [i \in 1..Len(d.chunks) |-> d.chunks[i]]
      BY <3>1, LenProperties
    <3>3. \A i \in 1..Len(d.chunks) : d.chunks[i] = <<FileOf(m), i>>
      BY <1>2 DEF DownloadInv
    <3> QED BY <2>2, <3>2, <3>3
  <2>4. ASSUME NEW s \in saved'
        PROVE  /\ separator = "backslash" /\ s.msg \in DOMAIN messages
               /\ s.chunks = [i \in 1..ChunkCount[FileOf(s.msg)] |-> <<FileOf(s.msg), i>>]
    <3>1. CASE s \in saved
      BY <3>1 DEF ReceiverInv, EndedInv
    <3>2. CASE s = [msg |-> m, chunks |-> d.chunks]
      <4>1. s.msg = m /\ s.chunks = d.chunks
        BY <3>2
      <4> QED BY <1>2, <2>2, <2>3, <4>1
    <3> QED BY <2>1, <3>1, <3>2
  <2>5. EndedInv'
    <3>1. \A f \in failures : f.msg \in DOMAIN messages /\ Explained(f.msg, f.token, f.fault)
      BY DEF ReceiverInv, EndedInv
    <3> QED BY <1>3, <1>4, <2>1, <2>4, <3>1 DEF EndedInv
  <2> QED BY <1>3, <2>5, OneDownload
<1>6. CASE d.state = "error"
  <2>1. /\ failures' = failures \cup {[msg |-> m, token |-> d.call.token, fault |-> d.fault]}
        /\ saved' = saved
    BY <1>1, <1>6 DEF SettleDownload
  <2>2. Explained(m, d.call.token, d.fault)
    BY <1>2, <1>6 DEF DownloadInv
  <2>3. \A f \in failures' : f.msg \in DOMAIN messages /\ Explained(f.msg, f.token, f.fault)
    BY <1>2, <2>1, <2>2 DEF ReceiverInv, EndedInv
  <2>4. EndedInv'
    BY <1>3, <1>4, <2>1, <2>3 DEF ReceiverInv, EndedInv
  <2> QED BY <1>3, <2>4, OneDownload
<1> QED BY <1>2, <1>5, <1>6

\* A message shown is its row, and its quote the chosen one but for the time.
LEMMA QuotesArrive ==
    ASSUME StoreInv, ReceiverInv, NEW s \in shown
    PROVE  IF s.replyTo = Null
             THEN s = RowOf(s.id) /\ chosen[s.id] = Null
             ELSE [s EXCEPT !.replyTo.sentAt = NoText]
                      = [RowOf(s.id) EXCEPT !.replyTo = QuoteOf(chosen[s.id])]
<1>1. PICK m : m = s.id
  OBVIOUS
<1>2. PICK q : q = chosen[m]
  OBVIOUS
<1>3. m \in DOMAIN messages /\ s \in {RowOf(m), EventOf(m)} /\ messages[m].quote = q
  BY <1>1, <1>2 DEF ReceiverInv, ShownInv, SentInv
<1>4. /\ HasFields(RowOf(m)) /\ RowOf(m).replyTo = QuoteOf(q)
  <2>1. HasFields(RowOf(m))
    BY RowHasFields
  <2>2. RowOf(m).replyTo = QuoteOf(q)
    BY <1>3 DEF RowOf, NewMessageResponse
  <2> QED BY <2>1, <2>2
<1>5. CASE q = Null
  <2>1. s = RowOf(m) /\ s.replyTo = Null
    BY <1>3, <1>4, <1>5 DEF EventOf, QuoteOf
  <2> QED BY <1>1, <1>2, <1>5, <2>1
<1>6. CASE q # Null
  <2> DEFINE quoted == QuoteOf(q)
             dated == [quoted EXCEPT !.sentAt = "time"]
  <2>1. q \in Quotable
    <3>1. messages[m] \in Contents
      BY <1>3 DEF StoreInv, StoreType
    <3> QED BY <1>3, <1>6, <3>1 DEF Contents
  <2>2. quoted # Null /\ dated # Null
    BY <2>1, QuoteAssumption
  <2>3. HasFields(quoted) /\ quoted.sentAt = NoText
    BY <1>6 DEF QuoteOf, HasFields, NewMessageResponse
  <2>4. s = [RowOf(m) EXCEPT !.replyTo = s.replyTo] /\ s.replyTo \in {quoted, dated}
    <3>1. CASE s = RowOf(m)
      BY <1>4, <3>1 DEF HasFields
    <3>2. CASE s = EventOf(m)
      <4>1. s = [RowOf(m) EXCEPT !.replyTo = dated]
        BY <1>3, <1>4, <1>6, <3>2 DEF EventOf
      <4>2. s.replyTo = dated
        BY <1>4, <4>1 DEF HasFields, NewMessageResponse
      <4> QED BY <4>1, <4>2
    <3> QED BY <1>3, <3>1, <3>2
  <2>5. [s.replyTo EXCEPT !.sentAt = NoText] = quoted
    <3> HIDE DEF quoted
    <3>1. quoted = [quoted EXCEPT !.sentAt = NoText]
      BY <2>3 DEF HasFields
    <3>2. [dated EXCEPT !.sentAt = NoText] = quoted
      BY <2>3 DEF HasFields
    <3> QED BY <2>4, <3>1, <3>2
  <2> HIDE DEF quoted, dated
  <2>6. s.replyTo # Null
    BY <2>2, <2>4
  <2>7. [s EXCEPT !.replyTo.sentAt = NoText] = [RowOf(m) EXCEPT !.replyTo = quoted]
    <3>1. [s EXCEPT !.replyTo.sentAt = NoText]
            = [s EXCEPT !.replyTo = [s.replyTo EXCEPT !.sentAt = NoText]]
      OBVIOUS
    <3>2. [s EXCEPT !.replyTo = quoted] = [RowOf(m) EXCEPT !.replyTo = quoted]
      <4>1. PICK r : r = RowOf(m)
        OBVIOUS
      <4>2. HasFields(r) /\ s = [r EXCEPT !.replyTo = s.replyTo]
        BY <1>4, <2>4, <4>1
      <4>3. [s EXCEPT !.replyTo = quoted] = [r EXCEPT !.replyTo = quoted]
        BY <4>2 DEF HasFields
      <4> QED BY <4>1, <4>3
    <3> QED BY <2>5, <3>1, <3>2
  <2> QED BY <1>1, <1>2, <2>6, <2>7 DEF quoted
<1> QED BY <1>5, <1>6

LEMMA ReceiverNext == StoreInv /\ ReceiverInv /\ [Next]_vars => ReceiverInv'
<1> SUFFICES ASSUME StoreInv, ReceiverInv, [Next]_vars PROVE ReceiverInv'
  OBVIOUS
<1>1. CASE \/ UNCHANGED vars \/ BlockPeer \/ \E q \in Quotable \cup {Null} : ChooseReply(q)
           \/ SaveFile \/ SaveMetadata \/ UploadFails
  <2>1. /\ UNCHANGED <<separator, messages, channel, receiver, saved, failures>>
        /\ UNCHANGED <<chosen, composer>>
    BY <1>1 DEF vars, ChooseReply, BlockPeer, SaveFile, SaveMetadata, UploadFails, sender,
                server, history
  <2>2. SentInv'
    BY <2>1, SentFrame DEF ReceiverInv
  <2> QED BY <2>1, <2>2, Apart
<1>2. CASE \/ \E f \in LocalFiles : PickFile(f)
           \/ ReadFile \/ ReaderFails \/ UploadAnswered \/ MessageAnswered \/ SendRefused
  <2>1. UNCHANGED <<separator, messages, channel, receiver, saved, failures>>
    BY <1>2 DEF PickFile, ReadFile, ReaderFails, UploadAnswered, MessageAnswered, SendRefused,
                server, history
  <2>2. SentInv'
    BY <1>2, QuoteKept DEF ReceiverInv
  <2> QED BY <2>1, <2>2, Apart
<1>4. CASE SendMessage
  BY <1>4, SendArrives
<1>5. CASE \E msg \in shown : ClickDownload(msg)
  BY <1>5, ClickStep
<1>6. CASE \E m \in 1..MaxUploads : Download(m)
  <2> PICK m \in 1..MaxUploads : Download(m)
    BY <1>6
  <2> QED BY ServeStep, ChunkStep, PieceStep, SettleStep DEF Download
<1>7. CASE ReceiveEvent
  BY <1>7, ReceiveArrives
<1>8. CASE FetchMessages \/ RefreshToken \/ ReloadPage
  BY <1>8, ListStep
<1> QED BY <1>1, <1>2, <1>4, <1>5, <1>6, <1>7, <1>8 DEF Next, Upload

LEMMA ReceiverInvariant == Spec => []ReceiverInv
<1>1. Init => ReceiverInv
  BY ReceiverInit
<1>2. StoreInv /\ ReceiverInv /\ [Next]_vars => ReceiverInv'
  BY ReceiverNext
<1> QED BY <1>1, <1>2, StoreInvariant, PTL DEF Spec

\* Whatever is sent, fetched, refreshed and reloaded in between, the messages
\* Bob sees are those Alice sent, with the quote she had chosen when she picked
\* the file, and a file his browser saves has all its chunks in their order
\* (file_server.go 111-131, grpcClient.js 61-92 and 154-184).
THEOREM ArrivesWhole == Spec => []AttachmentArrivesWhole
<1>1. StoreInv /\ ReceiverInv => AttachmentArrivesWhole
  <2> SUFFICES ASSUME StoreInv, ReceiverInv PROVE AttachmentArrivesWhole
    OBVIOUS
  <2>1. ASSUME NEW s \in shown
        PROVE  IF s.replyTo = Null
                 THEN s = RowOf(s.id) /\ chosen[s.id] = Null
                 ELSE [s EXCEPT !.replyTo.sentAt = NoText]
                          = [RowOf(s.id) EXCEPT !.replyTo = QuoteOf(chosen[s.id])]
    BY QuotesArrive
  <2> QED BY <2>1 DEF AttachmentArrivesWhole, ReceiverInv, EndedInv
<1> QED BY <1>1, StoreInvariant, ReceiverInvariant, PTL

\* A download succeeds only on a server whose paths have backslashes, and there
\* it fails only for a forbidden name, without a token or by a fault
\* (MessageList.jsx 141 and 198, file_server.go 80-131).
THEOREM BackslashNeeded == Spec => []DownloadsNeedBackslash
<1>1. ReceiverInv => DownloadsNeedBackslash
  BY DEF ReceiverInv, EndedInv, Explained, DownloadsNeedBackslash
<1> QED BY <1>1, ReceiverInvariant, PTL
=============================================================================
