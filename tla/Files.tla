-------------------------------- MODULE Files -------------------------------
(***************************************************************************)
(* A file on its way from one user of a chat to another: handleFileChange  *)
(* of MessageInput.jsx and uploadFile of useMessages.js, UploadFile and    *)
(* DownloadFile of internal/file, the event of the message through the     *)
(* generated code (Wire) and the data handler of grpcClient.js, and the    *)
(* download of MessageList.jsx and grpcClient.downloadFile.                *)
(*                                                                         *)
(* Alice attaches, Bob downloads.  A stored file is named by its uuid, the *)
(* number of its attempt; of the original name only matters what           *)
(* DownloadFile looks for in a path.  A file is read in chunks of 64 KB.   *)
(* The contents of a message are who, what and where; for whom they are    *)
(* encrypted is the subject of E2EE, what later events and fetches do to   *)
(* the list that of ChatView, and the second publication of a message that *)
(* of MessageService.                                                      *)
(***************************************************************************)
EXTENDS Wire, FiniteSets

CONSTANTS LocalFiles,   \* files Alice may attach
          ChunkCount,   \* number of chunks of each file
          Forbidden,    \* files with ".." or ":" in their name
          Quotable,     \* older messages of the chat Alice may reply to
          MaxUploads,   \* bound: attachments
          MaxClicks,    \* bound: downloads
          MaxFaults,    \* bound: failing statements, requests and readers
          MaxTokens     \* bound: refreshes of Bob's token

ASSUME FilesAssumption ==
    /\ ChunkCount \in [LocalFiles -> Nat]
    /\ Forbidden \subseteq LocalFiles
    /\ MaxUploads \in Nat /\ MaxClicks \in Nat /\ MaxFaults \in Nat /\ MaxTokens \in Nat
    /\ NoText # Null

VARIABLES
    separator,  \* of the server's file paths
    composer,   \* MessageInput: the attachment under way and how far it is
    replyTo,    \* the message Alice has chosen to reply to, or Null
    blocked,    \* the chat is private and blockedUsers of Alice's tab includes Bob
    upload,     \* the handler of UploadFile
    disk,       \* storage/files: by uuid the local file and how much of it was written
    rows,       \* uuids in the table files
    messages,   \* rows of messages: attachments in the order of their sending
    channel,    \* events on the wire of Bob's stream
    shown,      \* Bob's list of messages
    stream,     \* Bob's grpcClient: its token and whether the server took the stream
    downloads,  \* downloads under way, by message
    clicks, faults, tokens,  \* numbers of what the bounds limit
    broken,     \* history: uuids whose write or INSERT failed
    chosen,     \* history: by message, the quote Alice had chosen when she picked its file
    saved,      \* history: what Bob's browser saved, by message
    failures    \* history: failed downloads and what would explain them

sender == <<composer, replyTo, blocked>>
server == <<upload, disk, rows, messages>>
receiver == <<shown, stream, downloads>>
bounds == <<clicks, faults, tokens>>
history == <<broken, chosen, saved, failures>>
vars == <<separator, sender, server, channel, receiver, bounds, history>>

Idle == [phase |-> "idle", file |-> Null, quote |-> Null, url |-> Null]
NoUpload == [phase |-> "none", file |-> Null, id |-> 0]

\* One server has one separator: a deployment on Windows or another one.
Init ==
    /\ separator \in {"slash", "backslash"}
    /\ composer = Idle /\ replyTo = Null /\ blocked = FALSE
    /\ upload = NoUpload
    /\ disk = <<>> /\ rows = {} /\ messages = <<>>
    /\ channel = <<>> /\ shown = {}
    /\ stream = [token |-> "valid", taken |-> TRUE]
    /\ downloads = [m \in 1..MaxUploads |-> Null]
    /\ clicks = 0 /\ faults = 0 /\ tokens = 0
    /\ broken = {} /\ chosen = [m \in 1..MaxUploads |-> Null]
    /\ saved = {} /\ failures = {}

Fault == faults < MaxFaults /\ faults' = faults + 1

-----------------------------------------------------------------------------
(* Alice: MessageInput and useMessages                                     *)

\* Message actions and the bar above the input; a click may also clear it.
ChooseReply(q) ==
    /\ q # replyTo
    /\ replyTo' = q
    /\ UNCHANGED <<separator, composer, blocked, server, channel, receiver, bounds, history>>

BlockPeer ==
    /\ ~blocked
    /\ blocked' = TRUE
    /\ UNCHANGED <<separator, composer, replyTo, server, channel, receiver, bounds, history>>

\* handleFileChange up to the FileReader.  All that follows uses the reply and
\* the functions of this rendering.
PickFile(f) ==
    /\ composer.phase = "idle"
    /\ Len(disk) < MaxUploads /\ Len(messages) < MaxUploads
    /\ ~blocked
    /\ composer' = [Idle EXCEPT !.phase = "reading", !.file = f, !.quote = replyTo]
    /\ chosen' = [chosen EXCEPT ![Len(messages) + 1] = replyTo]
    /\ UNCHANGED <<separator, replyTo, blocked, server, channel, receiver, bounds, broken,
                   saved, failures>>

\* onloadend with a result: the request goes out.
ReadFile ==
    /\ composer.phase = "reading"
    /\ composer' = [composer EXCEPT !.phase = "posted"]
    /\ upload' = [NoUpload EXCEPT !.phase = "received", !.file = composer.file]
    /\ UNCHANGED <<separator, replyTo, blocked, disk, rows, messages, channel, receiver,
                   bounds, history>>

\* onloadend also follows an error, then without a result: reader.result.split
\* throws inside the callback and nothing ever settles the promise.
ReaderFails ==
    /\ composer.phase = "reading"
    /\ Fault
    /\ composer' = [composer EXCEPT !.phase = "unread"]
    /\ UNCHANGED <<separator, replyTo, blocked, server, channel, receiver, clicks, tokens, history>>

\* Mutant: setSending(false) ends the try block instead.
GiveUpIfSent == IF composer.phase = "sent" THEN Idle ELSE [composer EXCEPT !.phase = "kept"]

\* catch and finally: setSending(false)
GiveUp == Idle

\* The answer of uploadFile, or an error: not ok, or no answer at all.
UploadAnswered ==
    /\ composer.phase = "posted"
    /\ \/ /\ upload.phase = "done"
          /\ composer' = [composer EXCEPT !.phase = "sending", !.url = upload.id]
          /\ UNCHANGED faults
       \/ /\ upload.phase = "failed"
          /\ composer' = GiveUp
          /\ UNCHANGED faults
       \/ /\ upload.phase \in {"done", "failed"}
          /\ Fault
          /\ composer' = GiveUp
    /\ upload' = NoUpload
    /\ UNCHANGED <<separator, replyTo, blocked, disk, rows, messages, channel, receiver,
                   clicks, tokens, history>>

\* onSend has settled: onClearReply clears whatever is chosen by now.
MessageAnswered ==
    /\ composer.phase \in {"sent", "refused"}
    /\ replyTo' = IF composer.phase = "sent" THEN Null ELSE replyTo
    /\ composer' = GiveUp
    /\ UNCHANGED <<separator, blocked, server, channel, receiver, bounds, history>>

-----------------------------------------------------------------------------
(* The server                                                              *)

Stored(f, n) == [file |-> f, chunks |-> n]

\* Mutant: the error of a write is not looked at.
SaveAnyhow ==
    /\ upload.phase = "received"
    /\ \E n \in 0..ChunkCount[upload.file] : disk' = Append(disk, Stored(upload.file, n))
    /\ upload' = [upload EXCEPT !.phase = "onDisk", !.id = Len(disk) + 1]
    /\ UNCHANGED <<separator, sender, rows, messages, channel, receiver, bounds, history>>

\* SaveFile under a new uuid
SaveFile ==
    /\ upload.phase = "received"
    /\ disk' = Append(disk, Stored(upload.file, ChunkCount[upload.file]))
    /\ upload' = [upload EXCEPT !.phase = "onDisk", !.id = Len(disk) + 1]
    /\ UNCHANGED <<separator, sender, rows, messages, channel, receiver, bounds, history>>

\* SaveMetadata, and UploadFile returns the path.
SaveMetadata ==
    /\ upload.phase = "onDisk"
    /\ rows' = rows \cup {upload.id}
    /\ upload' = [upload EXCEPT !.phase = "done"]
    /\ UNCHANGED <<separator, sender, disk, messages, channel, receiver, bounds, history>>

\* The request fails; or the write does, of a file that os.WriteFile has created
\* and of which any part may be there; or the INSERT fails or its answer is
\* lost.  Whatever is on disk stays.
UploadFails ==
    /\ Fault
    /\ \/ /\ upload.phase = "received"
          /\ UNCHANGED <<disk, rows, broken>>
       \/ /\ upload.phase = "received"
          /\ \E n \in 0..ChunkCount[upload.file] : disk' = Append(disk, Stored(upload.file, n))
          /\ broken' = broken \cup {Len(disk) + 1}
          /\ UNCHANGED rows
       \/ /\ upload.phase = "onDisk"
          /\ rows' \in {rows, rows \cup {upload.id}}
          /\ broken' = broken \cup {upload.id}
          /\ UNCHANGED disk
    /\ upload' = [upload EXCEPT !.phase = "failed"]
    /\ UNCHANGED <<separator, sender, messages, channel, receiver, clicks, tokens, chosen,
                   saved, failures>>

\* What GetMessages says of a quoted message; an event adds when it was sent.
QuoteOf(q) ==
    IF q = Null THEN Null
    ELSE [NewMessageResponse EXCEPT !.id = q, !.chatId = "chat", !.senderId = "someone",
                                    !.encryptedContent = "text"]

\* Null stands for no message; it is not one itself.
ASSUME QuoteAssumption ==
    \A q \in Quotable : Null \notin {q, QuoteOf(q), [QuoteOf(q) EXCEPT !.sentAt = "time"]}

RowOf(m) ==
    [NewMessageResponse EXCEPT
        !.id = m, !.chatId = "chat", !.senderId = "alice",
        !.encryptedContent = messages[m].attachment, !.isEncrypted = messages[m].isEncrypted,
        !.sentAt = "time", !.createdAt = "time", !.replyTo = QuoteOf(messages[m].quote)]

EventOf(m) ==
    IF messages[m].quote = Null THEN RowOf(m) ELSE [RowOf(m) EXCEPT !.replyTo.sentAt = "time"]

\* The message is inserted and published to Bob, if he is connected.  An answer
\* that is lost looks like a refusal.  In a private chat it is encrypted unless
\* there is no bundle of the peer; a group's is not.
SendMessage ==
    /\ composer.phase = "sending"
    /\ \E isEncrypted \in BOOLEAN :
         messages' = Append(messages,
             [attachment |-> [isFile |-> TRUE, file |-> composer.file, fileUrl |-> composer.url],
              isEncrypted |-> isEncrypted, quote |-> composer.quote])
    /\ channel' = IF stream.taken
                    THEN Append(channel, SerializeMessage(EventOf(Len(messages))'))
                    ELSE channel
    /\ \/ composer' = [composer EXCEPT !.phase = "sent"] /\ UNCHANGED faults
       \/ Fault /\ composer' = [composer EXCEPT !.phase = "refused"]
    /\ UNCHANGED <<separator, replyTo, blocked, upload, disk, rows, receiver, clicks,
                   tokens, history>>

SendRefused ==
    /\ composer.phase = "sending"
    /\ Fault
    /\ composer' = [composer EXCEPT !.phase = "refused"]
    /\ UNCHANGED <<separator, replyTo, blocked, server, channel, receiver, clicks, tokens, history>>

-----------------------------------------------------------------------------
(* Bob: grpcClient and MessageList                                         *)

\* The data handler copies the fields it needs, those of the quote one by one.
Received(msg) ==
    [msg EXCEPT !.isEdited = FALSE, !.isDeleted = FALSE,
                !.replyTo = IF HasReplyTo(msg) THEN SetReplyTo(msg.replyTo, Null) ELSE Null]

Show(msg) == {s \in shown : s.id # msg.id} \cup {msg}

ReceiveEvent ==
    /\ channel # <<>>
    /\ channel' = Tail(channel)
    /\ shown' = Show(Received(DeserializeMessage(Head(channel))))
    /\ UNCHANGED <<separator, sender, server, stream, downloads, bounds, history>>

\* fetchMessages: the rows of the chat as JSON
FetchMessages ==
    /\ shown' = {RowOf(m) : m \in DOMAIN messages}
    /\ shown' # shown
    /\ UNCHANGED <<separator, sender, server, channel, stream, downloads, bounds, history>>

\* A refresh calls updateToken, whose disconnect forgets the new token: the
\* stream is opened without one, the server refuses it and no timer reopens it.
RefreshToken ==
    /\ tokens < MaxTokens
    /\ tokens' = tokens + 1
    /\ stream' = [token |-> Null, taken |-> CallConnectMessages(Null).token = "valid"]
    /\ channel' = <<>>
    /\ UNCHANGED <<separator, sender, server, shown, downloads, clicks, faults, history>>

\* A reload connects with the token in localStorage and fetches the list.
ReloadPage ==
    /\ stream.token = Null
    /\ stream' = [token |-> "valid", taken |-> CallConnectMessages("valid").token = "valid"]
    /\ shown' = {RowOf(m) : m \in DOMAIN messages}
    /\ downloads' = [m \in DOMAIN downloads |-> Null]
    /\ UNCHANGED <<separator, sender, server, channel, bounds, history>>

\* Mutant: the path is cut at either separator.
BaseName(a) == [directory |-> FALSE, id |-> a.fileUrl, file |-> a.file]

\* fileUrl.substring(fileUrl.lastIndexOf('/') + 1) of what filepath.Join made.
BackendFileName(a) == [directory |-> separator = "backslash", id |-> a.fileUrl, file |-> a.file]

\* handleDownload and the head of downloadFile: one download per message.
ClickDownload(msg) ==
    /\ msg \in shown
    /\ downloads[msg.id] = Null
    /\ clicks < MaxClicks
    /\ clicks' = clicks + 1
    /\ downloads' = [downloads EXCEPT ![msg.id] =
         [call |-> CallDownloadFile(BackendFileName(msg.encryptedContent), stream.token),
          state |-> "called", at |-> 0, wire |-> <<>>, chunks |-> <<>>, fault |-> FALSE]]
    /\ UNCHANGED <<separator, sender, server, channel, shown, stream, faults, tokens, history>>

\* The interceptor asks for the token, DownloadFile for ".." and ":" in the
\* path, and os.Open for the file, from the working directory of the server.
Opens(call) ==
    LET path == DeserializeRequest(call.body)
    IN /\ call.token = "valid"
       /\ path.file \notin Forbidden
       /\ path.directory /\ path.id \in DOMAIN disk

SetDownload(m, d) ==
    /\ downloads' = [downloads EXCEPT ![m] = d]
    /\ UNCHANGED <<separator, sender, server, channel, shown, stream, clicks, tokens, history>>

ServeDownload(m) ==
    /\ downloads[m] # Null
    /\ downloads[m].state = "called"
    /\ LET ok == Opens(downloads[m].call)
       IN SetDownload(m, [downloads[m] EXCEPT !.state = IF ok THEN "open" ELSE "error"])
    /\ UNCHANGED faults

\* Mutant: an error of Read ends the file.
EndsAnyhow(d) == "end"

\* io.EOF ends the stream, any other error is its status.
EndOf(d) == IF d.fault THEN "error" ELSE "end"

\* The loop of DownloadFile: read and send a chunk; the end of the file or an
\* error, of Read, of Send or of the connection, ends the stream.
SendChunk(m) ==
    /\ downloads[m] # Null
    /\ downloads[m].state = "open"
    /\ LET d == downloads[m]
           stored == disk[DeserializeRequest(d.call.body).id]
           chunk == <<stored.file, d.at + 1>>
       IN \/ /\ d.at < stored.chunks
             /\ SetDownload(m, [d EXCEPT !.at = @ + 1, !.wire = Append(@, SerializeChunk(chunk))])
             /\ UNCHANGED faults
          \/ /\ d.at = stored.chunks
             /\ SetDownload(m, [d EXCEPT !.state = EndOf(d)])
             /\ UNCHANGED faults
          \/ /\ Fault
             /\ LET failed == [d EXCEPT !.fault = TRUE]
                IN SetDownload(m, [failed EXCEPT !.state = EndOf(failed)])

\* "data" pushes the chunk.
ReceiveChunk(m) ==
    /\ downloads[m] # Null
    /\ downloads[m].wire # <<>>
    /\ LET d == downloads[m]
       IN SetDownload(m, [d EXCEPT !.wire = Tail(@),
                                   !.chunks = Append(@, DeserializeChunk(Head(d.wire)))])
    /\ UNCHANGED faults

\* "end" makes the blob and the link is clicked; "error" rejects.  Either way
\* finally ends the download.
SettleDownload(m) ==
    /\ downloads[m] # Null
    /\ downloads[m].state \in {"end", "error"}
    /\ downloads[m].wire = <<>>
    /\ downloads' = [downloads EXCEPT ![m] = Null]
    /\ LET d == downloads[m]
       IN IF d.state = "end"
            THEN /\ saved' = saved \cup {[msg |-> m, chunks |-> d.chunks]}
                 /\ UNCHANGED failures
            ELSE /\ failures' = failures \cup
                      {[msg |-> m, token |-> d.call.token, fault |-> d.fault]}
                 /\ UNCHANGED saved
    /\ UNCHANGED <<separator, sender, server, channel, shown, stream, bounds, broken, chosen>>

-----------------------------------------------------------------------------
Upload == ReadFile \/ ReaderFails \/ UploadAnswered \/ MessageAnswered
              \/ SaveFile \/ SaveMetadata \/ UploadFails \/ SendMessage \/ SendRefused

Download(m) == ServeDownload(m) \/ SendChunk(m) \/ ReceiveChunk(m) \/ SettleDownload(m)

Next ==
    \/ \E q \in Quotable \cup {Null} : ChooseReply(q)
    \/ \E f \in LocalFiles : PickFile(f)
    \/ \E msg \in shown : ClickDownload(msg)
    \/ \E m \in 1..MaxUploads : Download(m)
    \/ BlockPeer \/ Upload
    \/ ReceiveEvent \/ FetchMessages \/ RefreshToken \/ ReloadPage

\* The browser goes on with what it has begun, and requests are answered.
Spec == Init /\ [][Next]_vars /\ WF_vars(Upload)

-----------------------------------------------------------------------------
FileOf(m) == messages[m].attachment.file

\* Through two codecs, the handler that copies the fields and the loop of
\* chunks, what Bob sees is what Alice sent, quoting what she had chosen when
\* she picked the file, and what his browser saves is the whole file and no
\* part of it (file_server.go 111-131, grpcClient.js 61-92 and 154-184).
AttachmentArrivesWhole ==
    /\ \A s \in shown :
         IF s.replyTo = Null
           THEN s = RowOf(s.id) /\ chosen[s.id] = Null
           ELSE [s EXCEPT !.replyTo.sentAt = NoText]
                    = [RowOf(s.id) EXCEPT !.replyTo = QuoteOf(chosen[s.id])]
    /\ \A s \in saved :
         s.chunks = [i \in 1..ChunkCount[FileOf(s.msg)] |-> <<FileOf(s.msg), i>>]

\* A click gets the file only from a server whose paths have backslashes: the
\* client cuts the path at the last slash (MessageList.jsx 141, 198) and the
\* server opens what is left (file_server.go 105).  On such a server a download
\* fails only for a name with ".." or ":", without a token, or by a fault.
DownloadsNeedBackslash ==
    /\ separator = "slash" => saved = {}
    /\ separator = "backslash" => \A f \in failures :
         FileOf(f.msg) \in Forbidden \/ f.token = Null \/ f.fault

\* A row of files stands for a whole file, and a message for a row and its own
\* file.  A file without a row, whole or in part, is what a failed write or
\* INSERT left, or its INSERT is under way (file_service.go 40-57,
\* file_repository.go 22-24).
FilesMatchRows ==
    /\ \A id \in rows : id \in DOMAIN disk /\ disk[id].chunks = ChunkCount[disk[id].file]
    /\ \A m \in DOMAIN messages :
         /\ messages[m].attachment.fileUrl \in rows
         /\ disk[messages[m].attachment.fileUrl].file = FileOf(m)
    /\ \A id \in DOMAIN disk \ rows :
         id \in broken \/ (upload.id = id /\ upload.phase = "onDisk")

\* After any failure but the reader's the composer can be used again
\* (MessageInput.jsx 44-76, useMessages.js 94-117).
ComposerFreed ==
    composer.phase # "idle" ~> composer.phase \in {"idle", "unread"}
=============================================================================
