-------------------------------- MODULE Wire --------------------------------
(***************************************************************************)
(* What the generated code of the web client makes of the messages of      *)
(* proto/message.proto and proto/file.proto: serializeBinary,              *)
(* deserializeBinary, the accessors and the stubs of the two streaming     *)
(* calls.                                                                  *)
(*                                                                         *)
(* Serialized messages are sequences of fields, each with its number and   *)
(* its value; how a number or a string is laid out in bytes is the         *)
(* library's.  A nested message is serialized in turn.  The server nests   *)
(* them once: a quoted message quotes nothing.                             *)
(***************************************************************************)
EXTENDS Naturals, Sequences

CONSTANTS NoText,   \* the empty string, default of string fields
          Null      \* no message, default of replyTo, and an absent token

ReplyToField == 10

\* A new message: every getter returns the default of its type.
NewMessageResponse ==
    [id |-> NoText, chatId |-> NoText, senderId |-> NoText,
     encryptedContent |-> NoText, isEncrypted |-> FALSE, sentAt |-> NoText,
     createdAt |-> NoText, isEdited |-> FALSE, isDeleted |-> FALSE,
     replyTo |-> Null]

HasReplyTo(msg) == msg.replyTo # Null
SetReplyTo(msg, value) == [msg EXCEPT !.replyTo = value]

\* What the getter of a scalar field returns when it is not set: fields 5, 8 and
\* 9 are booleans.
Default(n) == IF n \in {5, 8, 9} THEN FALSE ELSE NoText

\* Strings are written if they are not empty and booleans if they are true.
Field(n, value) == IF value = Default(n) THEN <<>> ELSE <<[number |-> n, value |-> value]>>

\* serializeBinaryToWriter without the nested message
WriteScalars(msg) ==
    Field(1, msg.id) \o Field(2, msg.chatId) \o Field(3, msg.senderId)
        \o Field(4, msg.encryptedContent) \o Field(5, msg.isEncrypted) \o Field(6, msg.sentAt)
        \o Field(7, msg.createdAt) \o Field(8, msg.isEdited) \o Field(9, msg.isDeleted)

SerializeMessage(msg) ==
    IF HasReplyTo(msg)
      THEN Append(WriteScalars(msg),
                  [number |-> ReplyToField, value |-> WriteScalars(msg.replyTo)])
      ELSE WriteScalars(msg)

\* deserializeBinaryFromReader: fields of other numbers are skipped, and of a
\* field that comes twice the later value stays.
Places(fields, n) == {i \in DOMAIN fields : fields[i].number = n}
LastOf(fields, n) ==
    fields[CHOOSE i \in Places(fields, n) : \A j \in Places(fields, n) : j <= i].value
Value(fields, n) == IF Places(fields, n) = {} THEN Default(n) ELSE LastOf(fields, n)

ReadScalars(fields) ==
    [id |-> Value(fields, 1), chatId |-> Value(fields, 2), senderId |-> Value(fields, 3),
     encryptedContent |-> Value(fields, 4), isEncrypted |-> Value(fields, 5),
     sentAt |-> Value(fields, 6), createdAt |-> Value(fields, 7),
     isEdited |-> Value(fields, 8), isDeleted |-> Value(fields, 9), replyTo |-> Null]

DeserializeMessage(fields) ==
    IF Places(fields, ReplyToField) = {} THEN ReadScalars(fields)
    ELSE SetReplyTo(ReadScalars(fields), ReadScalars(LastOf(fields, ReplyToField)))

\* ConnectRequest has no fields, and whatever comes is skipped.
SerializeConnect == <<>>

\* DownloadFileRequest and DownloadFileResponse have one field each, a string
\* and bytes, which are written if there are any.
SerializeRequest(fileUrl) == Field(1, fileUrl)
SerializeChunk(chunk) == Field(1, chunk)
OnlyField(fields) == Value(fields, 1)
DeserializeRequest(fields) == OnlyField(fields)
DeserializeChunk(fields) == OnlyField(fields)

\* The stubs: a stream is opened with the method, the serialized request and
\* the token as metadata.
CallConnectMessages(token) ==
    [method |-> "ConnectMessages", body |-> SerializeConnect, token |-> token]
CallDownloadFile(fileUrl, token) ==
    [method |-> "DownloadFile", body |-> SerializeRequest(fileUrl), token |-> token]
=============================================================================
