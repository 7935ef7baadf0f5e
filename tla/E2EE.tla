-------------------------------- MODULE E2EE --------------------------------
(***************************************************************************)
(* End-to-end encryption in the web client: publishKeys and                *)
(* encryptMessageForPeer of crypto/e2ee.js, the chat data of ChatPage.jsx  *)
(* and handleSend of MessageInput.jsx, against the device_keys rows of     *)
(* PreKeys.  A step is what JavaScript runs from one await to the next.    *)
(*                                                                         *)
(* A run of publishKeys names the signed prekey it generates.  Identity    *)
(* keys only sign, so it is enough to know whether a browser has one; the  *)
(* one-time keys are published but no message is encrypted with them.      *)
(***************************************************************************)
EXTENDS Naturals, Sequences, SequencesExt

CONSTANTS Browsers, Runs, Chats, Messages,
          UserOf,       \* whose browser it is
          RunIn,        \* the browser of a run of publishKeys
          Mine,         \* the browser that sends the messages
          PeerOf,       \* the other user of a private chat, Nil for a group
          MaxSwitches,  \* bound: openings of another chat
          MaxFaults,    \* bound: requests that fail
          Nil

Users == {UserOf[b] : b \in Browsers}

ASSUME E2EEAssumption ==
    /\ RunIn \in [Runs -> Browsers]
    /\ Mine \in Browsers
    /\ PeerOf \in [Chats -> (Users \ {UserOf[Mine]}) \cup {Nil}]
    /\ MaxSwitches \in Nat /\ MaxFaults \in Nat
    /\ Nil \notin Runs \cup Chats \cup Users

VARIABLES
    identity,   \* localStorage: browsers with an identity key
    prekey,     \* localStorage: the signed prekey of a browser
    gone,       \* browsers whose storage was cleared
    stage,         \* where each run of publishKeys is
    carried,    \* the prekey a run publishes
    row,        \* device_keys: the prekey in the row of a browser
    created,    \* browsers in the order their rows were created
    open,       \* chatId of ChatPage, Nil while it is not mounted
    info,       \* the chat whose type and peer ChatPage has
    asked,      \* requests for chat data under way
    cache,      \* localStorage: the prekey cached for a peer
    msg,        \* what becomes of each message
    switches, faults,   \* numbers of what the bounds limit
    strayed,    \* history: data of another chat came last, or none at all
    overlapped  \* history: browsers where two runs had no prekey to start from

keys == <<identity, prekey, gone, stage, carried, row, created>>
page == <<open, info, asked, switches, strayed>>
cryptoVars == <<keys, page, cache, msg, faults, overlapped>>

Fates == [at : {"new", "encrypt", "fetch", "bundle", "seal", "post", "posted", "failed"},
          chat : Chats \cup {Nil},     \* where it is sent to
          peer : Users \cup {Nil},     \* peerUserId when it was sent
          racing : BOOLEAN,             \* history: strayed, or the data still on its way
          key : Runs \cup {Nil},       \* encrypted for the peer with it
          own : Runs \cup {Nil},       \* encrypted for the sender with it
          tries : 0..2]                 \* bundles that could not be had

CryptoTypeOK ==
    /\ identity \subseteq Browsers /\ gone \subseteq Browsers
    /\ overlapped \subseteq Browsers
    /\ prekey \in [Browsers -> Runs \cup {Nil}]
    /\ stage \in [Runs -> {"new", "identity", "prekey", "publish", "done"}]
    /\ carried \in [Runs -> Runs \cup {Nil}]
    /\ row \in [Browsers -> Runs \cup {Nil}]
    /\ created \in Seq(Browsers) /\ IsInjective(created)
    /\ \A b \in Browsers : row[b] # Nil <=> b \in ToSet(created)
    /\ open \in Chats \cup {Nil} /\ info \in Chats \cup {Nil}
    /\ asked \subseteq Chats \X (0..MaxSwitches)
    /\ cache \in [Users -> Runs \cup {Nil}]
    /\ msg \in [Messages -> Fates]
    /\ switches \in 0..MaxSwitches /\ faults \in 0..MaxFaults
    /\ strayed \in BOOLEAN

CryptoInit ==
    /\ identity = {} /\ gone = {} /\ overlapped = {}
    /\ prekey = [b \in Browsers |-> Nil]
    /\ stage = [r \in Runs |-> "new"]
    /\ carried = [r \in Runs |-> Nil]
    /\ row = [b \in Browsers |-> Nil]
    /\ created = <<>>
    /\ open = Nil /\ info = Nil /\ asked = {}
    /\ cache = [u \in Users |-> Nil]
    /\ msg = [m \in Messages |-> [at |-> "new", chat |-> Nil, peer |-> Nil,
                racing |-> FALSE, key |-> Nil, own |-> Nil, tries |-> 0]]
    /\ switches = 0 /\ faults = 0 /\ strayed = FALSE

Fault == faults < MaxFaults /\ faults' = faults + 1
NoFault == UNCHANGED faults

-----------------------------------------------------------------------------
(* publishKeys                                                             *)

Running(r) == stage[r] \notin {"new", "done"}

\* Mutant: every run makes a new prekey.
LookUpNothing(r) ==
    /\ stage' = [stage EXCEPT ![r] = "prekey"]
    /\ UNCHANGED carried

\* The signed prekey is looked up in the storage as it is now.
LookUpPrekey(r) ==
    /\ carried' = [carried EXCEPT ![r] = prekey[RunIn[r]]]
    /\ stage' = [stage EXCEPT ![r] = IF prekey[RunIn[r]] = Nil THEN "prekey" ELSE "publish"]

\* ChatPage is mounted: its state is new, the cached keys of peers go and the
\* data of the chat are asked for.
Mount(b) ==
    IF b # Mine THEN UNCHANGED <<page, cache>>
    ELSE /\ open' \in Chats
         /\ info' = Nil
         /\ asked' = {<<open', switches>>}
         /\ cache' = [u \in Users |-> Nil]
         /\ strayed' = FALSE
         /\ UNCHANGED switches

StartPublish(r) ==
    /\ stage[r] = "new"
    /\ RunIn[r] \notin gone
    /\ Mount(RunIn[r])
    /\ IF RunIn[r] \in identity THEN LookUpPrekey(r)
       ELSE stage' = [stage EXCEPT ![r] = "identity"] /\ UNCHANGED carried
    /\ overlapped' = IF prekey[RunIn[r]] = Nil
                          /\ \E q \in Runs : Running(q) /\ RunIn[q] = RunIn[r]
                     THEN overlapped \cup {RunIn[r]} ELSE overlapped
    /\ UNCHANGED <<identity, prekey, gone, row, created, msg, faults>>

\* generateKeyPair is done.
StoreIdentity(r) ==
    /\ stage[r] = "identity"
    /\ identity' = identity \cup {RunIn[r]}
    /\ LookUpPrekey(r)
    /\ UNCHANGED <<prekey, gone, row, created, page, cache, msg, faults, overlapped>>

\* generateSignedPreKey is done.
StorePrekey(r) ==
    /\ stage[r] = "prekey"
    /\ prekey' = [prekey EXCEPT ![RunIn[r]] = r]
    /\ carried' = [carried EXCEPT ![r] = r]
    /\ stage' = [stage EXCEPT ![r] = "publish"]
    /\ UNCHANGED <<identity, gone, row, created, page, cache, msg, faults, overlapped>>

\* The server's SaveDeviceKeys, or the request fails.
Publish(r) ==
    LET b == RunIn[r]
    IN /\ stage[r] = "publish"
       /\ stage' = [stage EXCEPT ![r] = "done"]
       /\ \/ /\ row' = [row EXCEPT ![b] = carried[r]]
             /\ created' = IF row[b] = Nil THEN Append(created, b) ELSE created
             /\ NoFault
          \/ Fault /\ UNCHANGED <<row, created>>
       /\ UNCHANGED <<identity, prekey, gone, carried, page, cache, msg, overlapped>>

\* The user clears a browser, which comes back under another deviceId.
ClearStorage(b) ==
    /\ b \notin gone \cup {Mine}
    /\ \A r \in Runs : RunIn[r] = b => ~Running(r)
    /\ gone' = gone \cup {b}
    /\ prekey' = [prekey EXCEPT ![b] = Nil]
    /\ identity' = identity \ {b}
    /\ UNCHANGED <<stage, carried, row, created, page, cache, msg, faults, overlapped>>

-----------------------------------------------------------------------------
(* The data of the chat                                                    *)

\* Another chatId: its data are asked for, those of the last chat stay.
SwitchChat(chat) ==
    /\ open \notin {Nil, chat}
    /\ switches < MaxSwitches
    /\ switches' = switches + 1
    /\ open' = chat
    /\ asked' = asked \cup {<<chat, switches'>>}
    /\ UNCHANGED <<keys, info, cache, msg, faults, strayed, overlapped>>

OnItsWay(chat) == \E n \in 0..MaxSwitches : <<chat, n>> \in asked

\* An answer is taken whichever chat it is about; an error is only logged.
ReceiveChat(q) ==
    /\ q \in asked
    /\ asked' = asked \ {q}
    /\ \/ info' = q[1] /\ NoFault
       \/ Fault /\ UNCHANGED info
    /\ strayed' = (info' # open)
    /\ UNCHANGED <<keys, open, switches, cache, msg, overlapped>>

-----------------------------------------------------------------------------
(* handleSend and encryptMessageForPeer                                    *)

Set(m, fields) == msg' = [msg EXCEPT ![m] = fields]

\* The props of MessageInput at the click: the chat from the address, the peer
\* from the data ChatPage has.  Without a peer the text is sent as it is.  An
\* edit takes the same steps, and a second message may be sent meanwhile: opening
\* a chat replaces MessageInput, and with it its flag `sending'.
Send(m) ==
    LET peer == IF info = Nil THEN Nil ELSE PeerOf[info]
    IN /\ msg[m].at = "new"
       /\ open # Nil
       /\ Set(m, [msg[m] EXCEPT !.chat = open, !.peer = peer,
                    !.racing = strayed \/ OnItsWay(open),
                    !.at = IF peer = Nil THEN "post" ELSE "encrypt"])
       /\ UNCHANGED <<keys, page, cache, faults, overlapped>>

\* The first call looks into the cache.
ReadCache(m) ==
    LET key == cache[msg[m].peer]
    IN /\ msg[m].at = "encrypt"
       /\ Set(m, [msg[m] EXCEPT !.key = key, !.at = IF key = Nil THEN "fetch" ELSE "seal"])
       /\ UNCHANGED <<keys, page, cache, faults, overlapped>>

\* The rows of a user by their age, and the prekey of the newest.
RowsOf(u) == {n \in DOMAIN created : UserOf[created[n]] = u}
NewestKey(u) == row[created[Max(RowsOf(u))]]

\* Mutant: there is no second attempt.
FetchOnce(m) ==
    LET rows == RowsOf(msg[m].peer)
    IN /\ msg[m].at = "fetch"
       /\ IF rows # {}
            THEN Set(m, [msg[m] EXCEPT !.key = NewestKey(msg[m].peer), !.at = "bundle"])
            ELSE Set(m, [msg[m] EXCEPT !.tries = @ + 1, !.at = "post"])
       /\ UNCHANGED <<keys, page, cache, faults, overlapped>>

\* GetPreKeyBundle of the peer's newest row.  After an answer without one
\* handleSend calls once more, by-passing the cache, and then sends the text.
FetchBundle(m) ==
    LET rows == RowsOf(msg[m].peer)
    IN /\ msg[m].at = "fetch"
       /\ \/ /\ rows # {}
             /\ Set(m, [msg[m] EXCEPT !.key = NewestKey(msg[m].peer), !.at = "bundle"])
             /\ NoFault
          \/ /\ IF rows = {} THEN NoFault ELSE Fault
             /\ Set(m, [msg[m] EXCEPT !.tries = @ + 1,
                          !.at = IF msg[m].tries = 0 THEN "fetch" ELSE "post"])
       /\ UNCHANGED <<keys, page, cache, overlapped>>

\* The answer is cached, over what another call may have cached meanwhile.
CacheBundle(m) ==
    /\ msg[m].at = "bundle"
    /\ cache' = [cache EXCEPT ![msg[m].peer] = msg[m].key]
    /\ Set(m, [msg[m] EXCEPT !.at = "seal"])
    /\ UNCHANGED <<keys, page, faults, overlapped>>

\* The copy for the sender uses the prekey its browser has by now.
SealOwnCopy(m) ==
    /\ msg[m].at = "seal"
    /\ Set(m, [msg[m] EXCEPT !.own = prekey[Mine], !.at = "post"])
    /\ UNCHANGED <<keys, page, cache, faults, overlapped>>

PostMessage(m) ==
    /\ msg[m].at = "post"
    /\ \/ Set(m, [msg[m] EXCEPT !.at = "posted"]) /\ NoFault
       \/ Set(m, [msg[m] EXCEPT !.at = "failed"]) /\ Fault
    /\ UNCHANGED <<keys, page, cache, overlapped>>

\* Nothing is under way, and nobody has to start anything.
Idle ==
    /\ asked = {}
    /\ \A r \in Runs : ~Running(r)
    /\ \A m \in Messages : msg[m].at \in {"new", "posted", "failed"}
    /\ UNCHANGED cryptoVars

CryptoNext ==
    \/ \E r \in Runs : StartPublish(r) \/ StoreIdentity(r) \/ StorePrekey(r) \/ Publish(r)
    \/ \E b \in Browsers : ClearStorage(b)
    \/ \E chat \in Chats : SwitchChat(chat)
    \/ \E q \in asked : ReceiveChat(q)
    \/ \E m \in Messages :
         \/ Send(m) \/ ReadCache(m) \/ FetchBundle(m) \/ CacheBundle(m)
         \/ SealOwnCopy(m) \/ PostMessage(m)
    \/ Idle

CryptoSpec == CryptoInit /\ [][CryptoNext]_cryptoVars

-----------------------------------------------------------------------------
\* A message of a private chat is encrypted for the chat's peer and one of a
\* group for nobody, whatever chats were opened before, unless it was sent while
\* the data of its chat were on their way or those of another chat had come
\* after them (ChatPage.jsx 40-73 keeps the old data and takes every answer), or
\* unless no bundle could be had in two attempts.
EncryptedForPeer ==
    \A m \in Messages :
        LET s == msg[m]
        IN s.at = "posted" /\ ~s.racing =>
             \/ s.key = Nil /\ (PeerOf[s.chat] = Nil \/ s.tries = 2)
             \/ s.key # Nil /\ UserOf[RunIn[s.key]] = PeerOf[s.chat]

\* Keys that somebody may encrypt with, or has.
InUse == {row[b] : b \in Browsers} \cup {cache[u] : u \in Users}
         \cup UNION {{msg[m].key, msg[m].own} : m \in Messages}

\* decryptMessageFromPeer derives the secret with the private prekey the browser
\* has now.
Readable(k) == prekey[RunIn[k]] = k

\* What is encrypted can be read: a browser still has the prekey it published
\* or sealed its own copy with, unless its storage was cleared or two runs of
\* publishKeys found it without a prekey and overwrote each other's
\* (e2ee.js 336-349; StrictMode mounts ChatPage twice).
PublishedKeysAreHeld ==
    \A k \in InUse \ {Nil} :
        Readable(k) \/ RunIn[k] \in gone \cup overlapped
=============================================================================
