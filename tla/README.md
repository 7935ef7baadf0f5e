# Models and proofs of the SecureTalk messenger

TLA+ models of the messenger in this repository (a Go gRPC server over
PostgreSQL and a React client), checked with TLC and, for the parts marked
below, proved with TLAPS. Every definition is translated from the code;
`PROJECT.json` names the lines each one stands for.

## The system

| Part | State | Operations | Talks to |
|---|---|---|---|
| Connection manager (`internal/message/connection_manager.go`) | `clients`, a map from user to a list of channels, under a `sync.RWMutex` | `Subscribe`, `Unsubscribe`, `Publish` | called by stream handlers and request handlers |
| Message service (`internal/message`) | rows of `messages`, `chat_participants`, `chats`, `audit_logs` | `SendMessage`, `EditMessage`, `DeleteMessage`, `GetMessages`, `ConnectMessages` | connection manager, audit |
| Authentication (`internal/auth`) | rows of `users`, `refresh_tokens`; signed access tokens | `Register`, `Login`, `Logout`, `RefreshToken`, `ChangePassword`, profile, `DeleteAccount` | - |
| Prekeys (`internal/keys`) | rows of `device_keys`, `one_time_prekeys` | `UploadKeys`, `UploadOneTimeKeys`, `RotateSignedPreKey`, `GetPreKeyBundle` | - |
| Chats (`internal/chat`) | rows of `chats`, `chat_participants` | create, list, delete, add, remove, leave | shares its tables with the message service |
| Contacts (`internal/contact`) | rows of `contacts`, `blocked_contacts` | search, add, delete, block, unblock, lists | - |
| Files (`internal/file`) | files on disk, rows of `files` | upload in one piece, download as a stream of chunks | called by the composer and the list of messages |
| Interceptors (`internal/middleware`) | the rate limiter's counters; audit rows | authenticate, limit, audit each unary request | before and after each handler |
| Client session (`Web/src/api`, `contexts`, `services/grpcClient.js`) | `localStorage`, the user, the refresh queue, the realtime stream | login, logout, refresh and retry, reconnect | authentication, connection manager |
| Client view (`services/hooks/useMessages.js`, `MessageList.jsx`) | the list of messages, the fetch under way, the decrypted copy that is drawn | fetch, merge realtime events, send, edit, delete, switch chats, decrypt | message service |
| Files in the client (`MessageInput.jsx`, `MessageList.jsx`, `grpcClient.js`, `proto/*_pb.js`) | the attachment under way, the downloads under way | read, upload, send a message about it; receive through the generated code; download | files, message service |
| Layout and dialogs (`AppLayout.jsx`, `ContactsModal.jsx`, `CreateChatModal.jsx`, `ChatInfoModal.jsx`, `useChats.js`, `AuthContext.jsx`) | lists of contacts, blocks, chats, participants and log entries; `blockedUsers` | open, close, load, change, load again | contacts, chats |
| Client encryption (`Web/src/crypto/e2ee.js`, `ChatPage.jsx`, `MessageInput.jsx`) | own keys and cached keys of peers in `localStorage`, data of the open chat | publish keys, encrypt and send, decrypt | prekeys, client view |

`cmd/server/main.go` wires the parts; the unary interceptors run in the order
authentication, rate limit, audit. Each request runs on a goroutine of its own
and each SQL statement commits by itself (only chat creation uses a
transaction), so other requests act between any two statements. That is where
most of the difficulty lies. The rest is in the connection manager's locking
and, in the client, in answers that arrive in any order.

What makes each modelled part correct:

- connection manager: nobody sends on a closed channel, the map lists exactly
  the connected streams, messages stay in order and with their addressee, a
  slow client blocks nobody, a stream that ends gets out;
- message service: events follow what was committed, deletions are final, only
  participants post and hear;
- authentication: how many sessions there are, what ends them, how often a
  refresh token works, nothing outlives the account;
- prekeys: a one-time key goes to one peer unless two asked at the same time,
  used keys stay used, keys end up under a row that is at least as new as the
  device's own;
- chats: two users have one private chat unless both asked at once, a chat goes
  when its last participant leaves and takes nobody along who was counted;
- rate limiter: a quota per window whatever the cleanup does;
- client session: one refresh for all waiting calls, storage and user agree,
  one stream and a living one;
- client view: the list is the open chat's, and once all is quiet the screen
  shows every message once, in its newest version, and no deleted one;
- client encryption: a message is encrypted for the peer of its chat, with a key
  that a browser of the peer still has;
- files: what is downloaded is the whole of what was attached, no row and no
  message is about a file that is not there or only in part, and the composer comes back after
  a failure;
- layout and dialogs: the page hides whom the server has as blocked, a list is
  the server's once all is quiet, and one click makes one chat.

`PROJECT.json` lists the hazards at their lines with the properties for each.

## Modules

### ConnectionManager, MessageFeed, DeliveryProofs

A stream is one `ConnectMessages` call and names its channel; a publisher is a
request goroutine. The mutex is modelled as Go's: `Lock` announces its writer,
which stops new readers, and waits for those inside; `Unlock` admits the
readers that queued meanwhile. Labels of `pc` follow the code:
`new, subscribing, loop, sending, leaving, unsubscribing, returned` for a
handler, `idle, rlock, range` for a publisher, and the loop of `Publish` takes
one step per channel. `Cancel` is the end of the stream's context and
`SendFailed` an error of `stream.Send`. Messages of a publisher are numbered up
to `MaxSeq`; later ones are alike.

`MessageFeed` says what callers rely on, without locks, lists or program
counters: a publication is owed to the streams of its addressee that were live
when it started, is offered once to each, and is lost only at a full queue; no
stream leaves while something is owed to it. `ImplementsFeed` is the
refinement.

### MessageService, MessageServiceProofs

One chat. A request goes through the handler statement by statement: the
parent of a reply, the membership check, the INSERT, the parent again, the
audience, one `Publish` per participant, then for a send the audience and the
publications again in the server, then the interceptor's audit row. Edits and
deletions update, write the service's audit row and publish. `feed[u]` is the
sequence of `Publish` calls for a user, the input of `ConnectionManager`. Up to
`MaxFaults` statements fail without a reason of their own, an interrupted list
of participants among them, and the chat service changes the participants up to
`MaxChanges` times. `written`, `present` and `stable` are history variables:
the contents a row has had, and who was a participant at some time, or all the
time, while a handler ran. `GetMessages` changes nothing and is left out.

### AuthSessions, AuthSessionsProofs

One account. A refresh token is named by the login that generated it, a hash by
its password. The handlers of `auth_service.go` and `DeleteAccount` go
statement by statement, with foreign keys and cascades of the migrations.
`overlap` records which requests ran at the same time and `unpurged` whose
DELETE failed, since the code discards those errors: the properties say that
something irregular needs one of the two.

### PreKeys, PreKeysProofs

The rows of one user. `SELECT ... FOR UPDATE SKIP LOCKED` is two steps,
`TakeKey` and `ReleaseKey`, because other statements see its row lock, which
ends with the statement. A key is named by the request that brought it; a
signed prekey stands for itself and its signature, which are written together.
`UploadKeys` looks for the user's newest row after it saved its own, and so
does the model.

### Chats, ServerProofs

The handlers of `chat_server.go` over `users`, `chats` and `chat_participants`.
What a creation has inserted is invisible before its `Commit`; `held` has the
users its foreign keys lock, whose deletion waits. `LeaveGroup` is three
statements, `RemoveParticipants`, `CountParticipants` and `DeleteChat`.
`DeleteUser` is the cascade of an account that goes away. Histories: `overlap`
(creations under way at once), `thinned` (a private chat that lost a
participant), `emptier` (who took out the last participant), `known` (chats that
were ever committed, which a caller may name) and `joined` (participants added
since a leaving request counted).

### ChatView, DeliveryProofs

One client, the rows of its messages and the events on their way to it. The
contents of a message are its versions, one per edit. Each list is kept as the
list of the entries of every message: no property looks at the order of
different messages, but one that is listed twice is seen, and a fetch that
breaks off may have read any of its rows. `fetch` is the request
that was not aborted; `loading` unmounts `MessageList`; `runs` are the
decryptions under way, each of a copy of the list, since nothing cancels the
effect of `MessageList.jsx` and whichever run ends last is drawn. `Decode` is
the handler of `grpcClient.js`, which drops the flags of an event, so that a
deletion arrives as an edit to no text. `channel` is what `MessageFeed`
promises: order, with losses. The user's own call may commit and be answered with
an error or not at all (`LoseAnswer`): `useMessages.js` then only rethrows. Lost
events and lost answers together are bounded by `MaxLost`. Three histories name
what the code cannot know or does not do:

- `excused`: the newest version of a message is beyond the hook's reach, since
  its event was lost or overtaken, the answer to a call about it was lost, or a
  fetch failed; until a list comes that was read later;
- `crossed`: a send or an edit that was answered late fetched the chat it was
  made in, though another one is open (`useMessages.js` 83-92);
- `overtaken`: what is drawn comes from a decryption that a later one had
  overtaken (`MessageList.jsx` 325-460).

### E2EE, ClientProofs

Browsers run `publishKeys` when `ChatPage` is mounted, each `await` ending a
step; a run names the signed prekey it makes. One browser, `Mine`, also has the
data of the open chat (`info`) and sends messages: `Send` takes the peer from
`info`, `ReadCache`, `FetchBundle` and `CacheBundle` are
`encryptMessageForPeer`, with the second attempt of `handleSend`, and
`SealOwnCopy` uses the prekey the browser has by then. `row` and `created` are
`device_keys` of `PreKeys`, of which a fetch takes the user's newest row.
Identity keys only sign and a run signs what it publishes itself, so they are
reduced to whether a browser has one; the one-time keys of a bundle encrypt
nothing. The properties except what the code leaves open:

- `racing`: the message was sent while the data of its chat were on their way,
  or after those of another chat had come last (`ChatPage.jsx` 40-73 keeps the
  old peer and takes every answer);
- `tries = 2`: no bundle could be had, and the text goes out as it is;
- `overlapped`: two runs of `publishKeys` found no prekey and each made one,
  as they may when `StrictMode` mounts the page twice (`e2ee.js` 336-349).

`CryptoNext`, `stage`, `Nil` and the like are so named because `ClientProofs`
extends this module together with `ClientSession`.

### ClientSession, ClientProofs

One tab. A step is what JavaScript runs from one event to the next, promise
reactions included. Calls go `new, sent, queued, refreshing, settled`; `conn`
holds the fields of `grpcClient` and `live` counts streams that are open at the
server. The server may refuse any call up to `MaxRefusals` times and any
refresh. `crossed` and `renewed` are history variables: the session changed
while a refresh was under way, and `updateToken` restarted a stream. They name
the two cases in which the code does not keep what `StorageMatchesUser` and
`StreamKeptForUser` say otherwise:

- the answer of a refresh that arrives after a logout or another login stores
  its token, or removes those of the new session (`httpClient.js` 65-82);
- `updateToken` sets the token, then calls `disconnect`, which clears it, and
  opens a stream with `Bearer null`; `handleDisconnect` later sees no token and
  does not reconnect (`grpcClient.js` 117-152).

### Wire, Files, FilesProofs

`Wire` is what the generated code of the web client does: a message is a
sequence of numbered fields, `Field` leaves defaults out, unknown fields are
skipped, and `Value` is the last value of a number or the default. Numbers and
strings in bytes are the library's.

`Files` follows one attachment from Alice to Bob. `composer` is
`handleFileChange` with the values of its rendering, `upload` the handler of
`UploadFile` (`SaveFile`, then `SaveMetadata`), `channel` the events on Bob's
stream, serialized, `shown` his list and `downloads` the calls of
`downloadFile`, one per message: `ServeDownload` is the head of the handler with
its checks, `SendChunk` the loop, `SettleDownload` the `finally` of
`handleDownload`. `disk` says of each file how many of its chunks were written:
`os.WriteFile` creates the file first, so a write that fails leaves any part of
it, and `UploadFails` has this next to a failed request, a failed INSERT and one
whose answer is lost. Histories: `broken` (files whose write or INSERT failed),
`chosen` (by message, the quote chosen when its file was picked), `saved` and
`failures`.
The path of a file is made with the separator of the server's system, so
`separator` is chosen at the start. What the code does and the properties say:

- the button "Скачать файл" works only if the server's paths have backslashes,
  since the client cuts the path at its last slash and the server opens the rest
  from its working directory (`MessageList.jsx` 141 and 198, `file_server.go`
  105);
- names with ".." or ":" are stored and never served;
- after a refresh of the token `grpcClient` has none, and downloads fail until
  the page is loaded anew;
- when the `FileReader` fails its callback throws outside the promise, and the
  composer stays disabled (`useMessages.js` 98-117): the phase `unread`;
- `onClearReply` clears the quote that is chosen when the message is answered,
  which may be another one than was sent.

### Shell, Contacts, ChatDialogs, AppShell, AppShellProofs

`Shell` has what the screens around a chat share: the rows of the server, the
user and `blockedUsers`, the three modals of `AppLayout`, and `calls`, the
asynchronous handlers under way. A call is sent, then served (one step of the
server) or refused, then settled, each in any order; `home` says where its
state lives, and `gone`, `left` and `dead` that the modal was closed, the user
logged out or the page was loaded anew. React ignores what is set in a modal that
is gone, but the callbacks given by `AppLayout` and the context still act.

`Contacts` has `ContactsModal.jsx` and the handlers of `internal/contact`,
`ChatDialogs` the other two modals, the list of chats and the handlers of
`internal/chat`, one step each (`GetChat` asks whether the caller takes part,
`GetChatLogs` does not); `AppShell` puts them together and adds logins, logouts,
reloads and what others do: block from another browser, delete an account, make
a group with the user, remove the user from one. Three histories name what the code leaves
open:

- `excused`: nothing loads `blockedUsers` from the server, so it differs from
  `blocked_contacts` after a login on another browser or by another user of the
  same one, after a lost or crossed answer, or when the block was made elsewhere.
  Then "Вы не будете видеть его сообщения и не сможете писать ему"
  (`ContactsModal.jsx` 101) does not hold in that browser;
- `stale`: the last answer wins whenever it was served; `openChat` makes a chat
  and does not load the list of chats; `blockContact` loads contacts and not the
  blocks that the other tab shows; an addition loads the participants of the chat
  it was made in; a load that fails or is denied leaves the list as it was; what
  others do to the user's chats is announced to nobody;
- `searched`: search and creation share one `loading` flag, so a search that
  ends enables the button while a creation is under way. The late answer of a
  creation also closes a dialog that was opened after it.

### RateLimiter, Quota, ServerProofs

The map of counters with `Allow` and the cleanup worker. Time is relative: an
entry holds the ticks to its `Reset`, negative afterwards, and ticks beyond the
grace period are alike, as are counts beyond the limit. `Quota` is a window per
user that opens with a request; `ImplementsQuota` shows that the lazy reset and
the cleanup do not show. `admitted` is a history: `admitted[u][a]` counts the
requests of `u` let through in this tick and the `a` ticks before it. Some names
carry `limiter`, since `ServerProofs` extends this module together with `Chats`.

### MC modules and mutants

Each model has a type invariant or says in its declarations what its variables hold.
The run of `AuthSessions` checks it, since there it has a foreign key (no token
without its account). The proof modules prove it or the part of it they need
(`StoreType` of `FilesProofs`, `ShellType` of `AppShellProofs`).

Each `MC` module gives its model small instances and symmetry sets. In every
model module definitions marked *Mutant* are plausible mistakes in the code: a
dropped guard, a lock not waited for, an error not looked at. Each stands before
the definition it may replace and is used by nothing else; with it in place the
property `PROJECT.json` pairs it with fails, which shows that the property
depends on that line of the code.

## Runs

| Run | Instance | Shows |
|---|---|---|
| `ConnectionManager` | 1 user, 2 streams, 2 publishers, capacity 1 | no send on a closed channel, refinement of `MessageFeed` |
| `ConnectionManagerLive` | 1 stream, 2 publishers, 3 messages each, capacity 2, fair | order, no duplicates; `Publish` returns; a cancelled stream returns |
| `MessageService` | 3 users, 1 fault; a send with up to three of its reply, edit and deletion, or with a forbidden edit; up to 2 changes of participants | events follow commits, deletions are final and not quoted, who posts, who is told how often |
| `AuthSessions` | 1 fault; 2 logins, 2 refreshes, 1 logout; or 3 logins, password change, deletion | tokens double only in a race, logout is final, no token without account, old passwords need a race |
| `PreKeys` | 2 key ids, 1 fault; 2 publishes, 3 fetches; or 2 devices, top-up, rotation, fetch | one peer per key unless they raced, used stays used, where stray keys go |
| `Chats` | 3 users, 1 fault; 2 private creations, addition, removal, leaving; or private and group creation with the same; or group, addition, 2 leaving, deletion | a second private chat needs a race, leaving ends and spares |
| `ChatView` | 2 chats, 1 own and 1 foreign message, 1 switch, 1 lost event or answer, 1 failed fetch, 2 decryptions at a time | the list is the open chat's, the screen is right when quiet |
| `E2EE` | 4 browsers of 3 users, 5 runs of `publishKeys`, 3 chats, 2 messages, 1 fault, in 4 scenarios | encrypted for the peer, keys still held |
| `ClientSession` | 4 calls (a request, a logout, a deletion, a password change), 2 logins, 4 refusals, 1 reload, fair | one refresh, storage, streams; calls settle, streams reopen |
| `Files` | 2 files, one of two chunks and one with ".." in its name; 1 fault, 1 refresh; 2 attachments, or 2 downloads of one message, fair | the file and its quote arrive whole, which downloads work, rows and files match, the composer is freed |
| `AppShell` | 3 users, 2 of them of this browser, 1 group; 4 clicks or events elsewhere, 1 fault | block lists agree, lists are fresh when quiet, two creations need a search |
| `RateLimiter` | 2 users, limit 2, window 2, grace 1 | two quotas at most, refinement of `Quota` |

`MessageService`, `AuthSessions`, `PreKeys`, `Chats`, `E2EE` and `Files` ask several
scenarios in one run: the `CONSTRAINT OneScenario` of their MC modules keeps a
behaviour to the requests of one scenario, listed there, and every scenario
starts from the same initial state.

Why the bounds are enough. In the connection manager one user with two streams
has every interplay of its list, since lists of different users share only the
mutex; two publishers are needed to overlap read locks; capacity 1 is reached at
once and capacity 2 has an order. `MaxSeq` 1 makes all messages of a publisher
alike, which the lock properties do not look at; the live run has 3, more than
a buffer holds. The services' hazards are between two handlers, or three with
the one that observes the result, and every instance has that many with each
statement between them; one fault meets each statement in turn, and two
participant changes let a user leave and come back. Two key ids make "the next
key" and "no key left" different. A tab needs two calls that wait, one that
refreshes, and two logins to tell the sessions apart; a call is refused at most
twice before it is rejected. The screen needs a message that goes through all its
versions and an own one that changes once, one switch to leave a fetch or a call
behind, and two decryptions to overtake each other. For encryption two runs in
one browser meet in every order, a second browser of the peer makes its old key
stale, and three chats are one with keys, one without and a group. An attachment
needs two chunks to be cut short and a second upload to find the composer free
again. In the dialogs four clicks open a modal, start two calls that cross and
leave one for a further change; opening answers, closing a modal and choosing in
it do not count.

In `ClientSession` and `AppShell` a page may rest for ever, so their runs do not
ask for deadlocks; in all other runs deadlock is an error. The `Idle` step of a model is
enabled only when nothing is under way. In the runs of several scenarios this
says less: a request of another scenario can always start, and the constraint
cuts the behaviour there.

## Fairness

`ConnectionManager`: the Go scheduler runs every runnable goroutine, hence weak
fairness of each step of `Publish` and of the steps under the lock. `Lock` is
handed over in turn and `select` chooses among its ready cases at random, hence
strong fairness of announcing the writer and of `ContextDone`. A `Send` on a
cancelled stream returns; nothing makes a connected client read, so
`SendAccepted` has no fairness, and `PublishReturns` holds without it.

`ClientSession`: every HTTP request gets some answer, if only a network error,
and timers fire. No login, reload or break of a stream is ever forced.

`Files`: the browser goes on with an attachment it has begun, the requests of it
are answered, and the server's handler runs on: weak fairness of `Upload`, the
disjunction of these steps. Nothing is said of downloads or clicks.

The server's SQL handlers have no liveness property: each is a finite sequence
of statements that do not wait for one another, row locks of one statement
aside.

## Proofs

`DeliveryProofs` has two independent parts, the two ends of a message's way. For
the connection manager, with any users, streams, publishers, capacity and
numbers of messages, from `ConnectionAssumption`:

- `TypeCorrect`, `NoPanic`, `RegistryCorrect`, `Isolation`: the invariants
  `TypeOK`, `NoSendOnClosedChannel`, `RegisteredWhileConnected` and
  `OwnMessagesOnly`;
- `Order`: `InOrderAtMostOnce`;
- `Refinement`: the manager implements `MessageFeed`.

`NoSendOnClosedChannel` is not inductive: that no channel of a range loop gets
closed rests on the lock. `Invariance` therefore proves the conjunction of

- `LockInv`: a goroutine is in its critical section exactly when the mutex says
  so, the writer excludes the readers, and only announced writers make readers
  wait;
- `ProgressInv`: what is still to visit is a list without duplicates of
  registered channels of the addressee, and a message in hand matches `pc`;
- `RegisteredWhileConnected`, `NoSendOnClosedChannel`, `OwnMessagesOnly` and
  `TypeOK`.

Each action is one case of `InvNext`. While `rest` is non-empty its publisher is
a reader, so no `Unsubscribe` is enabled, and hence no listed channel closes.
The facts about lists (`SuffixProperties`, `RemoveFirstProperties`, `AppendSet`,
`HeadTailSet`) come first. `OrderInv` adds what a stream has of a publisher, in
its buffer, in its handler's hand and delivered: it is in order, not ahead of the
publisher's latest call, and behind it while the message is still owed. For the
refinement, `ListOfLive` says that a user's list holds exactly its live streams,
so what `Publish` ranges over is what `MessageFeed` owes, and `FeedStep` maps
each action to one of its actions or to a stutter.

`TypeOK`, `RegisteredWhileConnected` and `OwnMessagesOnly` are proved and need no
run of their own.

For the screen, with any chats, messages, versions and bounds, from
`ViewAssumption`:

- `ViewTypeCorrect`: `ViewTypeOK`;
- `ScreenStaysInChat`: `ScreenIsOpenChat`;
- `ShowsNewest`: `ShowsNewestWhenQuiet`.

The last says something of quiet states only. Its invariant `ViewInv` follows a
version from its row to the screen:

- `EventsInv`, `ListsInv`: events and lists tell of versions that rows had, and of
  a deletion exactly when they tell of the newest; a message is listed once;
- `ToldInv`: a version the client was not told of is in a handler that has still
  to publish it, in the channel, or in the answer to the user's own call;
- `ScreenInv`: unless a fetch will decide it, what the client was told of is on
  the list, or it is an own message that was deleted and is off the list;
- `ChatInv`: a fetch and its rows are of the open chat unless `crossed`, and then
  every message is excused;
- `RunsInv`: runs that were overtaken come before those that were not; the last
  run works on the current list unless it was overtaken, and when all were, the
  list is drawn or `overtaken` is set;
- `PostsInv`: only own messages are posted, and an answered deletion is in the row.

When all is quiet nothing can be on its way, so each version was heard, is on the
list, and the list is drawn (`NewestOnList`). It matters that no event of an own
message comes: a deleted one would be put back on the list.

`ServerProofs` has two independent parts. For the chats, with any users and
requests, from `ChatAssumption`:

- `ChatTypeCorrect`: `TypeOK`, with the foreign keys of the chat tables;
- `OnePrivateChat`, `LastLeaver`: `SecondPrivateChatNeedsRace` and
  `LastLeaverDeletes`;
- `LeaveSpares`: the action property `LeaveSparesOthers`.

In `ChatInv` creations that run together know of each other (`OverlapInv`). A
private chat that lost nobody has both its users, and a creation that found none
knows each chat of its pair there is by now as one that overlapped it or lost
somebody (`PairInv`). Whoever takes part in a chat that its leaver has counted as
empty was added since (`DropInv`), and a request that emptied a chat has still to
count or to delete it, or has failed (`EmptierInv`).

For the rate limiter, with any callers, limit, window and grace period, from
`LimiterAssumption`:

- `LimiterTypeCorrect`: `LimiterTypeOK`, which keeps counts in `1 .. Limit + 1`
  and a `Reset` no further ahead than a window;
- `TwoQuotas`: `AtMostTwoQuotas`. A bound on one stretch of time is not
  inductive, since a tick turns it into a bound on a longer one. `WindowsInv`
  speaks of all stretches at once: a window that is on has counted all that was
  admitted since it began, and what was admitted before and is young enough to
  matter is one quota at most;
- `LimiterRefinement`: the cleanup maps to a stutter because an entry beyond its
  grace period is beyond its `Reset`, and such an entry is shown as no window.

`MessageServiceProofs`, for any users, requests, replies among them and bounds,
from `MessageAssumption`:

- `TypeCorrect`, `CommittedFirst`, `Membership`: `TypeOK`, `EventsFollowCommits`
  and `OnlyMembersTakePart`;
- `Notified`: `StableMembersNotified`;
- `DeletionIsFinal`, `DeletionIsNotQuoted`: the action properties
  `DeletedIsFinal` and `DeletedIsNotQuoted`.

What an event says was committed long before it is published, by a handler that
other handlers interrupt after each statement. `MessageInv` therefore follows a
handler by its label: before its INSERT there is no row (`RowsInv`), from its
commit to its end its contents are among the committed ones (`CommitInv`), and
whom it has still to tell it has read as participants while it ran
(`MembersInv`). `ControlInv` keeps sends, edits and deletions to their own
labels, and `SilentInv` says that a request that has not begun is in no feed, so
that `present` may be reset when it begins. A deletion blanks its row
(`RowsInv`), hence what is read after it is blank or fails. `NoticesInv` counts:
how often a handler has told each participant follows from where it is and whom
it has still to tell, and who has stayed since it began is on its lists.

`AuthSessionsProofs`, for any requests, passwords and number of faults, from
`AuthAssumption`:

- `TypeCorrect`: `TypeOK`, with the foreign key from tokens to the account;
- `OneSession`, `PasswordRevokes`, `RedeemedOnce`, `LogoutIsFinal`:
  `SecondSessionNeedsRace`, `OldPasswordNeedsRace`, `RedeemedTwiceNeedsRace`
  and `LoggedOutStaysOut`.

A property that excuses races needs an invariant about who can race. In `AuthInv`
handlers that run together know of each other (`OverlapInv`); a login that is
about to save has deleted every token but those of logins that overlapped it
(`SessionInv`); the password it checked is in force unless a change overlapped
(`PasswordInv`); and a token that was consumed is gone, so that whoever still
holds it found it while the first was running (`SpentInv`).

`PreKeysProofs`, for any devices, requests, key ids and number of faults, from
`PreKeysAssumption`:

- `TypeCorrect`: `TypeOK`;
- `IssuedOnce`, `StrayKeys`: `IssuedTwiceNeedsRace` and
  `StrayKeysGoToNewerDevices`;
- `UsedStaysUsed`: the action property `UsedKeysStayUsed`.

`KeysInv` states the first from the moment a key is taken instead of the moment
it is answered (`TakenTwiceNeedsRace`), and says what a fetch that holds a key
has done when it is done: marked it, or failed to and been recorded
(`HolderInv`). The newest row is a least element in the reverse order of
creation, whose existence is drawn from the well-foundedness of the naturals.

`ClientProofs` has two independent parts. For the session, with any calls and
bounds, from `ClientAssumption`:

- `TypeCorrect`: `TypeOK`;
- `OneRefresh`, `StorageAndUser`, `OneStream`, `StreamKept`: `OneRefreshForAll`,
  `StorageMatchesUser`, `OneStreamPerUser` and `StreamKeptForUser`.

In `ClientInv` the flag `isRefreshing` goes with exactly one call that refreshes
and the queue with the calls that wait, each once (`RefreshInv`); the token that
was posted is that of the session in `localStorage` unless the session changed
meanwhile (`PostedInv`); a stream counts as live while it is open, and only a
broken one has a timer (`StreamInv`). The state falls into a session and
`httpClient`, so that each action has to be looked at in one half only.

For the encryption, with any browsers, runs of `publishKeys`, chats and messages,
from `E2EEAssumption`:

- `CryptoTypeCorrect`: `CryptoTypeOK`;
- `KeysAreHeld`, `EncryptsForPeer`: `PublishedKeysAreHeld` and
  `EncryptedForPeer`. The run checks them in four scenarios, the theorems in all.

In `CryptoInv` a run that makes a prekey finds none and is alone in its browser
unless it is known to overlap (`LoneInv`), so that no key in use is overwritten
(`HeldStays`). The chat whose data the page has is the open one, unless other
data came last or its own are on their way (`PageInv`); the peer taken from it
stays with the message, and the rows, the cache and the messages have keys of
the user they stand for (`RowInv`, `CacheInv`, `MessageInv`).

`FilesProofs`, for any files, chunks and bounds, from `FilesAssumption` and
`QuoteAssumption` (Null is no message):

- `StoreTypeCorrect` and `RowsMatchFiles`, which is `FilesMatchRows`: rows have
  whole files, messages have the row of the file that was picked, and a file
  without a row is in `broken` or under way. That no message names a row without
  its file is not inductive: the row is the server's, the url went to the client
  and comes back with the message.
  `UploadInv` and `ComposerInv` carry it along: the handler runs only while the
  composer waits for it and for the same file, and the url the composer holds
  while it sends is the row of that file;
- `MessageRoundTrip`: what the generated code writes of a message it reads back,
  an empty field as its default and a quote inside, for every message. `Holds`
  says of a sequence of fields what stands under each number;
- `ArrivesWhole` and `BackslashNeeded`, which are `AttachmentArrivesWhole` and
  `DownloadsNeedBackslash`. `ReceiverInv` describes Bob's side: his list shows
  rows as they were fetched or as they came in events, the chunks of a download
  that came and those on the wire are the first of its file in their order, it
  was opened only with backslashes, and one that failed has a reason. `SentInv`
  follows the quote: what was chosen when the file was picked stays in the
  composer until the message has it (`QuoteKept`).

`AppShellProofs`, for any users, rows and bounds, from `NoneAssumption` (no value
of a modal means that it is closed) and `FirstAssumption` (the chats at the start
are chats, and groups made in this browser have their creators):
`BlocksAgree`, `OneCreation` and `ListsFresh`, which are `BlockListsAgree`,
`TwoCreationsNeedSearch` and `ListsFreshWhenQuiet`. All speak of moments the
code does not mark, so invariants say what holds in between. `ShellInv`, for the
first two:

- `BlocksInv`: where `blockedUsers` and the server disagree about a user, an
  answer that will set it right is on its way;
- `CreationInv`: unless a search interfered, there is one creation at most and
  `loading` is set while there is;
- `HomesInv`: a call that lives in a modal has it open, so that a modal opened
  anew begins with no creation under way.

`Lists`, for the third: a list that is shown and not `stale` is the server's, or
one of the calls that end with that list is under way (`ContactsWaits`,
`DetailsWaits`, `SidebarWaits`, `ParticipantsWaits`, `LogsWaits`; a creation
counts among them only once it was answered with a chat). It holds only with what
is known of the calls and the rows:

- `CallsInv`: a call whose page has not left it is the user's and about a chat
  that is there; one that adds or removes a participant was made by the group's
  creator and one that leaves was not, as the buttons ask;
- `RowsInv`: a group made in this browser keeps its creator until it is deleted.
  With the last fact it follows that adding or removing a participant never
  changes the user's own list of chats, which is not loaded then;
- `PageInv`: the open chat is there, and nobody's page has neither modals nor
  calls.

The calls are a set that changes in five ways (a call is started, answered, goes
on, ends, or loses its home). For each a lemma says what becomes of answers,
homes and creations (`StartedFacts` and the like), another of the lists that are
awaited (`StartedLists`); each action cites one of either.

Only model-checked: all liveness, which the prover cannot do
(`PublishReturns`, `CancelledStreamReturns`, `CallsSettle`, `StreamsReopen`,
`ComposerFreed`). Every safety property and refinement a run checks is proved.

## Not modelled

- On the server: registration, profiles and audit queries, each one statement
  whose row nothing else reads with another; start-up and shutdown. That
  `GracefulStop` waits for streams that end only with their clients is listed
  as a hazard: one sentence about two library calls, with no state to explore.
- In the client: the forms of login and registration, the profile and audit pages
  (one request, one answer, shown), names of chats, the menu of a chat, error
  messages and the indicators of the connection; several tabs that share
  `localStorage`.
- Of the generated code only the codecs and stubs that the web client calls; it
  talks JSON otherwise. The code in `gen/` is taken to read and write the same.
- Cryptography, JSON, rendering and the tools beside the program. Access tokens
  are taken as valid for the whole run, as the code asks no table.

## Plan

Done, in order: `ConnectionManager` with `MessageFeed`, `MessageService`,
`AuthSessions`, `PreKeys`, `ClientSession`, `RateLimiter` with `Quota`, `Chats`,
`ChatView`, `E2EE`, `Files` with `Wire`, `AppShell` with `Shell`, `Contacts` and
`ChatDialogs`; the proofs of every safety property and refinement the runs check.
To do:

1. Abstract specifications of the services: a chat as a set of members with a log
   of messages, implemented by `MessageService`; a session store, implemented by
   `AuthSessions` as far as no race is on.
2. Two tabs that share `localStorage`.
