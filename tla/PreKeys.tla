------------------------------- MODULE PreKeys -------------------------------
(***************************************************************************)
(* internal/keys: the public keys of one user (rows of different users     *)
(* never meet), published by its devices and fetched by its peers.  Every  *)
(* request is a goroutine that issues one autocommitted statement after    *)
(* another.  A published signed prekey or one-time prekey is named by the  *)
(* request that brought it, an identity key by its device.                 *)
(*                                                                         *)
(* SELECT ... FOR UPDATE SKIP LOCKED is two steps, since its row lock is   *)
(* what other statements see; outside a transaction the lock ends with the *)
(* statement, before the key is marked used.                               *)
(***************************************************************************)
EXTENDS Naturals, Sequences, SequencesExt, FiniteSetsExt

CONSTANTS Devices, Requests,
          Kind,         \* "publish", "topup", "rotate" or "fetch"
          DeviceOf,     \* the device a request names; of no use to a fetch
          KeyCount,     \* one-time keys of a publish: ids 1..KeyCount, 20 in the code
          MaxFaults,    \* bound: statements that fail
          None

Ids == 1..KeyCount

\* What the rows hold.  Every statement writes a prekey with its signature.
Material == [identity : Devices, prekey : Requests]
Keys == [from : Requests, used : BOOLEAN]

ASSUME PreKeysAssumption ==
    /\ Kind \in [Requests -> {"publish", "topup", "rotate", "fetch"}]
    /\ DeviceOf \in [Requests -> Devices]
    /\ KeyCount \in Nat \ {0}
    /\ MaxFaults \in Nat
    /\ None \notin Devices \cup Requests \cup Ids \cup Material \cup Keys

VARIABLES
    device,     \* device_keys: the key material of a row, or None
    created,    \* devices in the order their rows were created
    oneTime,    \* one_time_prekeys by device row and key_id
    pc,         \* where each request is
    at,         \* the device row a request works on
    id,         \* the key_id it inserts next, or the one it took
    bundle,     \* the device row a fetch read
    outcome,    \* what the request returns
    faults,     \* number of failed statements so far
    overlap,    \* history: for a fetch, the fetches that ran at the same time
    unmarked    \* history: fetches whose UPDATE of used failed

tables == <<device, created, oneTime>>
local == <<pc, at, id, bundle, outcome>>
vars == <<tables, local, faults, overlap, unmarked>>

TypeOK ==
    /\ device \in [Devices -> Material \cup {None}]
    /\ created \in Seq(Devices) /\ IsInjective(created)
    /\ oneTime \in [Devices -> [Ids -> Keys \cup {None}]]
    /\ pc \in [Requests -> {"new", "find", "insert", "take", "release", "mark", "done"}]
    /\ at \in [Requests -> Devices \cup {None}]
    /\ id \in [Requests -> Ids \cup {None}]
    /\ bundle \in [Requests -> Material \cup {None}]
    /\ outcome \in [Requests -> {"none", "ok", "error"}]
    /\ faults \in 0..MaxFaults
    /\ overlap \in [Requests -> SUBSET Requests]
    /\ unmarked \in SUBSET Requests
    /\ \A d \in Devices : device[d] # None <=> d \in ToSet(created)

Init ==
    /\ device = [d \in Devices |-> None]
    /\ created = <<>>
    /\ oneTime = [d \in Devices |-> [i \in Ids |-> None]]
    /\ pc = [r \in Requests |-> "new"]
    /\ at = [r \in Requests |-> None]
    /\ id = [r \in Requests |-> None]
    /\ bundle = [r \in Requests |-> None]
    /\ outcome = [r \in Requests |-> "none"]
    /\ faults = 0
    /\ overlap = [r \in Requests |-> {}]
    /\ unmarked = {}

Active(r) == pc[r] \notin {"new", "done"}
Goto(r, label) == pc' = [pc EXCEPT ![r] = label]
Return(r, result) ==
    /\ outcome' = [outcome EXCEPT ![r] = result]
    /\ Goto(r, "done")

Fault == faults < MaxFaults /\ faults' = faults + 1
NoFault == UNCHANGED faults

Begin(r, kind) == pc[r] = "new" /\ Kind[r] = kind

\* A fetch meets the ones under way.
Meet(r) ==
    LET others == {q \in Requests : Active(q) /\ Kind[q] = "fetch"}
    IN overlap' = [q \in Requests |->
                     CASE q = r -> others
                       [] q \in others -> overlap[q] \cup {r}
                       [] OTHER -> overlap[q]]

-----------------------------------------------------------------------------
(* UploadKeys                                                              *)

\* INSERT INTO device_keys ON CONFLICT DO UPDATE: id and created_at stay.
SaveDeviceKeys(r) ==
    /\ Begin(r, "publish")
    /\ LET d == DeviceOf[r]
       IN \/ /\ device' = [device EXCEPT ![d] =
                             [identity |-> d, prekey |-> r]]
             /\ created' = IF device[d] = None THEN Append(created, d) ELSE created
             /\ NoFault
             /\ Goto(r, "find")
             /\ UNCHANGED outcome
          \/ Fault /\ Return(r, "error") /\ UNCHANGED <<device, created>>
    /\ UNCHANGED <<oneTime, at, id, bundle, overlap, unmarked>>

\* Mutant: the user's oldest row.
FindOldest(r) ==
    /\ pc[r] = "find"
    /\ at' = [at EXCEPT ![r] = Head(created)]
    /\ id' = [id EXCEPT ![r] = 1]
    /\ Goto(r, "insert")
    /\ UNCHANGED <<tables, bundle, outcome, faults, overlap, unmarked>>

\* GetDeviceKeyIDByUserID: the user's newest row; on an error the one-time
\* keys are left out and the request still succeeds.
FindDevice(r) ==
    /\ pc[r] = "find"
    /\ \/ /\ at' = [at EXCEPT ![r] = Last(created)]
          /\ id' = [id EXCEPT ![r] = 1]
          /\ NoFault
          /\ Goto(r, "insert")
          /\ UNCHANGED outcome
       \/ Fault /\ Return(r, "ok") /\ UNCHANGED <<at, id>>
    /\ UNCHANGED <<tables, bundle, overlap, unmarked>>

\* UploadOneTimeKeys names the device row; the foreign key needs it.
TopUp(r) ==
    /\ Begin(r, "topup")
    /\ IF DeviceOf[r] \in ToSet(created)
         THEN /\ at' = [at EXCEPT ![r] = DeviceOf[r]]
              /\ id' = [id EXCEPT ![r] = 1]
              /\ Goto(r, "insert")
              /\ UNCHANGED outcome
         ELSE Return(r, "error") /\ UNCHANGED <<at, id>>
    /\ UNCHANGED <<tables, bundle, faults, overlap, unmarked>>

\* Mutant: ON CONFLICT DO UPDATE.
Upserted(r, d, i) == [from |-> r, used |-> FALSE]

\* The row a key_id holds after INSERT ... ON CONFLICT DO NOTHING.
Inserted(r, d, i) ==
    IF oneTime[d][i] = None THEN [from |-> r, used |-> FALSE] ELSE oneTime[d][i]

\* One INSERT of SaveOTPKs; an error ends the loop, and UploadKeys ignores it.
InsertKey(r) ==
    /\ pc[r] = "insert"
    /\ \/ /\ oneTime' = [oneTime EXCEPT ![at[r]][id[r]] = Inserted(r, at[r], id[r])]
          /\ NoFault
          /\ IF id[r] < KeyCount
               THEN id' = [id EXCEPT ![r] = @ + 1] /\ UNCHANGED <<pc, outcome>>
               ELSE Return(r, "ok") /\ UNCHANGED id
       \/ /\ Fault
          /\ Return(r, IF Kind[r] = "publish" THEN "ok" ELSE "error")
          /\ UNCHANGED <<oneTime, id>>
    /\ UNCHANGED <<device, created, at, bundle, overlap, unmarked>>

\* RotateSignedPreKey: an UPDATE, of no row when the device is unknown.
RotateSignedPreKey(r) ==
    /\ Begin(r, "rotate")
    /\ LET d == DeviceOf[r]
       IN \/ /\ device' = IF device[d] = None THEN device
                          ELSE [device EXCEPT ![d].prekey = r]
             /\ NoFault
             /\ Return(r, "ok")
          \/ Fault /\ Return(r, "error") /\ UNCHANGED device
    /\ UNCHANGED <<created, oneTime, at, id, bundle, overlap, unmarked>>

-----------------------------------------------------------------------------
(* GetPreKeyBundle                                                         *)

\* GetDeviceKeys: the newest row of the user, whole, by one SELECT.
ReadBundle(r) ==
    /\ Begin(r, "fetch")
    /\ Meet(r)
    /\ \/ /\ created # <<>>
          /\ bundle' = [bundle EXCEPT ![r] = device[Last(created)]]
          /\ at' = [at EXCEPT ![r] = Last(created)]
          /\ NoFault
          /\ Goto(r, "take")
          /\ UNCHANGED outcome
       \/ /\ IF created = <<>> THEN NoFault ELSE Fault
          /\ Return(r, "error")
          /\ UNCHANGED <<bundle, at>>
    /\ UNCHANGED <<tables, id, unmarked>>

\* Rows that a SELECT of another request holds at this moment.
Locked(d, i) == \E q \in Requests : pc[q] = "release" /\ at[q] = d /\ id[q] = i

\* Mutant: used keys are not left out.
AllKeys(d) == {i \in Ids : oneTime[d][i] # None /\ ~Locked(d, i)}

Available(d) ==
    {i \in Ids : oneTime[d][i] # None /\ ~oneTime[d][i].used /\ ~Locked(d, i)}

\* GetOneTimePreKey: the smallest key_id that is unused and not locked.
TakeKey(r) ==
    /\ pc[r] = "take"
    /\ \/ /\ Available(at[r]) # {}
          /\ id' = [id EXCEPT ![r] = Min(Available(at[r]))]
          /\ NoFault
          /\ Goto(r, "release")
          /\ UNCHANGED outcome
       \/ /\ IF Available(at[r]) = {} THEN NoFault ELSE Fault
          /\ Return(r, "ok")
          /\ UNCHANGED id
    /\ UNCHANGED <<tables, at, bundle, overlap, unmarked>>

\* The statement ends and its lock with it.
ReleaseKey(r) ==
    /\ pc[r] = "release"
    /\ Goto(r, "mark")
    /\ UNCHANGED <<tables, at, id, bundle, outcome, faults, overlap, unmarked>>

\* MarkOneTimePreKeyUsed waits for the row lock; its error is ignored.
MarkUsed(r) ==
    /\ pc[r] = "mark"
    /\ \/ /\ ~Locked(at[r], id[r])
          /\ oneTime' = [oneTime EXCEPT ![at[r]][id[r]].used = TRUE]
          /\ NoFault
          /\ UNCHANGED unmarked
       \/ Fault /\ unmarked' = unmarked \cup {r} /\ UNCHANGED oneTime
    /\ Return(r, "ok")
    /\ UNCHANGED <<device, created, at, id, bundle, overlap>>

-----------------------------------------------------------------------------
Handler(r) ==
    \/ SaveDeviceKeys(r) \/ FindDevice(r) \/ TopUp(r) \/ InsertKey(r)
    \/ RotateSignedPreKey(r)
    \/ ReadBundle(r) \/ TakeKey(r) \/ ReleaseKey(r) \/ MarkUsed(r)

\* Nothing is running, and nobody has to ask for anything.
Idle == (\A r \in Requests : ~Active(r)) /\ UNCHANGED vars

Next == (\E r \in Requests : Handler(r)) \/ Idle

Spec == Init /\ [][Next]_vars

-----------------------------------------------------------------------------
Fetched(r) == Kind[r] = "fetch" /\ outcome[r] = "ok"
Issued(r) == Fetched(r) /\ id[r] # None

\* A one-time prekey is given to two peers only when their requests ran at
\* the same time (keys_server.go 74-77: the row lock is gone before the key is
\* marked) or when the UPDATE of the first failed; never to later requests.
IssuedTwiceNeedsRace ==
    \A r, q \in Requests :
        /\ r # q /\ Issued(r) /\ Issued(q)
        /\ at[r] = at[q] /\ id[r] = id[q]
        => q \in overlap[r] \/ unmarked \cap {r, q} # {}

\* A key_id that was used once is used for ever and never gets another key,
\* however often the device publishes the ids 1..20 again: what a peer was
\* given under an id stays what the server has under it.
UsedKeysStayUsed ==
    [][\A d \in Devices : \A i \in Ids :
          oneTime[d][i] # None =>
            /\ oneTime'[d][i] # None
            /\ oneTime'[d][i].from = oneTime[d][i].from
            /\ oneTime[d][i].used => oneTime'[d][i].used]_vars

\* A publish of one device puts its one-time keys under another device's row
\* (keys_server.go 44 asks for the user's newest) only if that row is newer.
StrayKeysGoToNewerDevices ==
    \A d \in Devices : \A i \in Ids :
        oneTime[d][i] # None =>
            LET e == DeviceOf[oneTime[d][i].from]
            IN \E m, n \in DOMAIN created :
                 created[m] = e /\ created[n] = d /\ m <= n
=============================================================================
