---------------------------- MODULE PreKeysProofs ---------------------------
(* Proofs about PreKeys, for any devices, requests, number of one-time     *)
(* keys and bound of faults.                                               *)
EXTENDS PreKeys, SequenceTheorems, WellFoundedInduction, TLAPS

Labels == {"new", "find", "insert", "take", "release", "mark", "done"}
Fetches == {"take", "release", "mark"}

\* Row e was created no later than row d.
NotOlder(e, d) ==
    \E m, n \in DOMAIN created : created[m] = e /\ created[n] = d /\ m <= n

\* Each kind of request keeps to its labels and works on a row there is.
Control(r) ==
    /\ pc[r] = "find" => Kind[r] = "publish" /\ DeviceOf[r] \in ToSet(created)
    /\ pc[r] = "insert" => /\ Kind[r] \in {"publish", "topup"}
                           /\ NotOlder(DeviceOf[r], at[r])
                           /\ id[r] \in Ids
    /\ pc[r] \in Fetches => Kind[r] = "fetch" /\ at[r] \in ToSet(created)
    /\ pc[r] \in {"new", "take"} => id[r] = None
    /\ pc[r] \in {"release", "mark"} => id[r] # None

ControlInv == \A r \in Requests : Control(r)

\* A fetch that took a key, whatever became of it
Holder(r) == Kind[r] = "fetch" /\ id[r] # None

\* It took one that is there, and has marked it when it is done, or failed to.
HolderInv ==
    \A r \in Requests : Holder(r) =>
        /\ at[r] \in Devices /\ id[r] \in Ids
        /\ pc[r] \in {"release", "mark", "done"}
        /\ oneTime[at[r]][id[r]] # None
        /\ pc[r] = "done" => r \in unmarked \/ oneTime[at[r]][id[r]].used

\* Fetches that run together know of each other.
MeetInv ==
    \A q, r \in Requests :
        q # r /\ pc[q] \in Fetches /\ pc[r] \in Fetches => q \in overlap[r]

\* IssuedTwiceNeedsRace, from the moment the key is taken
TakenTwiceNeedsRace ==
    \A r, q \in Requests :
        r # q /\ Holder(r) /\ Holder(q) /\ at[r] = at[q] /\ id[r] = id[q]
            => q \in overlap[r] \/ unmarked \cap {r, q} # {}

KeysInv ==
    /\ TypeOK /\ ControlInv /\ HolderInv /\ MeetInv
    /\ TakenTwiceNeedsRace /\ StrayKeysGoToNewerDevices

-----------------------------------------------------------------------------
(* Numbers and the order of rows                                           *)

LEMMA LeastNumber ==
    ASSUME NEW S \in SUBSET Nat, S # {}
    PROVE  \E x \in S : \A y \in S : x <= y
<1>1. PICK x \in S : \A y \in S : ~(<<y, x>> \in OpToRel(<, Nat))
  BY WFMin, NatLessThanWellFounded, Zenon
<1>2. ASSUME NEW y \in S PROVE ~(y < x)
  <2>1. y < x => <<y, x>> \in OpToRel(<, Nat)
    BY Zenon DEF OpToRel
  <2> QED BY <1>1, <2>1, Zenon
<1>3. \A y \in S : x <= y
  BY <1>2
<1> QED BY <1>3

LEMMA MinIsMember ==
    ASSUME NEW S \in SUBSET Nat, S # {}
    PROVE  Min(S) \in S
  BY LeastNumber DEF Min

LEMMA AppendRow ==
    ASSUME NEW s \in Seq(Devices), NEW d \in Devices
    PROVE  /\ Append(s, d) \in Seq(Devices)
           /\ DOMAIN Append(s, d) = DOMAIN s \cup {Len(s) + 1}
           /\ DOMAIN s = 1..Len(s) /\ Len(s) \in Nat
           /\ \A i \in DOMAIN s : Append(s, d)[i] = s[i]
           /\ Append(s, d)[Len(s) + 1] = d
           /\ ToSet(Append(s, d)) = ToSet(s) \cup {d}
           /\ IsInjective(s) /\ d \notin ToSet(s) => IsInjective(Append(s, d))
<1>1. /\ Append(s, d) \in Seq(Devices) /\ Len(Append(s, d)) = Len(s) + 1
      /\ \A i \in 1..Len(s) : Append(s, d)[i] = s[i]
      /\ Append(s, d)[Len(s) + 1] = d
  BY AppendProperties
<1>2. Len(s) \in Nat /\ DOMAIN s = 1..Len(s) /\ DOMAIN Append(s, d) = 1..(Len(s) + 1)
  BY <1>1, LenProperties
<1>3. DOMAIN Append(s, d) = DOMAIN s \cup {Len(s) + 1} /\ Len(s) + 1 \notin DOMAIN s
  BY <1>2
<1>4. \A i \in DOMAIN s : Append(s, d)[i] = s[i]
  BY <1>1, <1>2
<1>5. ToSet(Append(s, d)) = ToSet(s) \cup {d}
  BY <1>1, <1>3, <1>4 DEF ToSet
<1>6. IsInjective(s) /\ d \notin ToSet(s) => IsInjective(Append(s, d))
  BY <1>1, <1>3, <1>4 DEF ToSet, IsInjective
<1> QED BY <1>1, <1>2, <1>3, <1>4, <1>5, <1>6

LEMMA NewestRow ==
    ASSUME TypeOK, created # <<>>
    PROVE  /\ Last(created) \in Devices /\ Last(created) \in ToSet(created)
           /\ \A e \in ToSet(created) : NotOlder(e, Last(created))
<1>1. /\ created \in Seq(Devices) /\ DOMAIN created = 1..Len(created) /\ Len(created) \in Nat \ {0}
      /\ \A i \in DOMAIN created : created[i] \in Devices
  BY LenProperties, EmptySeq, ElementOfSeq DEF TypeOK
<1>2. Len(created) \in DOMAIN created /\ Last(created) = created[Len(created)]
  BY <1>1 DEF Last
<1>3. ASSUME NEW e \in ToSet(created) PROVE NotOlder(e, Last(created))
  <2>1. PICK m \in DOMAIN created : created[m] = e
    BY DEF ToSet
  <2>2. m <= Len(created)
    BY <1>1
  <2> QED BY <1>2, <2>1, <2>2 DEF NotOlder
<1> QED BY <1>1, <1>2, <1>3 DEF ToSet

LEMMA RowsTyped ==
    ASSUME TypeOK
    PROVE  /\ ToSet(created) \subseteq Devices
           /\ \A d \in ToSet(created) : NotOlder(d, d)
           /\ \A e, d : NotOlder(e, d) => e \in Devices /\ d \in Devices
<1>1. /\ DOMAIN created = 1..Len(created) /\ \A i \in DOMAIN created : created[i] \in Devices
      /\ DOMAIN created \subseteq Nat
  BY LenProperties, ElementOfSeq DEF TypeOK
<1> QED BY <1>1 DEF ToSet, NotOlder

LEMMA MoveType ==
    ASSUME TypeOK, NEW r \in Requests, NEW label \in Labels, Goto(r, label)
    PROVE  pc' \in [Requests -> Labels]
  BY DEF TypeOK, Labels, Goto

LEMMA ReturnType ==
    ASSUME TypeOK, NEW r \in Requests, NEW result \in {"ok", "error"}, Return(r, result)
    PROVE  /\ pc' \in [Requests -> Labels]
           /\ outcome' \in [Requests -> {"none", "ok", "error"}]
<1>1. Goto(r, "done") /\ outcome' = [outcome EXCEPT ![r] = result]
  BY DEF Return
<1>2. pc' \in [Requests -> Labels]
  BY <1>1, MoveType DEF Labels
<1> QED BY <1>1, <1>2 DEF TypeOK

LEMMA Initially == Init => KeysInv
<1> SUFFICES ASSUME Init PROVE KeysInv
  OBVIOUS
<1>1. created \in Seq(Devices) /\ DOMAIN created = {}
  BY DEF Init
<1>2. TypeOK
  BY <1>1, PreKeysAssumption DEF Init, TypeOK, ToSet, IsInjective
<1>3. ControlInv /\ HolderInv /\ MeetInv
  BY DEF Init, ControlInv, Control, HolderInv, MeetInv, Holder, Fetches
<1>4. TakenTwiceNeedsRace /\ StrayKeysGoToNewerDevices
  BY DEF Init, TakenTwiceNeedsRace, StrayKeysGoToNewerDevices, Holder
<1> QED BY <1>2, <1>3, <1>4 DEF KeysInv

-----------------------------------------------------------------------------
(* What the statements share                                               *)

\* No step takes a row or a key away, or gives a key to another request.
Grows ==
    /\ created' = created \/ \E d \in Devices : created' = Append(created, d)
    /\ \A d \in Devices : \A i \in Ids :
         oneTime[d][i] # None =>
             /\ oneTime'[d][i] # None
             /\ oneTime'[d][i].from = oneTime[d][i].from
             /\ oneTime[d][i].used => oneTime'[d][i].used

LEMMA OrderStays ==
    ASSUME TypeOK, Grows
    PROVE  /\ ToSet(created) \subseteq ToSet(created')
           /\ \A e, d : NotOlder(e, d) => NotOlder(e, d)'
<1>1. CASE created' = created
  BY <1>1 DEF NotOlder
<1>2. ASSUME NEW d \in Devices, created' = Append(created, d)
      PROVE  /\ ToSet(created) \subseteq ToSet(created')
             /\ \A e, c : NotOlder(e, c) => NotOlder(e, c)'
  BY <1>2, AppendRow DEF TypeOK, NotOlder
<1> QED BY <1>1, <1>2 DEF Grows

\* A step of r that takes no key.  What is asked of it: r keeps to its labels,
\* and if it holds a key it goes on with it and marks it, or fails to.
LEMMA NoKeyTaken ==
    ASSUME KeysInv, TypeOK', Grows, NEW r \in Requests, Control(r)',
           overlap' = overlap, unmarked \subseteq unmarked',
           \A s \in Requests : s # r => pc'[s] = pc[s] /\ at'[s] = at[s] /\ id'[s] = id[s],
           pc'[r] \in Fetches => pc[r] \in Fetches,
           Holder(r)' =>
               /\ Holder(r) /\ at'[r] = at[r] /\ id'[r] = id[r]
               /\ pc'[r] \in {"mark", "done"}
               /\ pc'[r] = "done" => r \in unmarked' \/ oneTime'[at[r]][id[r]].used
    PROVE  ControlInv' /\ HolderInv' /\ MeetInv' /\ TakenTwiceNeedsRace'
<1>t. TypeOK
  BY DEF KeysInv
<1>1. ControlInv'
  <2> SUFFICES ASSUME NEW s \in Requests, s # r PROVE Control(s)'
    BY DEF ControlInv
  <2>1. Control(s)
    BY DEF KeysInv, ControlInv
  <2> QED BY <1>t, <2>1, OrderStays DEF Control
<1>2. ASSUME NEW s \in Requests, Holder(s)'
      PROVE  /\ Holder(s) /\ at'[s] = at[s] /\ id'[s] = id[s]
             /\ at[s] \in Devices /\ id[s] \in Ids
             /\ oneTime[at[s]][id[s]] # None
  BY <1>2 DEF KeysInv, HolderInv, Holder
<1>3. HolderInv'
  <2> SUFFICES ASSUME NEW s \in Requests, Holder(s)'
               PROVE  /\ at'[s] \in Devices /\ id'[s] \in Ids
                      /\ pc'[s] \in {"release", "mark", "done"}
                      /\ oneTime'[at'[s]][id'[s]] # None
                      /\ pc'[s] = "done" => s \in unmarked' \/ oneTime'[at'[s]][id'[s]].used
    BY DEF HolderInv
  <2>1. CASE s = r
    BY <1>2, <2>1 DEF Grows
  <2>2. CASE s # r
    <3>1. /\ pc[s] \in {"release", "mark", "done"}
          /\ pc[s] = "done" => s \in unmarked \/ oneTime[at[s]][id[s]].used
      BY <1>2 DEF KeysInv, HolderInv
    <3> QED BY <1>2, <2>2, <3>1 DEF Grows
  <2> QED BY <2>1, <2>2
<1>4. MeetInv'
  BY DEF KeysInv, MeetInv
<1>5. TakenTwiceNeedsRace'
  BY <1>2 DEF KeysInv, TakenTwiceNeedsRace
<1> QED BY <1>1, <1>3, <1>4, <1>5

\* A step that puts no key under a row
LEMMA NoStrayKey ==
    ASSUME KeysInv, Grows, oneTime' = oneTime
    PROVE  StrayKeysGoToNewerDevices'
<1>1. \A d \in Devices : \A i \in Ids :
        oneTime[d][i] # None => NotOlder(DeviceOf[oneTime[d][i].from], d)
  BY DEF KeysInv, StrayKeysGoToNewerDevices, NotOlder
<1>2. \A d \in Devices : \A i \in Ids :
        oneTime[d][i] # None => NotOlder(DeviceOf[oneTime[d][i].from], d)'
  BY <1>1, OrderStays DEF KeysInv
<1> QED BY <1>2 DEF StrayKeysGoToNewerDevices, NotOlder

-----------------------------------------------------------------------------
(* The statements one by one                                               *)

LEMMA SaveDeviceKeysStep ==
    ASSUME KeysInv, NEW r \in Requests, SaveDeviceKeys(r)
    PROVE  KeysInv' /\ Grows
<1> DEFINE d == DeviceOf[r]
<1>t. TypeOK /\ d \in Devices
  BY PreKeysAssumption DEF KeysInv
<1>1. /\ pc[r] = "new" /\ Kind[r] = "publish" /\ id[r] = None
      /\ UNCHANGED <<oneTime, at, id, bundle, overlap, unmarked>>
      /\ \A s \in Requests : s # r => pc'[s] = pc[s]
  BY <1>t DEF SaveDeviceKeys, Begin, Return, Goto, TypeOK, KeysInv, ControlInv, Control
<1>2. \/ /\ created' = IF device[d] = None THEN Append(created, d) ELSE created
         /\ device' = [device EXCEPT ![d] = [identity |-> d, prekey |-> r]]
         /\ pc'[r] = "find"
      \/ /\ UNCHANGED <<created, device>>
         /\ pc'[r] = "done"
  BY <1>t DEF SaveDeviceKeys, Return, Goto, TypeOK
<1>3. /\ created' = created \/ (created' = Append(created, d) /\ d \notin ToSet(created))
      /\ pc'[r] = "find" => d \in ToSet(created')
  <2>1. device[d] = None <=> d \notin ToSet(created)
    BY <1>t DEF TypeOK
  <2>2. d \in ToSet(Append(created, d))
    BY <1>t, AppendRow DEF TypeOK
  <2> QED BY <1>2, <2>1, <2>2
<1>4. Grows
  BY <1>t, <1>1, <1>3 DEF Grows
<1>5. /\ created' \in Seq(Devices) /\ IsInjective(created')
      /\ device' \in [Devices -> Material \cup {None}]
      /\ \A e \in Devices : device'[e] # None <=> e \in ToSet(created')
  <2>1. [identity |-> d, prekey |-> r] \in Material
    BY <1>t DEF Material
  <2>2. [identity |-> d, prekey |-> r] # None
    BY <2>1, PreKeysAssumption
  <2>3. CASE UNCHANGED <<created, device>>
    BY <1>t, <2>3 DEF TypeOK
  <2>4. CASE device[d] = None /\ created' = Append(created, d) /\ d \notin ToSet(created)
             /\ device' = [device EXCEPT ![d] = [identity |-> d, prekey |-> r]]
    BY <1>t, <2>1, <2>2, <2>4, AppendRow DEF TypeOK
  <2>5. CASE device[d] # None /\ created' = created
             /\ device' = [device EXCEPT ![d] = [identity |-> d, prekey |-> r]]
    BY <1>t, <2>1, <2>2, <2>5 DEF TypeOK
  <2> QED BY <1>t, <1>2, <2>3, <2>4, <2>5 DEF TypeOK
<1>6. faults' \in 0..MaxFaults
  BY <1>t, PreKeysAssumption DEF SaveDeviceKeys, TypeOK, Fault, NoFault
<1>7. /\ pc' \in [Requests -> Labels]
      /\ outcome' \in [Requests -> {"none", "ok", "error"}]
  <2>1. (Goto(r, "find") /\ outcome' = outcome) \/ Return(r, "error")
    BY DEF SaveDeviceKeys
  <2> QED BY <1>t, <2>1, MoveType, ReturnType DEF TypeOK, Labels
<1>8. TypeOK'
  BY <1>t, <1>1, <1>5, <1>6, <1>7 DEF TypeOK, Labels
<1>9. Control(r)' /\ ~Holder(r)' /\ pc'[r] \notin Fetches
  BY <1>1, <1>2, <1>3 DEF Control, Holder, Fetches
<1> QED BY <1>1, <1>4, <1>8, <1>9, NoKeyTaken, NoStrayKey DEF KeysInv

LEMMA FindDeviceStep ==
    ASSUME KeysInv, NEW r \in Requests, FindDevice(r)
    PROVE  KeysInv' /\ Grows
<1>t. TypeOK /\ 1 \in Ids
  BY PreKeysAssumption DEF KeysInv, Ids
<1>1. /\ pc[r] = "find" /\ Kind[r] = "publish" /\ DeviceOf[r] \in ToSet(created)
      /\ UNCHANGED <<tables, bundle, overlap, unmarked>>
  BY DEF FindDevice, KeysInv, ControlInv, Control
<1>2. created # <<>>
  BY <1>1 DEF ToSet
<1>3. \/ /\ at' = [at EXCEPT ![r] = Last(created)] /\ id' = [id EXCEPT ![r] = 1]
         /\ Goto(r, "insert") /\ UNCHANGED outcome
      \/ Return(r, "ok") /\ UNCHANGED <<at, id>>
  BY DEF FindDevice
<1>4. TypeOK'
  <2>1. faults' \in 0..MaxFaults
    BY <1>t, PreKeysAssumption DEF FindDevice, TypeOK, Fault, NoFault
  <2>2. at' \in [Requests -> Devices \cup {None}] /\ id' \in [Requests -> Ids \cup {None}]
    <3>1. Last(created) \in Devices
      BY <1>t, <1>2, NewestRow
    <3>2. /\ at \in [Requests -> Devices \cup {None}]
          /\ id \in [Requests -> Ids \cup {None}]
      BY <1>t DEF TypeOK
    <3>3. CASE at' = [at EXCEPT ![r] = Last(created)] /\ id' = [id EXCEPT ![r] = 1]
      BY <1>t, <3>1, <3>2, <3>3
    <3>4. CASE UNCHANGED <<at, id>>
      BY <3>2, <3>4
    <3> QED BY <1>3, <3>3, <3>4
  <2>3. pc' \in [Requests -> Labels] /\ outcome' \in [Requests -> {"none", "ok", "error"}]
    BY <1>t, <1>3, MoveType, ReturnType DEF TypeOK, Labels
  <2> QED BY <1>t, <1>1, <2>1, <2>2, <2>3 DEF TypeOK, Labels, tables
<1>5. /\ \A s \in Requests : s # r => pc'[s] = pc[s] /\ at'[s] = at[s] /\ id'[s] = id[s]
      /\ \/ pc'[r] = "insert" /\ at'[r] = Last(created) /\ id'[r] = 1
         \/ pc'[r] = "done"
  BY <1>t, <1>3 DEF TypeOK, Goto, Return
<1>6. Control(r)' /\ ~Holder(r)' /\ pc'[r] \notin Fetches
  <2>1. NotOlder(DeviceOf[r], Last(created))
    BY <1>t, <1>1, <1>2, NewestRow
  <2>2. pc'[r] = "insert" => NotOlder(DeviceOf[r], at[r])'
    BY <1>1, <1>5, <2>1 DEF NotOlder, tables
  <2> QED BY <1>t, <1>1, <1>5, <2>2 DEF Control, Holder, Fetches
<1>7. Grows
  BY <1>1 DEF Grows, tables
<1> QED BY <1>1, <1>4, <1>5, <1>6, <1>7, NoKeyTaken, NoStrayKey DEF KeysInv, tables

LEMMA TopUpStep ==
    ASSUME KeysInv, NEW r \in Requests, TopUp(r)
    PROVE  KeysInv' /\ Grows
<1>t. TypeOK /\ 1 \in Ids /\ DeviceOf[r] \in Devices
  BY PreKeysAssumption DEF KeysInv, Ids
<1>1. /\ pc[r] = "new" /\ Kind[r] = "topup"
      /\ UNCHANGED <<tables, bundle, faults, overlap, unmarked>>
      /\ \/ /\ at' = [at EXCEPT ![r] = DeviceOf[r]] /\ id' = [id EXCEPT ![r] = 1]
            /\ Goto(r, "insert") /\ UNCHANGED outcome
            /\ DeviceOf[r] \in ToSet(created)
         \/ Return(r, "error") /\ UNCHANGED <<at, id>>
  BY DEF TopUp, Begin
<1>2. TypeOK'
  <2>1. at' \in [Requests -> Devices \cup {None}] /\ id' \in [Requests -> Ids \cup {None}]
    BY <1>t, <1>1 DEF TypeOK
  <2>2. pc' \in [Requests -> Labels] /\ outcome' \in [Requests -> {"none", "ok", "error"}]
    <3>1. \/ pc' = [pc EXCEPT ![r] = "insert"] /\ outcome' = outcome
          \/ pc' = [pc EXCEPT ![r] = "done"] /\ outcome' = [outcome EXCEPT ![r] = "error"]
      BY <1>1 DEF Goto, Return
    <3> QED BY <1>t, <3>1 DEF TypeOK, Labels
  <2> QED BY <1>t, <1>1, <2>1, <2>2 DEF TypeOK, Labels, tables
<1>3. /\ \A s \in Requests : s # r => pc'[s] = pc[s] /\ at'[s] = at[s] /\ id'[s] = id[s]
      /\ \/ pc'[r] = "insert" /\ at'[r] = DeviceOf[r] /\ id'[r] = 1
            /\ DeviceOf[r] \in ToSet(created)
         \/ pc'[r] = "done"
  BY <1>t, <1>1 DEF TypeOK, Goto, Return
<1>4. Control(r)' /\ ~Holder(r)' /\ pc'[r] \notin Fetches
  <2>1. pc'[r] = "insert" => NotOlder(DeviceOf[r], DeviceOf[r])
    BY <1>t, <1>3, RowsTyped
  <2>2. pc'[r] = "insert" => NotOlder(DeviceOf[r], at[r])'
    BY <1>1, <1>3, <2>1 DEF NotOlder, tables
  <2> QED BY <1>t, <1>1, <1>3, <2>2 DEF Control, Holder, Fetches
<1>5. Grows
  BY <1>1 DEF Grows, tables
<1> QED BY <1>1, <1>2, <1>3, <1>4, <1>5, NoKeyTaken, NoStrayKey DEF KeysInv, tables

LEMMA InsertKeyStep ==
    ASSUME KeysInv, NEW r \in Requests, InsertKey(r)
    PROVE  KeysInv' /\ Grows
<1>t. TypeOK
  BY DEF KeysInv
<1>1. /\ pc[r] = "insert" /\ Kind[r] \in {"publish", "topup"}
      /\ NotOlder(DeviceOf[r], at[r]) /\ id[r] \in Ids /\ at[r] \in Devices
      /\ UNCHANGED <<device, created, at, bundle, overlap, unmarked>>
  BY <1>t, RowsTyped DEF InsertKey, KeysInv, ControlInv, Control
<1>2. \/ /\ oneTime' = [oneTime EXCEPT ![at[r]][id[r]] = Inserted(r, at[r], id[r])]
         /\ \/ /\ id[r] < KeyCount /\ id' = [id EXCEPT ![r] = @ + 1]
               /\ UNCHANGED <<pc, outcome>>
            \/ Return(r, "ok") /\ UNCHANGED id
         /\ faults' = faults
      \/ /\ UNCHANGED <<oneTime, id>> /\ Fault
         /\ \E result \in {"ok", "error"} : Return(r, result)
  BY DEF InsertKey, NoFault
<1>3. Inserted(r, at[r], id[r]) \in Keys
  BY <1>t, <1>1, PreKeysAssumption DEF Inserted, Keys, TypeOK
<1>4. /\ oneTime' \in [Devices -> [Ids -> Keys \cup {None}]]
      /\ \A d \in Devices : \A i \in Ids :
           oneTime'[d][i] = IF oneTime' # oneTime /\ d = at[r] /\ i = id[r]
                              THEN Inserted(r, at[r], id[r]) ELSE oneTime[d][i]
  <2>1. CASE oneTime' = oneTime
    BY <1>t, <2>1 DEF TypeOK
  <2>2. CASE oneTime' = [oneTime EXCEPT ![at[r]][id[r]] = Inserted(r, at[r], id[r])]
    <3>1. \A d \in Devices : \A i \in Ids :
            oneTime'[d][i] = IF d = at[r] /\ i = id[r]
                               THEN Inserted(r, at[r], id[r]) ELSE oneTime[d][i]
      BY <1>t, <1>1, <2>2 DEF TypeOK
    <3>2. oneTime' \in [Devices -> [Ids -> Keys \cup {None}]]
      BY <1>t, <1>1, <1>3, <2>2 DEF TypeOK
    <3> QED BY <2>1, <3>1, <3>2
  <2> QED BY <1>2, <2>1, <2>2
<1>5. /\ id' \in [Requests -> Ids \cup {None}] /\ id'[r] \in Ids
      /\ \A s \in Requests : s # r => pc'[s] = pc[s] /\ at'[s] = at[s] /\ id'[s] = id[s]
      /\ pc'[r] \in {"insert", "done"}
      /\ pc' \in [Requests -> Labels]
      /\ outcome' \in [Requests -> {"none", "ok", "error"}]
      /\ faults' \in 0..MaxFaults
  <2>1. id[r] < KeyCount => id[r] + 1 \in Ids
    BY <1>1, PreKeysAssumption DEF Ids
  <2>2. faults' \in 0..MaxFaults
    BY <1>t, <1>2, PreKeysAssumption DEF Fault, TypeOK
  <2>3. /\ id' \in [Requests -> Ids \cup {None}] /\ id'[r] \in Ids
        /\ \A s \in Requests : s # r => id'[s] = id[s]
    BY <1>t, <1>1, <1>2, <2>1 DEF TypeOK
  <2>4. /\ pc'[r] \in {"insert", "done"} /\ \A s \in Requests : s # r => pc'[s] = pc[s]
        /\ pc' \in [Requests -> Labels] /\ outcome' \in [Requests -> {"none", "ok", "error"}]
    <3>1. pc' \in [Requests -> Labels] /\ outcome' \in [Requests -> {"none", "ok", "error"}]
      BY <1>t, <1>2, MoveType, ReturnType DEF TypeOK, Labels
    <3>2. /\ pc'[r] \in {"insert", "done"}
          /\ \A s \in Requests : s # r => pc'[s] = pc[s]
      BY <1>t, <1>1, <1>2 DEF TypeOK, Return, Goto
    <3> QED BY <3>1, <3>2
  <2> QED BY <1>1, <2>2, <2>3, <2>4 DEF Labels
<1>6. TypeOK'
  <2>1. UNCHANGED <<device, created, at, bundle, overlap, unmarked>>
    BY <1>1
  <2>2. /\ device \in [Devices -> Material \cup {None}] /\ created \in Seq(Devices)
        /\ IsInjective(created) /\ at \in [Requests -> Devices \cup {None}]
        /\ overlap \in [Requests -> SUBSET Requests] /\ unmarked \in SUBSET Requests
        /\ \A d \in Devices : device[d] # None <=> d \in ToSet(created)
    BY <1>t DEF TypeOK
  <2> QED BY <1>t, <1>4, <1>5, <2>1, <2>2 DEF TypeOK, Labels
<1>7. Grows
  <2>1. created' = created
    BY <1>1
  <2>2. ASSUME NEW d \in Devices, NEW i \in Ids, oneTime[d][i] # None
        PROVE  oneTime'[d][i] = oneTime[d][i]
    BY <1>4, <2>2 DEF Inserted
  <2> QED BY <2>1, <2>2 DEF Grows
<1>8. Control(r)' /\ ~Holder(r)' /\ pc'[r] \notin Fetches
  BY <1>1, <1>5 DEF Control, Holder, Fetches, NotOlder
<1>9. StrayKeysGoToNewerDevices'
  <2> SUFFICES ASSUME NEW d \in Devices, NEW i \in Ids, oneTime'[d][i] # None
               PROVE  NotOlder(DeviceOf[oneTime'[d][i].from], d)
    BY <1>1 DEF StrayKeysGoToNewerDevices, NotOlder
  <2>1. CASE oneTime[d][i] # None
    <3>1. NotOlder(DeviceOf[oneTime[d][i].from], d)
      BY <2>1 DEF KeysInv, StrayKeysGoToNewerDevices, NotOlder
    <3> QED BY <1>7, <2>1, <3>1 DEF Grows
  <2>2. CASE oneTime[d][i] = None
    <3>1. d = at[r] /\ i = id[r] /\ oneTime'[d][i] = [from |-> r, used |-> FALSE]
      BY <1>4, <2>2 DEF Inserted
    <3> QED BY <1>1, <3>1
  <2> QED BY <2>1, <2>2
<1> QED BY <1>1, <1>5, <1>6, <1>7, <1>8, <1>9, NoKeyTaken DEF KeysInv

LEMMA RotateStep ==
    ASSUME KeysInv, NEW r \in Requests, RotateSignedPreKey(r)
    PROVE  KeysInv' /\ Grows
<1> DEFINE d == DeviceOf[r]
<1>t. TypeOK /\ d \in Devices
  BY PreKeysAssumption DEF KeysInv
<1>1. /\ pc[r] = "new" /\ Kind[r] = "rotate"
      /\ UNCHANGED <<created, oneTime, at, id, bundle, overlap, unmarked>>
      /\ \E result \in {"ok", "error"} : Return(r, result)
      /\ \/ device' = device
         \/ device[d] # None /\ device' = [device EXCEPT ![d].prekey = r]
  BY DEF RotateSignedPreKey, Begin
<1>2. /\ device' \in [Devices -> Material \cup {None}]
      /\ \A e \in Devices : device'[e] # None <=> device[e] # None
  <2>1. CASE device[d] # None /\ device' = [device EXCEPT ![d].prekey = r]
    <3>1. device[d] \in Material
      BY <1>t, <2>1 DEF TypeOK
    <3>2. [device[d] EXCEPT !.prekey = r] \in Material
      BY <3>1 DEF Material
    <3>3. [device[d] EXCEPT !.prekey = r] # None
      BY <3>2, PreKeysAssumption
    <3> QED BY <1>t, <2>1, <3>2, <3>3 DEF TypeOK
  <2> QED BY <1>t, <1>1, <2>1 DEF TypeOK
<1>3. TypeOK'
  <2>1. faults' \in 0..MaxFaults
    BY <1>t, PreKeysAssumption DEF RotateSignedPreKey, TypeOK, Fault, NoFault
  <2> QED BY <1>t, <1>1, <1>2, <2>1 DEF TypeOK, Goto, Return
<1>4. pc'[r] = "done" /\ \A s \in Requests : s # r => pc'[s] = pc[s]
  BY <1>t, <1>1 DEF TypeOK, Goto, Return
<1>5. Control(r)' /\ ~Holder(r)' /\ pc'[r] \notin Fetches
  BY <1>1, <1>4 DEF Control, Holder, Fetches
<1>6. Grows
  BY <1>1 DEF Grows
<1> QED BY <1>1, <1>3, <1>4, <1>5, <1>6, NoKeyTaken, NoStrayKey DEF KeysInv

LEMMA ReadBundleStep ==
    ASSUME KeysInv, NEW r \in Requests, ReadBundle(r)
    PROVE  KeysInv' /\ Grows
<1> DEFINE others == {q \in Requests : Active(q) /\ Kind[q] = "fetch"}
<1>t. TypeOK
  BY DEF KeysInv
<1>1. /\ pc[r] = "new" /\ Kind[r] = "fetch" /\ id[r] = None
      /\ UNCHANGED <<tables, id, unmarked>>
      /\ \/ /\ created # <<>>
            /\ bundle' = [bundle EXCEPT ![r] = device[Last(created)]]
            /\ at' = [at EXCEPT ![r] = Last(created)]
            /\ pc' = [pc EXCEPT ![r] = "take"] /\ outcome' = outcome
         \/ /\ pc' = [pc EXCEPT ![r] = "done"] /\ outcome' = [outcome EXCEPT ![r] = "error"]
            /\ UNCHANGED <<bundle, at>>
  BY DEF ReadBundle, Begin, Goto, Return, KeysInv, ControlInv, Control
<1>2. /\ overlap' \in [Requests -> SUBSET Requests]
      /\ overlap'[r] = others
      /\ \A q \in Requests : q # r =>
           overlap[q] \subseteq overlap'[q] /\ (q \in others => r \in overlap'[q])
  <2>1. overlap' = [q \in Requests |-> CASE q = r -> others
                                        [] q \in others -> overlap[q] \cup {r}
                                        [] OTHER -> overlap[q]]
    BY DEF ReadBundle, Meet
  <2>2. others \subseteq Requests /\ r \notin others
    BY <1>1 DEF Active
  <2> HIDE DEF others
  <2>3. /\ overlap'[r] = others
        /\ \A q \in Requests \ {r} :
             overlap'[q] = IF q \in others THEN overlap[q] \cup {r} ELSE overlap[q]
    <3>1. overlap'[r] = others
      BY <2>1, <2>2
    <3>2. ASSUME NEW q \in Requests, q # r, q \in others
          PROVE  overlap'[q] = overlap[q] \cup {r}
      BY <2>1, <3>2
    <3>3. ASSUME NEW q \in Requests, q # r, q \notin others
          PROVE  overlap'[q] = overlap[q]
      BY <2>1, <3>3
    <3> QED BY <3>1, <3>2, <3>3
  <2>4. overlap' \in [Requests -> SUBSET Requests]
    <3>1. ASSUME NEW q \in Requests PROVE overlap'[q] \in SUBSET Requests
      <4>1. overlap[q] \subseteq Requests
        BY <1>t DEF TypeOK
      <4>2. CASE q = r
        BY <2>2, <2>3, <4>2
      <4>3. CASE q # r
        BY <2>3, <4>1, <4>3
      <4> QED BY <4>2, <4>3
    <3> QED BY <2>1, <3>1
  <2> QED BY <2>3, <2>4
<1>3. /\ at' \in [Requests -> Devices \cup {None}]
      /\ bundle' \in [Requests -> Material \cup {None}]
      /\ pc' \in [Requests -> Labels] /\ outcome' \in [Requests -> {"none", "ok", "error"}]
      /\ \A s \in Requests : s # r => pc'[s] = pc[s] /\ at'[s] = at[s]
      /\ \/ pc'[r] = "take" /\ at'[r] \in ToSet(created)
         \/ pc'[r] = "done"
  <2>1. created # <<>> => Last(created) \in Devices /\ Last(created) \in ToSet(created)
    BY <1>t, NewestRow
  <2>2. created # <<>> => device[Last(created)] \in Material \cup {None}
    BY <1>t, <2>1 DEF TypeOK
  <2>3. CASE /\ created # <<>>
             /\ bundle' = [bundle EXCEPT ![r] = device[Last(created)]]
             /\ at' = [at EXCEPT ![r] = Last(created)]
             /\ pc' = [pc EXCEPT ![r] = "take"] /\ outcome' = outcome
    <3> DEFINE row == device[Last(created)]
    <3>1. row \in Material \cup {None}
      BY <2>2, <2>3
    <3>2. bundle' = [bundle EXCEPT ![r] = row]
      BY <2>3
    <3> HIDE DEF row
    <3> QED BY <1>t, <2>1, <2>3, <3>1, <3>2 DEF TypeOK, Labels
  <2>4. CASE /\ pc' = [pc EXCEPT ![r] = "done"] /\ outcome' = [outcome EXCEPT ![r] = "error"]
             /\ UNCHANGED <<bundle, at>>
    BY <1>t, <2>4 DEF TypeOK, Labels
  <2> QED BY <1>1, <2>3, <2>4
<1>4. faults' \in 0..MaxFaults
  BY <1>t, PreKeysAssumption DEF ReadBundle, TypeOK, Fault, NoFault
<1>5. TypeOK'
  BY <1>t, <1>1, <1>2, <1>3, <1>4 DEF TypeOK, Labels, tables
<1>6. Grows
  BY <1>1 DEF Grows, tables
<1>7. Control(r)' /\ ~Holder(r)' /\ ~Holder(r)
  BY <1>1, <1>3 DEF Control, Holder, Fetches, tables
<1>8. ASSUME NEW s \in Requests, s # r
      PROVE  /\ Control(s)' /\ (Holder(s)' <=> Holder(s))
             /\ pc'[s] = pc[s] /\ at'[s] = at[s] /\ id'[s] = id[s]
  <2>1. Control(s)
    BY DEF KeysInv, ControlInv
  <2> QED BY <1>1, <1>3, <1>8, <2>1 DEF Control, Holder, NotOlder, tables
<1>9. ControlInv' /\ HolderInv'
  BY <1>1, <1>7, <1>8 DEF KeysInv, ControlInv, HolderInv, tables
<1>10. MeetInv'
  <2> SUFFICES ASSUME NEW q \in Requests, NEW s \in Requests, q # s,
                      pc'[q] \in Fetches, pc'[s] \in Fetches
               PROVE  q \in overlap'[s]
    BY DEF MeetInv
  <2>1. ASSUME NEW p \in Requests, p # r, pc'[p] \in Fetches PROVE p \in others
    BY <1>8, <2>1 DEF KeysInv, ControlInv, Control, Fetches, Active
  <2>2. CASE q # r /\ s # r
    BY <1>2, <1>8, <2>2 DEF KeysInv, MeetInv
  <2> QED BY <1>2, <2>1, <2>2
<1>11. TakenTwiceNeedsRace'
  BY <1>1, <1>2, <1>7, <1>8 DEF KeysInv, TakenTwiceNeedsRace
<1>12. StrayKeysGoToNewerDevices'
  BY <1>1, <1>6, NoStrayKey DEF tables
<1> QED BY <1>5, <1>6, <1>9, <1>10, <1>11, <1>12 DEF KeysInv

LEMMA AvailableKey ==
    ASSUME TypeOK, NEW d \in Devices, Available(d) # {}
    PROVE  /\ Min(Available(d)) \in Ids
           /\ oneTime[d][Min(Available(d))] # None
           /\ ~oneTime[d][Min(Available(d))].used
<1>1. Available(d) \in SUBSET Nat
  BY DEF Available, Ids
<1>2. Min(Available(d)) \in Available(d)
  BY <1>1, MinIsMember
<1> QED BY <1>2 DEF Available

LEMMA TakeKeyStep ==
    ASSUME KeysInv, NEW r \in Requests, TakeKey(r)
    PROVE  KeysInv' /\ Grows
<1>t. TypeOK
  BY DEF KeysInv
<1>1. /\ pc[r] = "take" /\ Kind[r] = "fetch" /\ id[r] = None
      /\ at[r] \in ToSet(created) /\ at[r] \in Devices
      /\ UNCHANGED <<tables, at, bundle, overlap, unmarked>>
  BY <1>t, RowsTyped DEF TakeKey, KeysInv, ControlInv, Control, Fetches
<1>2. Grows
  BY <1>1 DEF Grows, tables
<1>3. faults' \in 0..MaxFaults
  BY <1>t, PreKeysAssumption DEF TakeKey, TypeOK, Fault, NoFault
<1>4. CASE Return(r, "ok") /\ UNCHANGED id
  <2>1. /\ pc' \in [Requests -> Labels] /\ outcome' \in [Requests -> {"none", "ok", "error"}]
        /\ pc'[r] = "done" /\ \A s \in Requests : s # r => pc'[s] = pc[s]
    BY <1>t, <1>4 DEF TypeOK, Labels, Goto, Return
  <2>2. TypeOK'
    BY <1>t, <1>1, <1>3, <1>4, <2>1 DEF TypeOK, Labels, tables
  <2>3. Control(r)' /\ ~Holder(r)' /\ pc'[r] \notin Fetches
    BY <1>1, <1>4, <2>1 DEF Control, Holder, Fetches
  <2> QED BY <1>1, <1>2, <1>4, <2>1, <2>2, <2>3, NoKeyTaken, NoStrayKey DEF KeysInv, tables
<1>5. CASE /\ Available(at[r]) # {} /\ Goto(r, "release") /\ UNCHANGED outcome
           /\ id' = [id EXCEPT ![r] = Min(Available(at[r]))]
  <2> DEFINE i == Min(Available(at[r]))
  <2>1. i \in Ids /\ oneTime[at[r]][i] # None /\ ~oneTime[at[r]][i].used
    BY <1>t, <1>1, <1>5, AvailableKey
  <2>2. /\ pc' \in [Requests -> Labels] /\ id' \in [Requests -> Ids \cup {None}]
        /\ pc'[r] = "release" /\ id'[r] = i
        /\ \A s \in Requests : s # r => pc'[s] = pc[s] /\ id'[s] = id[s]
    BY <1>t, <1>5, <2>1 DEF TypeOK, Labels, Goto
  <2> HIDE DEF i
  <2>3. TypeOK'
    BY <1>t, <1>1, <1>3, <1>5, <2>2 DEF TypeOK, Labels, tables
  <2>4. Control(r)'
    BY <1>1, <2>1, <2>2, PreKeysAssumption DEF Control, Fetches, tables
  <2>5. \A s \in Requests : s # r => (Control(s)' <=> Control(s)) /\ (Holder(s)' <=> Holder(s))
    BY <1>1, <2>2 DEF Control, Holder, NotOlder, tables
  <2>6. ControlInv'
    BY <2>4, <2>5 DEF KeysInv, ControlInv
  <2>7. HolderInv'
    BY <1>1, <2>1, <2>2, <2>5 DEF KeysInv, HolderInv, tables
  <2>8. MeetInv'
    BY <1>1, <2>2 DEF KeysInv, MeetInv, Fetches
  <2>9. ASSUME NEW q \in Requests, q # r, Holder(q), at[q] = at[r], id[q] = i
        PROVE  q \in unmarked \/ (q \in overlap[r] /\ r \in overlap[q])
    <3>1. CASE pc[q] = "done"
      BY <2>1, <2>9, <3>1 DEF KeysInv, HolderInv
    <3>2. CASE pc[q] \in {"release", "mark"}
      BY <1>1, <2>9, <3>2 DEF KeysInv, MeetInv, Fetches
    <3> QED BY <2>9, <3>1, <3>2 DEF KeysInv, HolderInv
  <2>10. TakenTwiceNeedsRace'
    <3> SUFFICES ASSUME NEW p \in Requests, NEW q \in Requests, p # q, Holder(p)', Holder(q)',
                        at[p] = at[q], id'[p] = id'[q]
                 PROVE  q \in overlap[p] \/ unmarked \cap {p, q} # {}
      BY <1>1 DEF TakenTwiceNeedsRace
    <3>1. CASE p # r /\ q # r
      BY <2>2, <2>5, <3>1 DEF KeysInv, TakenTwiceNeedsRace
    <3>2. CASE p = r
      BY <2>2, <2>5, <2>9, <3>2
    <3>3. CASE q = r
      BY <2>2, <2>5, <2>9, <3>3
    <3> QED BY <3>1, <3>2, <3>3
  <2>11. StrayKeysGoToNewerDevices'
    BY <1>1, <1>2, NoStrayKey DEF tables
  <2> QED BY <1>2, <2>3, <2>6, <2>7, <2>8, <2>10, <2>11 DEF KeysInv
<1> QED BY <1>4, <1>5 DEF TakeKey

LEMMA ReleaseKeyStep ==
    ASSUME KeysInv, NEW r \in Requests, ReleaseKey(r)
    PROVE  KeysInv' /\ Grows
<1>t. TypeOK
  BY DEF KeysInv
<1>1. /\ pc[r] = "release" /\ pc' = [pc EXCEPT ![r] = "mark"]
      /\ UNCHANGED <<tables, at, id, bundle, outcome, faults, overlap, unmarked>>
  BY DEF ReleaseKey, Goto
<1>2. /\ pc' \in [Requests -> Labels] /\ pc'[r] = "mark"
      /\ \A s \in Requests : s # r => pc'[s] = pc[s]
  BY <1>t, <1>1 DEF TypeOK, Labels
<1>3. TypeOK'
  BY <1>t, <1>1, <1>2 DEF TypeOK, Labels, tables
<1>4. Control(r)' /\ (Holder(r)' <=> Holder(r)) /\ pc[r] \in Fetches
  BY <1>1, <1>2 DEF KeysInv, ControlInv, Control, Holder, Fetches, tables
<1>5. Grows
  BY <1>1 DEF Grows, tables
<1> QED BY <1>1, <1>2, <1>3, <1>4, <1>5, NoKeyTaken, NoStrayKey DEF KeysInv, tables

LEMMA MarkUsedStep ==
    ASSUME KeysInv, NEW r \in Requests, MarkUsed(r)
    PROVE  KeysInv' /\ Grows
<1>t. TypeOK
  BY DEF KeysInv
<1>1. /\ pc[r] = "mark" /\ Kind[r] = "fetch" /\ at[r] \in ToSet(created) /\ at[r] \in Devices
      /\ UNCHANGED <<device, created, at, id, bundle, overlap>>
      /\ pc' = [pc EXCEPT ![r] = "done"] /\ outcome' = [outcome EXCEPT ![r] = "ok"]
  BY <1>t, RowsTyped DEF MarkUsed, Goto, Return, KeysInv, ControlInv, Control, Fetches
<1>2. /\ pc' \in [Requests -> Labels] /\ outcome' \in [Requests -> {"none", "ok", "error"}]
      /\ pc'[r] = "done" /\ \A s \in Requests : s # r => pc'[s] = pc[s]
  BY <1>t, <1>1 DEF TypeOK, Labels
<1>3. faults' \in 0..MaxFaults /\ unmarked' \in SUBSET Requests /\ unmarked \subseteq unmarked'
  BY <1>t, PreKeysAssumption DEF MarkUsed, TypeOK, Fault, NoFault
<1>4. Control(r)' /\ (Holder(r)' <=> Holder(r))
  BY <1>1, <1>2 DEF Control, Holder, Fetches
<1>5. CASE r \in unmarked' /\ oneTime' = oneTime
  <2>1. TypeOK'
    BY <1>t, <1>1, <1>2, <1>3, <1>5 DEF TypeOK, Labels
  <2>2. Grows
    BY <1>1, <1>5 DEF Grows
  <2> QED BY <1>1, <1>2, <1>3, <1>4, <1>5, <2>1, <2>2, NoKeyTaken, NoStrayKey
          DEF KeysInv, Fetches
<1>6. CASE oneTime' = [oneTime EXCEPT ![at[r]][id[r]].used = TRUE]
  <2> DEFINE key == oneTime[at[r]][id[r]]
  <2>1. id[r] \in Ids /\ key # None
    BY <1>1 DEF KeysInv, HolderInv, ControlInv, Control, Holder
  <2>2. key \in Keys
    BY <1>t, <1>1, <2>1 DEF TypeOK
  <2>3. /\ [key EXCEPT !.used = TRUE] \in Keys
        /\ [key EXCEPT !.used = TRUE].used /\ [key EXCEPT !.used = TRUE].from = key.from
    BY <2>2 DEF Keys
  <2>4. /\ oneTime' \in [Devices -> [Ids -> Keys \cup {None}]]
        /\ \A d \in Devices : \A i \in Ids :
             oneTime'[d][i] = IF d = at[r] /\ i = id[r] THEN [key EXCEPT !.used = TRUE]
                              ELSE oneTime[d][i]
    <3>1. oneTime' = [oneTime EXCEPT ![at[r]] =
                        [oneTime[at[r]] EXCEPT ![id[r]] = [key EXCEPT !.used = TRUE]]]
      BY <1>6
    <3> HIDE DEF key
    <3> QED BY <1>t, <1>1, <2>1, <2>3, <3>1 DEF TypeOK
  <2>5. [key EXCEPT !.used = TRUE] # None
    BY <2>3, PreKeysAssumption
  <2> HIDE DEF key
  <2>6. TypeOK'
    BY <1>t, <1>1, <1>2, <1>3, <2>4 DEF TypeOK, Labels
  <2>7. Grows
    <3>1. created' = created
      BY <1>1
    <3>2. ASSUME NEW d \in Devices, NEW i \in Ids, oneTime[d][i] # None
          PROVE  /\ oneTime'[d][i] # None
                 /\ oneTime'[d][i].from = oneTime[d][i].from
                 /\ oneTime[d][i].used => oneTime'[d][i].used
      <4>1. CASE d = at[r] /\ i = id[r]
        <5>1. oneTime'[d][i] = [key EXCEPT !.used = TRUE] /\ oneTime[d][i] = key
          BY <2>4, <4>1 DEF key
        <5> QED BY <2>3, <2>5, <5>1
      <4>2. CASE ~(d = at[r] /\ i = id[r])
        BY <2>4, <3>2, <4>2
      <4> QED BY <4>1, <4>2
    <3> QED BY <3>1, <3>2 DEF Grows
  <2>8. oneTime'[at[r]][id[r]].used
    BY <1>1, <2>1, <2>3, <2>4
  <2>9. ControlInv' /\ HolderInv' /\ MeetInv' /\ TakenTwiceNeedsRace'
    BY <1>1, <1>2, <1>3, <1>4, <2>6, <2>7, <2>8, NoKeyTaken DEF KeysInv, Fetches
  <2>10. StrayKeysGoToNewerDevices'
    <3>1. ASSUME NEW d \in Devices, NEW i \in Ids, oneTime'[d][i] # None
          PROVE  oneTime[d][i] # None /\ oneTime'[d][i].from = oneTime[d][i].from
      <4>1. CASE d = at[r] /\ i = id[r]
        <5>1. oneTime'[d][i].from = key.from
          BY <1>1, <2>1, <2>3, <2>4, <4>1
        <5> QED BY <2>1, <4>1, <5>1 DEF key
      <4>2. CASE ~(d = at[r] /\ i = id[r])
        <5>1. oneTime'[d][i] = oneTime[d][i]
          BY <2>4, <4>2
        <5> QED BY <3>1, <5>1
      <4> QED BY <4>1, <4>2
    <3> QED BY <1>1, <3>1 DEF KeysInv, StrayKeysGoToNewerDevices
  <2> QED BY <2>6, <2>7, <2>9, <2>10 DEF KeysInv
<1> QED BY <1>5, <1>6 DEF MarkUsed

-----------------------------------------------------------------------------
(* The theorems                                                            *)

LEMMA KeysNext ==
    ASSUME KeysInv, [Next]_vars
    PROVE  KeysInv' /\ Grows
<1>1. ASSUME NEW r \in Requests, Handler(r) PROVE KeysInv' /\ Grows
  BY <1>1, SaveDeviceKeysStep, FindDeviceStep, TopUpStep, InsertKeyStep, RotateStep,
     ReadBundleStep, TakeKeyStep, ReleaseKeyStep, MarkUsedStep DEF Handler
<1>2. CASE UNCHANGED vars
  <2>1. UNCHANGED tables /\ UNCHANGED local /\ UNCHANGED <<faults, overlap, unmarked>>
    BY <1>2 DEF vars
  <2>2. KeysInv'
    BY <2>1 DEF tables, local, KeysInv, TypeOK, ControlInv, Control, NotOlder, HolderInv,
       Holder, MeetInv, TakenTwiceNeedsRace, StrayKeysGoToNewerDevices
  <2> QED BY <2>1, <2>2 DEF tables, Grows
<1> QED BY <1>1, <1>2 DEF Next, Idle

LEMMA KeysInvariant == Spec => []KeysInv
<1>1. KeysInv /\ [Next]_vars => KeysInv'
  BY KeysNext
<1> QED BY Initially, <1>1, PTL DEF Spec

\* The variables keep their types: above all a device has one row, and no
\* statement makes a second (keys_repository.go 34-40: ON CONFLICT).
THEOREM TypeCorrect == Spec => []TypeOK
<1>1. KeysInv => TypeOK
  BY DEF KeysInv
<1> QED BY KeysInvariant, <1>1, PTL

\* A one-time prekey goes to two peers only when their requests overlapped,
\* or when the first could not mark it used (keys_server.go 74-77).
THEOREM IssuedOnce == Spec => []IssuedTwiceNeedsRace
<1>1. KeysInv => IssuedTwiceNeedsRace
  BY DEF KeysInv, TakenTwiceNeedsRace, Holder, IssuedTwiceNeedsRace, Issued, Fetched
<1> QED BY KeysInvariant, <1>1, PTL

\* One-time keys that went under another device's row went under a newer
\* one (keys_server.go 44).
THEOREM StrayKeys == Spec => []StrayKeysGoToNewerDevices
<1>1. KeysInv => StrayKeysGoToNewerDevices
  BY DEF KeysInv
<1> QED BY KeysInvariant, <1>1, PTL

\* A key_id keeps the key it first got, and a used one stays used, whatever
\* is published again (keys_repository.go 134-135: DO NOTHING).
THEOREM UsedStaysUsed == Spec => UsedKeysStayUsed
<1>1. KeysInv /\ [Next]_vars =>
        [\A d \in Devices : \A i \in Ids :
           oneTime[d][i] # None =>
             /\ oneTime'[d][i] # None
             /\ oneTime'[d][i].from = oneTime[d][i].from
             /\ oneTime[d][i].used => oneTime'[d][i].used]_vars
  BY KeysNext DEF Grows
<1> QED BY KeysInvariant, <1>1, PTL DEF Spec, UsedKeysStayUsed
=============================================================================
