------------------------- MODULE AuthSessionsProofs -------------------------
(* Proofs about AuthSessions, for any requests, passwords and bound of     *)
(* faults: what the refresh_tokens rows of an account have to do with the  *)
(* handlers that ran, are running and ran at the same time.                *)
EXTENDS AuthSessions, TLAPS

\* The labels of each kind of handler
Path(kind) ==
    CASE kind = "login" -> {"read", "purge", "save", "reread"}
      [] kind = "change" -> {"read", "update", "purge"}
      [] kind = "logout" -> {"find", "purge"}
      [] kind = "refresh" -> {"find", "consume"}
      [] kind = "delete" -> {"purge", "drop"}

ControlInv ==
    \A r \in Requests :
        /\ pc[r] \in Path(Kind[r]) \cup {"new", "done"}
        /\ outcome[r] # "none" <=> pc[r] = "done"

\* Handlers that run together know of each other.
OverlapInv ==
    \A q, r \in Requests :
        q # r /\ Active(q) /\ Active(r) => <<q, r>> \in overlap

\* A token is saved by a login that goes on to its answer and saves no more.
SavedInv == \A t \in tokens : pc[t] \in {"reread", "done"}

\* A token is shown by those who got it in the answer to its login.
ShownInv ==
    \A r \in Requests :
        Kind[r] \in {"logout", "refresh"} /\ pc[r] # "new" => pc[Presents[r]] = "done"

\* A login that is about to save has deleted all tokens but those of logins
\* that ran meanwhile.
SessionInv ==
    \A l \in Logins :
        pc[l] = "save" => l \in unpurged \/ \A s \in tokens : <<s, l>> \in overlap

\* A login that checked the password has the one in force, unless a change ran
\* meanwhile.
PasswordInv ==
    \A l \in Logins :
        pc[l] \in {"purge", "save"} =>
            \/ Password[l] = hash
            \/ \E c \in Requests : Kind[c] = "change" /\ <<l, c>> \in overlap

\* A refresh that deleted its token leaves none to those that find it later.
SpentInv ==
    \A q \in Requests :
        Kind[q] = "refresh" /\ outcome[q] = "ok" /\ q \notin unpurged =>
            /\ Presents[q] \notin tokens
            /\ \A r \in Requests :
                 pc[r] = "consume" /\ Presents[r] = Presents[q] => <<q, r>> \in overlap

SymmetryInv == \A q, r \in Requests : <<q, r>> \in overlap => <<r, q>> \in overlap

AuthInv ==
    /\ TypeOK /\ ControlInv /\ OverlapInv /\ SymmetryInv /\ SavedInv /\ ShownInv
    /\ SessionInv /\ PasswordInv /\ SpentInv
    /\ SecondSessionNeedsRace /\ OldPasswordNeedsRace /\ RedeemedTwiceNeedsRace
    /\ LoggedOutStaysOut

-----------------------------------------------------------------------------
(* Steps of a handler after its first                                      *)

Moves(r) ==
    /\ Active(r)
    /\ \/ \E label \in Path(Kind[r]) : Goto(r, label)
       \/ \E result \in {"ok", "error"} : Return(r, result)
    /\ UNCHANGED overlap

LEMMA Paths ==
    ASSUME AuthInv, NEW r \in Requests, Active(r)
    PROVE  /\ \/ pc[r] \in {"read", "purge", "save", "reread"} /\ Kind[r] = "login"
              \/ pc[r] \in {"read", "update", "purge"} /\ Kind[r] = "change"
              \/ pc[r] \in {"find", "purge"} /\ Kind[r] = "logout"
              \/ pc[r] \in {"find", "consume"} /\ Kind[r] = "refresh"
              \/ pc[r] \in {"purge", "drop"} /\ Kind[r] = "delete"
           /\ Path(Kind[r]) \subseteq Labels \ {"new", "done"}
<1>1. Kind[r] \in Kinds /\ pc[r] \in Path(Kind[r])
  BY AuthAssumption DEF AuthInv, ControlInv, Active
<1>2. CASE Kind[r] = "login"
  BY <1>1, <1>2 DEF Path, Labels
<1>3. CASE Kind[r] = "change"
  BY <1>1, <1>3 DEF Path, Labels
<1>4. CASE Kind[r] = "logout"
  BY <1>1, <1>4 DEF Path, Labels
<1>5. CASE Kind[r] = "refresh"
  BY <1>1, <1>5 DEF Path, Labels
<1>6. CASE Kind[r] = "delete"
  BY <1>1, <1>6 DEF Path, Labels
<1> QED BY <1>1, <1>2, <1>3, <1>4, <1>5, <1>6 DEF Kinds

\* What a step of a handler leaves and where it can lead
LEMMA MoveFacts ==
    ASSUME AuthInv, NEW r \in Requests, Moves(r)
    PROVE  /\ pc[r] \notin {"new", "done"} /\ pc'[r] # "new" /\ outcome[r] = "none"
           /\ pc'[r] \in Labels /\ pc' = [pc EXCEPT ![r] = pc'[r]]
           /\ outcome' = [outcome EXCEPT ![r] = outcome'[r]]
           /\ pc' \in [Requests -> Labels]
           /\ outcome' \in [Requests -> {"none", "ok", "error"}]
           /\ \A s \in Requests : s # r => pc'[s] = pc[s] /\ outcome'[s] = outcome[s]
           /\ ControlInv' /\ OverlapInv' /\ SymmetryInv' /\ ShownInv'
<1>t. /\ pc \in [Requests -> Labels] /\ outcome \in [Requests -> {"none", "ok", "error"}]
      /\ ControlInv
  BY DEF AuthInv, TypeOK
<1>1. /\ pc[r] \notin {"new", "done"} /\ outcome[r] = "none"
      /\ Path(Kind[r]) \subseteq Labels \ {"new", "done"}
  BY <1>t, Paths DEF Moves, Active, ControlInv
<1>2. PICK label \in Labels, result \in {"none", "ok", "error"} :
        /\ pc' = [pc EXCEPT ![r] = label] /\ outcome' = [outcome EXCEPT ![r] = result]
        /\ \/ label \in Path(Kind[r]) /\ result = "none"
           \/ label = "done" /\ result # "none"
  <2>1. CASE \E label \in Path(Kind[r]) : Goto(r, label)
    <3>1. outcome = [outcome EXCEPT ![r] = "none"]
      BY <1>t, <1>1
    <3>2. PICK label \in Path(Kind[r]) : pc' = [pc EXCEPT ![r] = label] /\ outcome' = outcome
      BY <2>1 DEF Goto
    <3> QED BY <1>1, <3>1, <3>2
  <2>2. CASE \E result \in {"ok", "error"} : Return(r, result)
    BY <2>2 DEF Return, Labels
  <2> QED BY <2>1, <2>2 DEF Moves
<1>3. /\ pc'[r] = label /\ outcome'[r] = result /\ label # "new"
      /\ \A s \in Requests : s # r => pc'[s] = pc[s] /\ outcome'[s] = outcome[s]
  BY <1>t, <1>1, <1>2
<1>4. ControlInv'
  BY <1>t, <1>1, <1>2, <1>3 DEF ControlInv
<1>5. OverlapInv' /\ SymmetryInv'
  BY <1>1, <1>3 DEF AuthInv, OverlapInv, SymmetryInv, Active, Moves
<1>6. ShownInv'
  BY <1>1, <1>3, AuthAssumption DEF AuthInv, ShownInv
<1> QED BY <1>t, <1>1, <1>2, <1>3, <1>4, <1>5, <1>6

LEMMA Initially == Init => AuthInv
<1> SUFFICES ASSUME Init PROVE AuthInv
  OBVIOUS
<1>1. TypeOK
  BY AuthAssumption DEF Init, TypeOK, Labels, Logins
<1>2. ControlInv /\ OverlapInv /\ SymmetryInv /\ SavedInv /\ ShownInv
  BY DEF Init, ControlInv, OverlapInv, SymmetryInv, SavedInv, ShownInv, Active
<1>3. SessionInv /\ PasswordInv /\ SpentInv
  BY DEF Init, SessionInv, PasswordInv, SpentInv, Logins
<1>4. SecondSessionNeedsRace /\ OldPasswordNeedsRace /\ RedeemedTwiceNeedsRace
      /\ LoggedOutStaysOut
  BY DEF Init, SecondSessionNeedsRace, OldPasswordNeedsRace, RedeemedTwiceNeedsRace,
         LoggedOutStaysOut
<1> QED BY <1>1, <1>2, <1>3, <1>4 DEF AuthInv

-----------------------------------------------------------------------------
(* What the handlers share                                                 *)

\* A step that saves no token and leaves the password alone.  What is asked of
\* it: who leaves the DELETE of all tokens has deleted them or failed; a login
\* comes to it with the password in force; a refresh finds its token before it
\* deletes it; and who is answered well has done what it promises.
LEMMA NothingSaved ==
    ASSUME AuthInv, NEW r \in Requests, Moves(r), TypeOK',
           tokens' \subseteq tokens, hash' = hash, expired' = expired,
           unpurged \subseteq unpurged',
           pc[r] = "purge" => tokens' = {} \/ r \in unpurged',
           pc'[r] = "save" => pc[r] = "purge",
           pc[r] = "reread" => pc'[r] = "done",
           pc'[r] = "purge" /\ Kind[r] = "login" => Password[r] = hash,
           pc'[r] = "consume" => Presents[r] \in tokens,
           Kind[r] = "refresh" /\ outcome'[r] = "ok" =>
               pc[r] = "consume" /\ (Presents[r] \notin tokens' \/ r \in unpurged'),
           Kind[r] = "logout" /\ outcome'[r] = "ok" =>
               ~Usable(Presents[r])' \/ r \in unpurged'
    PROVE  AuthInv'
<1>m. /\ pc[r] \notin {"new", "done"} /\ pc'[r] # "new" /\ outcome[r] = "none"
      /\ \A s \in Requests : s # r => pc'[s] = pc[s] /\ outcome'[s] = outcome[s]
      /\ ControlInv' /\ OverlapInv' /\ SymmetryInv' /\ ShownInv'
      /\ overlap' = overlap
  BY MoveFacts DEF Moves
<1>t. tokens \subseteq Logins /\ Logins \subseteq Requests
  BY DEF AuthInv, TypeOK, Logins
<1>1. SavedInv'
  <2> SUFFICES ASSUME NEW t \in tokens' PROVE pc'[t] \in {"reread", "done"}
    BY DEF SavedInv
  <2>1. CASE t # r
    BY <1>m, <1>t, <2>1 DEF AuthInv, SavedInv
  <2>2. CASE t = r
    BY <1>m, <1>t, <2>2 DEF AuthInv, SavedInv
  <2> QED BY <2>1, <2>2
<1>2. SessionInv'
  <2> SUFFICES ASSUME NEW l \in Logins, pc'[l] = "save", l \notin unpurged', NEW s \in tokens'
               PROVE  <<s, l>> \in overlap
    BY <1>m DEF SessionInv
  <2>1. l # r /\ pc[l] = "save"
    BY <1>m, <1>t
  <2> QED BY <1>t, <2>1 DEF AuthInv, SessionInv
<1>3. PasswordInv'
  <2> SUFFICES ASSUME NEW l \in Logins, pc'[l] \in {"purge", "save"}
               PROVE  \/ Password[l] = hash
                      \/ \E c \in Requests : Kind[c] = "change" /\ <<l, c>> \in overlap
    BY <1>m DEF PasswordInv
  <2>1. CASE pc[l] \in {"purge", "save"}
    BY <2>1 DEF AuthInv, PasswordInv
  <2>2. CASE pc[l] \notin {"purge", "save"}
    BY <1>m, <1>t, <2>2 DEF Logins
  <2> QED BY <2>1, <2>2
<1>4. SpentInv'
  <2> SUFFICES ASSUME NEW q \in Requests, Kind[q] = "refresh", outcome'[q] = "ok",
                      q \notin unpurged'
               PROVE  /\ Presents[q] \notin tokens'
                      /\ \A p \in Requests :
                           pc'[p] = "consume" /\ Presents[p] = Presents[q]
                             => <<q, p>> \in overlap
    BY <1>m DEF SpentInv
  <2>1. CASE q # r
    <3>1. /\ Presents[q] \notin tokens
          /\ \A p \in Requests :
               pc[p] = "consume" /\ Presents[p] = Presents[q] => <<q, p>> \in overlap
      BY <1>m, <2>1 DEF AuthInv, SpentInv
    <3> QED BY <1>m, <3>1
  <2>2. CASE q = r
    <3>1. pc[r] = "consume" /\ Presents[r] \notin tokens' /\ pc'[r] = "done"
      BY <1>m, <2>2 DEF ControlInv
    <3>2. ASSUME NEW p \in Requests, pc'[p] = "consume" PROVE <<r, p>> \in overlap
      BY <1>m, <3>1, <3>2 DEF AuthInv, OverlapInv, Active
    <3> QED BY <2>2, <3>1, <3>2
  <2> QED BY <2>1, <2>2
<1>5. SecondSessionNeedsRace'
  BY <1>m DEF AuthInv, SecondSessionNeedsRace
<1>6. OldPasswordNeedsRace'
  <2> SUFFICES ASSUME NEW t \in tokens', Password[t] # hash
               PROVE  \E c \in Requests :
                        /\ Kind[c] = "change"
                        /\ <<t, c>> \in overlap \/ pc'[c] = "purge" \/ c \in unpurged'
    BY <1>m DEF OldPasswordNeedsRace
  <2>1. PICK c \in Requests :
          /\ Kind[c] = "change"
          /\ <<t, c>> \in overlap \/ pc[c] = "purge" \/ c \in unpurged
    BY DEF AuthInv, OldPasswordNeedsRace
  <2> QED BY <1>m, <2>1
<1>7. RedeemedTwiceNeedsRace'
  <2> SUFFICES ASSUME NEW q \in Requests, NEW p \in Requests, q # p,
                      Kind[q] = "refresh", Kind[p] = "refresh", Presents[q] = Presents[p],
                      outcome'[q] = "ok", outcome'[p] = "ok"
               PROVE  <<q, p>> \in overlap \/ {q, p} \cap unpurged' # {}
    BY <1>m DEF RedeemedTwiceNeedsRace
  <2>1. CASE q # r /\ p # r
    <3>1. <<q, p>> \in overlap \/ {q, p} \cap unpurged # {}
      BY <1>m, <2>1 DEF AuthInv, RedeemedTwiceNeedsRace
    <3> QED BY <3>1
  <2>2. CASE p = r
    BY <1>m, <2>2 DEF AuthInv, SpentInv
  <2>3. CASE q = r
    BY <1>m, <2>3 DEF AuthInv, SpentInv, SymmetryInv
  <2> QED BY <2>1, <2>2, <2>3
<1>8. LoggedOutStaysOut'
  <2> SUFFICES ASSUME NEW q \in Requests, Kind[q] = "logout", outcome'[q] = "ok",
                      q \notin unpurged'
               PROVE  ~Usable(Presents[q])'
    BY DEF LoggedOutStaysOut, Usable
  <2>1. CASE q # r
    BY <1>m, <2>1 DEF AuthInv, LoggedOutStaysOut, Usable
  <2> QED BY <2>1
<1> QED BY <1>m, <1>1, <1>2, <1>3, <1>4, <1>5, <1>6, <1>7, <1>8 DEF AuthInv

-----------------------------------------------------------------------------
(* The statements one by one                                               *)

LEMMA StartStep ==
    ASSUME AuthInv, NEW r \in Requests, Start(r)
    PROVE  AuthInv'
<1>t. TypeOK /\ ControlInv /\ Logins \subseteq Requests
  BY DEF AuthInv, Logins
<1>1. /\ Kind[r] \in Kinds
      /\ pc'[r] \in Path(Kind[r]) \cap Labels /\ pc[r] = "new"
      /\ pc'[r] \in {"read", "find"} \/ (Kind[r] = "delete" /\ pc'[r] = "purge")
      /\ \A s \in Requests : s # r => pc'[s] = pc[s]
      /\ pc' \in [Requests -> Labels]
      /\ UNCHANGED <<db, outcome, faults, unpurged>>
  <2>1. /\ pc' = [pc EXCEPT ![r] = Entry(r)] /\ pc[r] = "new" /\ Kind[r] \in Kinds
        /\ UNCHANGED <<db, outcome, faults, unpurged>>
    BY AuthAssumption DEF Start, Goto
  <2>2. /\ Entry(r) \in Path(Kind[r]) \cap Labels
        /\ Entry(r) \in {"read", "find"} \/ (Kind[r] = "delete" /\ Entry(r) = "purge")
    <3>1. CASE Kind[r] \in {"login", "change"}
      BY <3>1 DEF Entry, Path, Labels
    <3>2. CASE Kind[r] = "logout"
      BY <3>2 DEF Entry, Path, Labels
    <3>3. CASE Kind[r] = "refresh"
      BY <3>3 DEF Entry, Path, Labels
    <3>4. CASE Kind[r] = "delete"
      BY <3>4 DEF Entry, Path, Labels
    <3> QED BY <2>1, <3>1, <3>2, <3>3, <3>4 DEF Kinds
  <2> QED BY <1>t, <2>1, <2>2 DEF TypeOK
<1>2. /\ overlap \subseteq overlap'
      /\ overlap' \subseteq Requests \X Requests
      /\ \A q \in Requests : Active(q) => <<q, r>> \in overlap' /\ <<r, q>> \in overlap'
      /\ \A q, s \in Requests :
           <<q, s>> \in overlap' \ overlap =>
             \/ q = r /\ Active(s)
             \/ s = r /\ Active(q)
  BY <1>t DEF Start, TypeOK
<1>3. TypeOK'
  BY <1>t, <1>1, <1>2 DEF TypeOK, db
<1>4. ControlInv'
  BY <1>t, <1>1 DEF ControlInv, db
<1>5. OverlapInv' /\ SymmetryInv'
  BY <1>1, <1>2 DEF AuthInv, OverlapInv, SymmetryInv, Active
<1>6. SavedInv'
  BY <1>t, <1>1 DEF AuthInv, SavedInv, TypeOK, db
<1>7. ShownInv'
  <2>1. Kind[r] \in {"logout", "refresh"} => pc[Presents[r]] = "done"
    BY <1>t, AuthAssumption DEF Start, Authorized, ControlInv
  <2> QED BY <1>t, <1>1, <2>1, AuthAssumption DEF AuthInv, ShownInv
<1>8. SessionInv' /\ PasswordInv'
  BY <1>t, <1>1, <1>2 DEF AuthInv, SessionInv, PasswordInv, db, Logins
<1>9. SpentInv'
  BY <1>1, <1>2 DEF AuthInv, SpentInv, db
<1>10. SecondSessionNeedsRace' /\ RedeemedTwiceNeedsRace' /\ LoggedOutStaysOut'
  BY <1>1, <1>2 DEF AuthInv, SecondSessionNeedsRace, RedeemedTwiceNeedsRace,
                    LoggedOutStaysOut, Usable, db
<1>11. OldPasswordNeedsRace'
  BY <1>1, <1>2 DEF AuthInv, OldPasswordNeedsRace, db
<1> QED BY <1>3, <1>4, <1>5, <1>6, <1>7, <1>8, <1>9, <1>10, <1>11 DEF AuthInv

LEMMA ReadUserStep ==
    ASSUME AuthInv, NEW r \in Requests, ReadUser(r)
    PROVE  AuthInv'
<1>1. pc[r] = "read" /\ Active(r) /\ UNCHANGED <<db, history>>
  BY DEF ReadUser, Active
<1>2. Kind[r] \in {"login", "change"}
  BY <1>1, Paths
<1>3. \/ Goto(r, IF Kind[r] = "login" THEN "purge" ELSE "update") /\ PasswordFits(r)
      \/ Return(r, "error")
  BY DEF ReadUser
<1>4. Moves(r)
  BY <1>1, <1>2, <1>3 DEF Moves, Path, history
<1>5. TypeOK'
  <2>1. faults' \in 0..MaxFaults
    BY AuthAssumption DEF ReadUser, AuthInv, TypeOK, Fault, NoFault
  <2> QED BY <1>1, <1>4, <2>1, MoveFacts DEF AuthInv, TypeOK, db, history
<1>6. /\ pc'[r] \in {"purge", "update", "done"}
      /\ pc'[r] = "purge" => Password[r] = hash
  BY <1>3 DEF AuthInv, TypeOK, Goto, Return, PasswordFits
<1> QED BY <1>1, <1>2, <1>4, <1>5, <1>6, NothingSaved DEF db, history

LEMMA PurgeStep ==
    ASSUME AuthInv, NEW r \in Requests, DeleteByUserID(r)
    PROVE  AuthInv'
<1>t. TypeOK
  BY DEF AuthInv
<1>1. pc[r] = "purge" /\ Active(r) /\ UNCHANGED <<account, hash, expired, overlap>>
  BY DEF DeleteByUserID, Active
<1>2. Kind[r] \in {"login", "change", "logout", "delete"}
  BY <1>1, Paths
<1>3. \/ Goto(r, "save") /\ Kind[r] = "login"
      \/ Goto(r, "drop") /\ Kind[r] = "delete"
      \/ Return(r, "ok") /\ Kind[r] \in {"change", "logout"}
      \/ Return(r, "error") /\ Kind[r] = "delete"
  BY <1>2 DEF DeleteByUserID, AfterPurge
<1>4. Moves(r)
  BY <1>1, <1>3 DEF Moves, Path
<1>5. \/ tokens' = {} /\ unpurged' = unpurged /\ faults' = faults
      \/ tokens' = tokens /\ unpurged' = unpurged \cup {r} /\ Fault
  BY DEF DeleteByUserID, NoFault
<1>6. TypeOK'
  BY <1>t, <1>1, <1>4, <1>5, MoveFacts, AuthAssumption DEF TypeOK, Fault
<1>7. pc'[r] \in {"save", "drop", "done"}
  BY <1>t, <1>3 DEF TypeOK, Goto, Return
<1> QED BY <1>1, <1>2, <1>4, <1>5, <1>6, <1>7, NothingSaved DEF Usable

LEMMA SaveStep ==
    ASSUME AuthInv, NEW r \in Requests, Save(r)
    PROVE  AuthInv'
<1>t. TypeOK
  BY DEF AuthInv
<1>1. pc[r] = "save" /\ Active(r) /\ UNCHANGED <<account, hash, expired, history>>
  BY DEF Save, Active
<1>2. Kind[r] = "login" /\ r \in Logins
  BY <1>1, Paths DEF Logins
<1>3. Moves(r)
  BY <1>1, <1>2 DEF Moves, Path, Save, history
<1>m. /\ pc'[r] # "new" /\ outcome[r] = "none"
      /\ \A s \in Requests : s # r => pc'[s] = pc[s] /\ outcome'[s] = outcome[s]
      /\ ControlInv' /\ OverlapInv' /\ SymmetryInv' /\ ShownInv'
  BY <1>3, MoveFacts
<1>4. TypeOK'
  <2>1. faults' \in 0..MaxFaults
    BY <1>t, AuthAssumption DEF Save, TypeOK, Fault, NoFault
  <2>2. tokens' \in SUBSET Logins /\ (~account => tokens' = {})
    BY <1>t, <1>2 DEF Save, TypeOK
  <2> QED BY <1>t, <1>1, <1>3, <2>1, <2>2, MoveFacts DEF TypeOK, history
<1>5. CASE Return(r, "error") /\ tokens' = tokens
  <2>1. pc'[r] = "done" /\ outcome'[r] = "error"
    BY <1>t, <1>5 DEF TypeOK, Return
  <2> QED BY <1>1, <1>2, <1>3, <1>4, <1>5, <2>1, NothingSaved DEF history
<1>6. CASE Goto(r, "reread") /\ tokens' = tokens \cup {r}
  <2>1. pc'[r] = "reread" /\ outcome' = outcome
    BY <1>t, <1>6 DEF TypeOK, Goto
  <2>2. SavedInv'
    BY <1>t, <1>m, <1>6, <2>1 DEF AuthInv, SavedInv, TypeOK, Logins
  <2>3. SessionInv'
    <3> SUFFICES ASSUME NEW l \in Logins, pc'[l] = "save", l \notin unpurged, NEW s \in tokens'
                 PROVE  <<s, l>> \in overlap
      BY <1>1 DEF SessionInv, history
    <3>1. l # r /\ pc[l] = "save" /\ l \in Requests
      BY <1>m, <2>1 DEF Logins
    <3>2. CASE s \in tokens
      BY <3>1, <3>2 DEF AuthInv, SessionInv
    <3>3. CASE s = r
      BY <1>1, <3>1, <3>3 DEF AuthInv, OverlapInv, Active
    <3> QED BY <1>6, <3>2, <3>3
  <2>4. PasswordInv'
    BY <1>1, <1>m, <2>1 DEF AuthInv, PasswordInv, Logins, history
  <2>5. \A q \in Requests :
          Kind[q] \in {"logout", "refresh"} /\ outcome[q] # "none" => Presents[q] # r
    BY <1>1, AuthAssumption DEF AuthInv, ShownInv, ControlInv
  <2>6. SpentInv'
    <3> SUFFICES ASSUME NEW q \in Requests, Kind[q] = "refresh", outcome[q] = "ok",
                        q \notin unpurged
                 PROVE  /\ Presents[q] \notin tokens'
                        /\ \A p \in Requests :
                             pc'[p] = "consume" /\ Presents[p] = Presents[q]
                               => <<q, p>> \in overlap
      BY <1>1, <2>1 DEF SpentInv, history
    <3>1. /\ Presents[q] \notin tokens
          /\ \A p \in Requests :
               pc[p] = "consume" /\ Presents[p] = Presents[q] => <<q, p>> \in overlap
      BY DEF AuthInv, SpentInv
    <3> QED BY <1>m, <1>6, <2>1, <2>5, <3>1
  <2>7. SecondSessionNeedsRace'
    <3>1. r \in unpurged \/ \A s \in tokens : <<s, r>> \in overlap
      BY <1>1, <1>2 DEF AuthInv, SessionInv
    <3>2. \A s \in tokens : s \in Requests
      BY <1>t DEF TypeOK, Logins
    <3> QED BY <1>1, <1>6, <3>1, <3>2 DEF AuthInv, SymmetryInv, SecondSessionNeedsRace, history
  <2>8. OldPasswordNeedsRace'
    <3>1. \/ Password[r] = hash
          \/ \E c \in Requests : Kind[c] = "change" /\ <<r, c>> \in overlap
      BY <1>1, <1>2 DEF AuthInv, PasswordInv
    <3>2. \A c \in Requests : Kind[c] = "change" => pc'[c] = pc[c]
      BY <1>2, <1>m
    <3> QED BY <1>1, <1>6, <3>1, <3>2 DEF AuthInv, OldPasswordNeedsRace, history
  <2>9. RedeemedTwiceNeedsRace'
    BY <1>1, <2>1 DEF AuthInv, RedeemedTwiceNeedsRace, history
  <2>10. LoggedOutStaysOut'
    BY <1>1, <1>6, <2>1, <2>5 DEF AuthInv, LoggedOutStaysOut, Usable, history
  <2> QED BY <1>4, <1>m, <2>2, <2>3, <2>4, <2>6, <2>7, <2>8, <2>9, <2>10 DEF AuthInv
<1> QED BY <1>5, <1>6 DEF Save

LEMMA RereadStep ==
    ASSUME AuthInv, NEW r \in Requests, RereadUser(r)
    PROVE  AuthInv'
<1>1. pc[r] = "reread" /\ Active(r) /\ UNCHANGED <<db, history>>
  BY DEF RereadUser, Active
<1>2. Kind[r] = "login"
  BY <1>1, Paths
<1>3. Return(r, "ok") \/ Return(r, "error")
  BY DEF RereadUser
<1>4. Moves(r)
  BY <1>1, <1>3 DEF Moves, history
<1>5. faults' \in 0..MaxFaults
  BY AuthAssumption DEF RereadUser, AuthInv, TypeOK, Fault, NoFault
<1>6. TypeOK'
  BY <1>1, <1>4, <1>5, MoveFacts DEF AuthInv, TypeOK, db, history
<1>7. pc'[r] = "done"
  BY <1>3 DEF AuthInv, TypeOK, Return
<1> QED BY <1>1, <1>2, <1>4, <1>6, <1>7, NothingSaved DEF db, history

LEMMA FindStep ==
    ASSUME AuthInv, NEW r \in Requests, FindToken(r)
    PROVE  AuthInv'
<1>t. TypeOK
  BY DEF AuthInv
<1>1. pc[r] = "find" /\ Active(r) /\ UNCHANGED <<db, overlap>>
  BY DEF FindToken, Active
<1>2. Kind[r] \in {"logout", "refresh"}
  BY <1>1, Paths
<1>3. \/ Goto(r, "purge") /\ Kind[r] = "logout" /\ unpurged' = unpurged
      \/ /\ Goto(r, "consume") /\ Kind[r] = "refresh" /\ unpurged' = unpurged
         /\ Presents[r] \in tokens
      \/ Return(r, "error") /\ Kind[r] = "refresh" /\ unpurged' \in {unpurged, unpurged \cup {r}}
      \/ /\ Return(r, "ok") /\ Kind[r] = "logout"
         /\ \/ ~Usable(Presents[r]) /\ unpurged' = unpurged
            \/ unpurged' = unpurged \cup {r}
  BY <1>2 DEF FindToken, Usable
<1>4. Moves(r)
  BY <1>1, <1>3 DEF Moves, Path
<1>5. faults' \in 0..MaxFaults
  BY <1>t, AuthAssumption DEF FindToken, TypeOK, Fault, NoFault
<1>6. TypeOK'
  BY <1>t, <1>1, <1>3, <1>4, <1>5, MoveFacts DEF TypeOK, db
<1>7. \/ pc'[r] = "purge" /\ Kind[r] = "logout"
      \/ pc'[r] = "consume" /\ Presents[r] \in tokens
      \/ pc'[r] = "done"
  BY <1>t, <1>3 DEF TypeOK, Goto, Return
<1>8. /\ Kind[r] = "refresh" => outcome'[r] # "ok"
      /\ Kind[r] = "logout" /\ outcome'[r] = "ok" =>
           ~Usable(Presents[r]) \/ unpurged' = unpurged \cup {r}
  <2>1. outcome[r] = "none"
    BY <1>4, MoveFacts
  <2> QED BY <1>t, <1>3, <2>1 DEF TypeOK, Goto, Return
<1> QED BY <1>1, <1>2, <1>3, <1>4, <1>6, <1>7, <1>8, NothingSaved DEF db, Usable

LEMMA ConsumeStep ==
    ASSUME AuthInv, NEW r \in Requests, ConsumeToken(r)
    PROVE  AuthInv'
<1>t. TypeOK
  BY DEF AuthInv
<1>1. /\ pc[r] = "consume" /\ Active(r) /\ UNCHANGED <<account, hash, expired, overlap>>
      /\ Return(r, "ok")
  BY DEF ConsumeToken, Active
<1>2. Kind[r] = "refresh"
  BY <1>1, Paths
<1>3. Moves(r)
  BY <1>1 DEF Moves
<1>4. \/ tokens' = tokens \ {Presents[r]} /\ unpurged' = unpurged /\ faults' = faults
      \/ tokens' = tokens /\ unpurged' = unpurged \cup {r} /\ Fault
  BY DEF ConsumeToken, NoFault
<1>5. TypeOK'
  BY <1>t, <1>1, <1>3, <1>4, MoveFacts, AuthAssumption DEF TypeOK, Fault
<1>6. pc'[r] = "done"
  BY <1>t, <1>1 DEF TypeOK, Return
<1> QED BY <1>1, <1>2, <1>3, <1>4, <1>5, <1>6, NothingSaved

LEMMA UpdatePasswordStep ==
    ASSUME AuthInv, NEW r \in Requests, UpdatePassword(r)
    PROVE  AuthInv'
<1>t. TypeOK
  BY DEF AuthInv
<1>1. /\ pc[r] = "update" /\ Active(r)
      /\ UNCHANGED <<account, tokens, expired, overlap, unpurged>>
  BY DEF UpdatePassword, Active, history
<1>2. Kind[r] = "change"
  BY <1>1, Paths
<1>3. \/ Goto(r, "purge")
      \/ hash' = hash /\ Return(r, "error")
  BY DEF UpdatePassword
<1>4. Moves(r)
  BY <1>1, <1>2, <1>3 DEF Moves, Path
<1>m. /\ pc'[r] # "new" /\ outcome[r] = "none"
      /\ \A s \in Requests : s # r => pc'[s] = pc[s] /\ outcome'[s] = outcome[s]
      /\ ControlInv' /\ OverlapInv' /\ SymmetryInv' /\ ShownInv'
  BY <1>4, MoveFacts
<1>5. TypeOK'
  <2>1. faults' \in 0..MaxFaults /\ hash' \in Passwords
    BY <1>t, AuthAssumption DEF UpdatePassword, TypeOK, Fault, NoFault
  <2> QED BY <1>t, <1>1, <1>4, <2>1, MoveFacts DEF TypeOK
<1>6. CASE hash' = hash /\ Return(r, "error")
  <2>1. pc'[r] = "done"
    BY <1>t, <1>6 DEF TypeOK, Return
  <2> QED BY <1>1, <1>2, <1>4, <1>5, <1>6, <2>1, NothingSaved
<1>7. CASE Goto(r, "purge")
  <2>1. pc'[r] = "purge" /\ outcome' = outcome
    BY <1>t, <1>7 DEF TypeOK, Goto
  <2>2. SavedInv' /\ SessionInv'
    BY <1>t, <1>1, <1>2, <1>m, <2>1 DEF AuthInv, SavedInv, SessionInv, TypeOK, Logins
  <2>3. PasswordInv'
    <3> SUFFICES ASSUME NEW l \in Logins, pc'[l] \in {"purge", "save"}
                 PROVE  <<l, r>> \in overlap
      BY <1>1, <1>2 DEF PasswordInv
    <3> QED BY <1>1, <1>2, <1>m DEF AuthInv, OverlapInv, Active, Logins
  <2>4. SpentInv'
    BY <1>1, <1>m, <2>1 DEF AuthInv, SpentInv
  <2>5. OldPasswordNeedsRace'
    BY <1>2, <2>1 DEF OldPasswordNeedsRace
  <2>6. SecondSessionNeedsRace' /\ RedeemedTwiceNeedsRace' /\ LoggedOutStaysOut'
    BY <1>1, <2>1 DEF AuthInv, SecondSessionNeedsRace, RedeemedTwiceNeedsRace,
                      LoggedOutStaysOut, Usable
  <2> QED BY <1>m, <1>5, <2>2, <2>3, <2>4, <2>5, <2>6 DEF AuthInv
<1> QED BY <1>3, <1>6, <1>7

LEMMA DeleteUserStep ==
    ASSUME AuthInv, NEW r \in Requests, DeleteUser(r)
    PROVE  AuthInv'
<1>t. TypeOK
  BY DEF AuthInv
<1>1. pc[r] = "drop" /\ Active(r) /\ UNCHANGED <<hash, expired, overlap, unpurged>>
  BY DEF DeleteUser, Active, history
<1>2. Kind[r] = "delete"
  BY <1>1, Paths
<1>3. Return(r, "ok") \/ Return(r, "error")
  BY DEF DeleteUser
<1>4. Moves(r)
  BY <1>1, <1>3 DEF Moves
<1>5. \/ account' = FALSE /\ tokens' = {} /\ faults' = faults
      \/ account' = account /\ tokens' = tokens /\ Fault
  BY DEF DeleteUser, NoFault
<1>6. TypeOK'
  <2>1. faults' \in 0..MaxFaults
    BY <1>t, <1>5, AuthAssumption DEF TypeOK, Fault
  <2>2. /\ account' \in BOOLEAN /\ (~account' => tokens' = {})
        /\ tokens' \in SUBSET Logins
    BY <1>t, <1>5 DEF TypeOK
  <2> QED BY <1>t, <1>1, <1>4, <2>1, <2>2, MoveFacts DEF TypeOK
<1>7. pc'[r] = "done"
  BY <1>t, <1>3 DEF TypeOK, Return
<1> QED BY <1>1, <1>2, <1>4, <1>5, <1>6, <1>7, NothingSaved

LEMMA ExpireStep ==
    ASSUME AuthInv, NEW t \in Logins, Expire(t)
    PROVE  AuthInv'
<1>1. /\ expired' = expired \cup {t}
      /\ UNCHANGED <<account, hash, tokens, pc, outcome, faults, overlap, unpurged>>
  BY DEF Expire, history
<1>2. TypeOK' /\ ControlInv' /\ OverlapInv' /\ SymmetryInv' /\ SavedInv' /\ ShownInv'
  BY <1>1 DEF AuthInv, TypeOK, ControlInv, OverlapInv, SymmetryInv, SavedInv, ShownInv, Active
<1>3. SessionInv' /\ PasswordInv' /\ SpentInv'
  BY <1>1 DEF AuthInv, SessionInv, PasswordInv, SpentInv
<1>4. SecondSessionNeedsRace' /\ OldPasswordNeedsRace' /\ RedeemedTwiceNeedsRace'
  BY <1>1 DEF AuthInv, SecondSessionNeedsRace, OldPasswordNeedsRace, RedeemedTwiceNeedsRace
<1>5. LoggedOutStaysOut'
  BY <1>1 DEF AuthInv, LoggedOutStaysOut, Usable
<1> QED BY <1>2, <1>3, <1>4, <1>5 DEF AuthInv

LEMMA AuthNext == AuthInv /\ [Next]_vars => AuthInv'
<1> SUFFICES ASSUME AuthInv, [Next]_vars PROVE AuthInv'
  OBVIOUS
<1>1. ASSUME NEW r \in Requests, Handler(r) PROVE AuthInv'
  BY <1>1, StartStep, ReadUserStep, PurgeStep, SaveStep, RereadStep, FindStep, ConsumeStep,
     UpdatePasswordStep, DeleteUserStep DEF Handler
<1>2. ASSUME NEW t \in Logins, Expire(t) PROVE AuthInv'
  BY <1>2, ExpireStep
<1>3. CASE UNCHANGED vars
  <2>1. TypeOK' /\ ControlInv' /\ OverlapInv' /\ SymmetryInv' /\ SavedInv' /\ ShownInv'
    BY <1>3 DEF AuthInv, TypeOK, ControlInv, OverlapInv, SymmetryInv, SavedInv, ShownInv,
                Active, vars, db, history
  <2>2. SessionInv' /\ PasswordInv' /\ SpentInv'
    BY <1>3 DEF AuthInv, SessionInv, PasswordInv, SpentInv, vars, db, history
  <2>3. /\ SecondSessionNeedsRace' /\ OldPasswordNeedsRace' /\ RedeemedTwiceNeedsRace'
        /\ LoggedOutStaysOut'
    BY <1>3 DEF AuthInv, SecondSessionNeedsRace, OldPasswordNeedsRace, RedeemedTwiceNeedsRace,
                LoggedOutStaysOut, Usable, vars, db, history
  <2> QED BY <2>1, <2>2, <2>3 DEF AuthInv
<1> QED BY <1>1, <1>2, <1>3 DEF Next, Idle

LEMMA AuthInvariant == Spec => []AuthInv
<1> QED BY Initially, AuthNext, PTL DEF Spec

-----------------------------------------------------------------------------
\* Types hold, and no refresh token outlives its account: neither that of a
\* login that read the user before DeleteAccount and saves its token after it,
\* nor any other (auth_service.go 67-108, user_service.go 61-72).
THEOREM TypeCorrect == Spec => []TypeOK
<1>1. AuthInv => TypeOK
  BY DEF AuthInv
<1> QED BY <1>1, AuthInvariant, PTL

\* However many logins, refreshes and faults there are, two refresh tokens
\* exist at once only after a race of their logins or a DELETE that failed
\* (auth_service.go 92).
THEOREM OneSession == Spec => []SecondSessionNeedsRace
<1>1. AuthInv => SecondSessionNeedsRace
  BY DEF AuthInv
<1> QED BY <1>1, AuthInvariant, PTL

\* After any number of password changes, a token of a login with an earlier
\* password is there only because of a race, or the change that revokes it is
\* still under way or failed to (auth_service.go 146-175).
THEOREM PasswordRevokes == Spec => []OldPasswordNeedsRace
<1>1. AuthInv => OldPasswordNeedsRace
  BY DEF AuthInv
<1> QED BY <1>1, AuthInvariant, PTL

\* No two refreshes with one token are both answered well, unless they ran at
\* the same time or the DELETE of the first failed (auth_service.go 123-144).
THEOREM RedeemedOnce == Spec => []RedeemedTwiceNeedsRace
<1>1. AuthInv => RedeemedTwiceNeedsRace
  BY DEF AuthInv
<1> QED BY <1>1, AuthInvariant, PTL

\* What was logged out stays so, whatever else runs before, during and after
\* the Logout (auth_service.go 110-121).
THEOREM LogoutIsFinal == Spec => []LoggedOutStaysOut
<1>1. AuthInv => LoggedOutStaysOut
  BY DEF AuthInv
<1> QED BY <1>1, AuthInvariant, PTL
=============================================================================
