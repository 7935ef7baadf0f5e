---------------------------- MODULE AuthSessions ----------------------------
(***************************************************************************)
(* internal/auth for one account: the Login, Logout, RefreshToken and      *)
(* ChangePassword handlers of auth_service.go and DeleteAccount of         *)
(* user_service.go over the users row and the refresh_tokens rows, each    *)
(* handler one autocommitted statement at a time.  The refresh token a     *)
(* login generates is named by the login request.                          *)
(*                                                                         *)
(* Errors of the DELETE statements are discarded by the code except in     *)
(* DeleteAccount; MaxFaults of the statements may fail.                    *)
(***************************************************************************)
EXTENDS Naturals, FiniteSets

CONSTANTS Requests,
          Kind,         \* "login", "logout", "refresh", "change" or "delete"
          Password,     \* password given to a login, old one of a change
          NewPassword,  \* new password of a change
          Presents,     \* login whose refresh token a logout or refresh shows
          Passwords, FirstPassword,
          MaxFaults     \* bound: statements that fail

Logins == {r \in Requests : Kind[r] = "login"}
Kinds == {"login", "logout", "refresh", "change", "delete"}

ASSUME AuthAssumption ==
    /\ Kind \in [Requests -> Kinds]
    /\ Password \in [Requests -> Passwords]
    /\ NewPassword \in [Requests -> Passwords]
    /\ Presents \in [Requests -> Requests]
    /\ \A r \in Requests : Kind[r] \in {"logout", "refresh"} => Presents[r] \in Logins
    /\ FirstPassword \in Passwords
    /\ MaxFaults \in Nat

VARIABLES
    account,    \* the users row exists
    hash,       \* password whose hash the row holds
    tokens,     \* refresh_tokens rows, each named by its login
    expired,    \* tokens whose expires_at is past
    pc,         \* where each handler is
    outcome,    \* what it returns
    faults,     \* number of failed statements so far
    overlap,    \* history: pairs of requests that ran at the same time
    unpurged    \* history: requests whose DELETE FROM refresh_tokens failed

db == <<account, hash, tokens, expired>>
history == <<overlap, unpurged>>
vars == <<db, pc, outcome, faults, history>>

Labels == {"new", "read", "find", "update", "purge", "consume", "save",
           "reread", "drop", "done"}

\* Types, and the foreign key: no refresh token outlives its account, not even
\* that of a login that read the user before DeleteAccount and saves after it.
TypeOK ==
    /\ account \in BOOLEAN
    /\ hash \in Passwords
    /\ tokens \in SUBSET Logins
    /\ expired \in SUBSET Logins
    /\ pc \in [Requests -> Labels]
    /\ outcome \in [Requests -> {"none", "ok", "error"}]
    /\ faults \in 0..MaxFaults
    /\ overlap \in SUBSET (Requests \X Requests)
    /\ unpurged \in SUBSET Requests
    /\ ~account => tokens = {}

Init ==
    /\ account = TRUE
    /\ hash = FirstPassword
    /\ tokens = {}
    /\ expired = {}
    /\ pc = [r \in Requests |-> "new"]
    /\ outcome = [r \in Requests |-> "none"]
    /\ faults = 0
    /\ overlap = {}
    /\ unpurged = {}

Active(r) == pc[r] \notin {"new", "done"}
Goto(r, label) == pc' = [pc EXCEPT ![r] = label] /\ UNCHANGED outcome
Return(r, result) ==
    /\ pc' = [pc EXCEPT ![r] = "done"]
    /\ outcome' = [outcome EXCEPT ![r] = result]

Fault == faults < MaxFaults /\ faults' = faults + 1
NoFault == UNCHANGED faults

-----------------------------------------------------------------------------
(* A request arrives.  A client can show a refresh token only after the     *)
(* login that made it was answered; ChangePassword and DeleteAccount need   *)
(* an access token, which stays valid whatever happens to the rows.         *)

Authorized(r) ==
    CASE Kind[r] = "login" -> TRUE
      [] Kind[r] \in {"logout", "refresh"} -> outcome[Presents[r]] = "ok"
      [] OTHER -> \E l \in Logins : outcome[l] = "ok"

Entry(r) == CASE Kind[r] \in {"login", "change"} -> "read"
              [] Kind[r] \in {"logout", "refresh"} -> "find"
              [] Kind[r] = "delete" -> "purge"

Start(r) ==
    /\ pc[r] = "new"
    /\ Authorized(r)
    /\ Goto(r, Entry(r))
    /\ overlap' = overlap \cup UNION {{<<r, q>>, <<q, r>>} :
                                        q \in {p \in Requests : Active(p)}}
    /\ UNCHANGED <<db, faults, unpurged>>

\* CheckPasswordHash
PasswordFits(r) == Password[r] = hash

\* GetByUsername or GetByID, then the password is checked.
ReadUser(r) ==
    /\ pc[r] = "read"
    /\ \/ /\ account /\ PasswordFits(r)
          /\ NoFault
          /\ Goto(r, IF Kind[r] = "login" THEN "purge" ELSE "update")
       \/ /\ IF account /\ PasswordFits(r) THEN Fault ELSE NoFault
          /\ Return(r, "error")
    /\ UNCHANGED <<db, history>>

\* DELETE FROM refresh_tokens WHERE user_id: before Save in Login, last in
\* ChangePassword and Logout, first in DeleteAccount, where an error returns.
AfterPurge(r) ==
    CASE Kind[r] = "login" -> Goto(r, "save")
      [] Kind[r] = "delete" -> Goto(r, "drop")
      [] OTHER -> Return(r, "ok")

\* Mutant: only expired tokens are deleted.
DeleteExpired(r) ==
    /\ pc[r] = "purge"
    /\ tokens' = tokens \ expired
    /\ AfterPurge(r)
    /\ UNCHANGED <<account, hash, expired, faults, history>>

DeleteByUserID(r) ==
    /\ pc[r] = "purge"
    /\ \/ /\ NoFault
          /\ tokens' = {}
          /\ UNCHANGED unpurged
          /\ AfterPurge(r)
       \/ /\ Fault
          /\ UNCHANGED tokens
          /\ unpurged' = unpurged \cup {r}
          /\ IF Kind[r] = "delete" THEN Return(r, "error") ELSE AfterPurge(r)
    /\ UNCHANGED <<account, hash, expired, overlap>>

\* Mutant: no foreign key to users.
SaveAnyway(r) ==
    /\ pc[r] = "save"
    /\ tokens' = tokens \cup {r}
    /\ Goto(r, "reread")
    /\ UNCHANGED <<account, hash, expired, faults, history>>

\* INSERT INTO refresh_tokens: the foreign key needs the users row.
Save(r) ==
    /\ pc[r] = "save"
    /\ \/ account /\ NoFault /\ tokens' = tokens \cup {r} /\ Goto(r, "reread")
       \/ /\ IF account THEN Fault ELSE NoFault
          /\ UNCHANGED tokens
          /\ Return(r, "error")
    /\ UNCHANGED <<account, hash, expired, history>>

\* The server handler looks the user up again for the answer: the login may
\* fail here although its token is saved.
RereadUser(r) ==
    /\ pc[r] = "reread"
    /\ \/ account /\ NoFault /\ Return(r, "ok")
       \/ (IF account THEN Fault ELSE NoFault) /\ Return(r, "error")
    /\ UNCHANGED <<db, history>>

\* GetByToken ... AND expires_at > NOW(); Logout returns nil in any case.
Usable(t) == t \in tokens \ expired

\* Mutant: Logout looks the token up and leaves the rows alone.
FindOnly(r) ==
    /\ pc[r] = "find"
    /\ IF Usable(Presents[r]) /\ Kind[r] = "refresh"
         THEN Goto(r, "consume")
         ELSE Return(r, IF Kind[r] = "logout" THEN "ok" ELSE "error")
    /\ UNCHANGED <<db, faults, history>>

FindToken(r) ==
    /\ pc[r] = "find"
    /\ \/ /\ Usable(Presents[r])
          /\ NoFault
          /\ Goto(r, IF Kind[r] = "logout" THEN "purge" ELSE "consume")
          /\ UNCHANGED unpurged
       \/ /\ IF Usable(Presents[r])
               THEN Fault /\ unpurged' = unpurged \cup {r}
               ELSE NoFault /\ UNCHANGED unpurged
          /\ Return(r, IF Kind[r] = "logout" THEN "ok" ELSE "error")
    /\ UNCHANGED <<db, overlap>>

\* Mutant: a refresh token may be used again.
KeepToken(r) ==
    /\ pc[r] = "consume"
    /\ Return(r, "ok")
    /\ UNCHANGED <<db, faults, history>>

\* DeleteByToken, its error ignored; then the access token is generated.
ConsumeToken(r) ==
    /\ pc[r] = "consume"
    /\ \/ NoFault /\ tokens' = tokens \ {Presents[r]} /\ UNCHANGED unpurged
       \/ Fault /\ UNCHANGED tokens /\ unpurged' = unpurged \cup {r}
    /\ Return(r, "ok")
    /\ UNCHANGED <<account, hash, expired, overlap>>

\* Mutant: a change of the password leaves the sessions alone.
UpdateOnly(r) ==
    /\ pc[r] = "update"
    /\ hash' = IF account THEN NewPassword[r] ELSE hash
    /\ Return(r, "ok")
    /\ UNCHANGED <<account, tokens, expired, faults, history>>

\* UPDATE users SET password_hash: no row and no error after a deletion.
UpdatePassword(r) ==
    /\ pc[r] = "update"
    /\ \/ /\ NoFault
          /\ hash' = IF account THEN NewPassword[r] ELSE hash
          /\ Goto(r, "purge")
       \/ Fault /\ UNCHANGED hash /\ Return(r, "error")
    /\ UNCHANGED <<account, tokens, expired, history>>

\* DELETE FROM users, cascading to refresh_tokens
DeleteUser(r) ==
    /\ pc[r] = "drop"
    /\ \/ NoFault /\ account' = FALSE /\ tokens' = {} /\ Return(r, "ok")
       \/ Fault /\ UNCHANGED <<account, tokens>> /\ Return(r, "error")
    /\ UNCHANGED <<hash, expired, history>>

Handler(r) ==
    \/ Start(r) \/ ReadUser(r) \/ DeleteByUserID(r) \/ Save(r) \/ RereadUser(r)
    \/ FindToken(r) \/ ConsumeToken(r) \/ UpdatePassword(r) \/ DeleteUser(r)

\* Seven days pass for a token.
Expire(t) ==
    /\ t \in tokens \ expired
    /\ expired' = expired \cup {t}
    /\ UNCHANGED <<account, hash, tokens, pc, outcome, faults, history>>

\* Nothing is running; a request that nobody may send is never sent.
Idle ==
    /\ \A r \in Requests : ~Active(r) /\ (pc[r] = "new" => ~Authorized(r))
    /\ UNCHANGED vars

Next ==
    \/ \E r \in Requests : Handler(r)
    \/ \E t \in Logins : Expire(t)
    \/ Idle

Spec == Init /\ [][Next]_vars

-----------------------------------------------------------------------------
\* Every login first deletes the user's other tokens (auth_service.go 92), so
\* two refresh tokens exist at once only when their logins overlapped or such a
\* DELETE failed.
SecondSessionNeedsRace ==
    \A s, t \in tokens :
        s # t => <<s, t>> \in overlap \/ {s, t} \cap unpurged # {}

\* After a password change every token left was made with the password now in
\* force: an older login survives only if it ran while the password was being
\* changed, or while the change that revokes it is still under way or failed.
OldPasswordNeedsRace ==
    \A t \in tokens :
        Password[t] # hash =>
            \E c \in Requests :
                /\ Kind[c] = "change"
                /\ \/ <<t, c>> \in overlap
                   \/ pc[c] = "purge"
                   \/ c \in unpurged

\* One refresh token yields one access token: two refreshes of it both succeed
\* only when they overlapped, or when the DELETE of the first failed.
RedeemedTwiceNeedsRace ==
    \A q, r \in Requests :
        /\ q # r
        /\ Kind[q] = "refresh" /\ Kind[r] = "refresh"
        /\ Presents[q] = Presents[r]
        /\ outcome[q] = "ok" /\ outcome[r] = "ok"
        => <<q, r>> \in overlap \/ {q, r} \cap unpurged # {}

\* Once a Logout has been answered its refresh token cannot be used again,
\* whatever other logins, refreshes and password changes do; it is at most an
\* expired row.
LoggedOutStaysOut ==
    \A r \in Requests :
        Kind[r] = "logout" /\ outcome[r] = "ok" /\ r \notin unpurged
            => ~Usable(Presents[r])
=============================================================================
