------------------------------ MODULE Accounts ------------------------------
(***************************************************************************)
(* Users, API keys and portal sessions: three tables of UserStore          *)
(* (users.py) and the handlers of app.py that change them.                 *)
(*                                                                         *)
(* A portal request has two steps.  The middleware resolves its cookie;    *)
(* the handler runs later, after awaits, with the session captured then,   *)
(* whatever other requests did to the account in between.                  *)
(*                                                                         *)
(* A handler commits its changes one by one.  A later one may be missing:  *)
(* a field of a PATCH is refused, the store raises, or the process stops.  *)
(* The ghost loose names the sessions that should have gone and stayed.    *)
(***************************************************************************)
CONSTANTS
    Users, Keys, Tokens,    \* rows the tables can ever hold; no id is used twice
    Passwords,
    Requests,               \* portal requests in flight at a time
    NoPassword, Fresh, Gone, Idle,
    CleanUpMayFail          \* whether the deletion of sessions can be missing

ASSUME NamesDiffer ==
    /\ NoPassword \notin Passwords
    /\ Fresh \notin Users /\ Gone \notin Users /\ Fresh # Gone
    /\ Idle \notin [token : Tokens, user : Users]
    /\ CleanUpMayFail \in BOOLEAN

VARIABLES
    status,     \* status of each user; "none" before and "deleted" after its row
    password,   \* the password whose hash is stored
    approved,   \* ghost: users with a row that were active once
    owner,      \* user of each key; Fresh before and Gone after its row
    off,        \* keys with enabled = 0
    revoked,    \* keys with a revoked_at
    holder,     \* user of each session; Fresh before and Gone after its row
    madeWith,   \* ghost: the password the session was last proved with
    expired,    \* sessions past their expires_at
    loose,      \* ghost: sessions that outlived what should have ended them
    refused,    \* ghost: tokens the store answered are not a session
    waiting     \* the session a portal request has captured

userTable == <<status, password, approved>>
keyTable == <<owner, off, revoked>>
sessionTable == <<holder, madeWith, expired, loose>>
vars == <<userTable, keyTable, sessionTable, refused, waiting>>

Statuses == {"pending", "active", "disabled"}
HasRow(u) == status[u] \in Statuses
KeysOf(u) == {k \in Keys : owner[k] = u}
SessionsOf(u) == {t \in Tokens : holder[t] = u}
Live == {t \in Tokens : holder[t] \in Users}

\* get_session finds the session, in time and of an active user.
Valid(t) == t \in Live \ expired /\ status[holder[t]] = "active"

-----------------------------------------------------------------------------
\* The rows of the sessions in S are deleted; made is madeWith for the others.
EndSessions(S, made) ==
    /\ holder' = [t \in Tokens |-> IF t \in S THEN Gone ELSE holder[t]]
    /\ madeWith' = [t \in Tokens |-> IF t \in S THEN NoPassword ELSE made[t]]
    /\ expired' = expired \ S
    /\ loose' = loose \ S

\* The sessions in S should have been deleted, but were not.
Overlook(S) ==
    /\ loose' = loose \cup S
    /\ UNCHANGED <<holder, madeWith, expired>>

\* delete_sessions_for_user; the handlers swallow what it raises.
CleanUp(u) ==
    \/ EndSessions(SessionsOf(u), madeWith)
    \/ CleanUpMayFail /\ Overlook(SessionsOf(u))

SetAccount(u, st, pw) ==
    /\ HasRow(u)
    /\ status' = [status EXCEPT ![u] = st]
    /\ password' = [password EXCEPT ![u] = pw]
    /\ approved' = IF st = "active" THEN approved \cup {u} ELSE approved

\* What this change of the account should end.
Outdated(u, st, pw) ==
    IF st # "active" \/ pw # password[u] THEN SessionsOf(u) ELSE {}

-----------------------------------------------------------------------------
(* Users *)

CreateUser(u, st, pw) ==
    /\ status[u] = "none"
    /\ status' = [status EXCEPT ![u] = st]
    /\ password' = [password EXCEPT ![u] = pw]
    /\ approved' = IF st = "active" THEN approved \cup {u} ELSE approved
    /\ UNCHANGED <<keyTable, sessionTable, refused, waiting>>

\* Self-service sign-up waits for an approval.
Register(u, pw) == CreateUser(u, "pending", pw)

\* Every field was applied.  Sessions go when the account is not active now:
\* a new password of an active account leaves them.
PatchUser(u, st, pw) ==
    /\ SetAccount(u, st, pw)
    /\ \/ st # "active" /\ CleanUp(u)
       \/ st = "active" /\ Overlook(Outdated(u, st, pw))
    /\ UNCHANGED <<keyTable, refused, waiting>>

\* A later field is refused: 400, after the earlier ones were committed.
PatchUserRejected(u, st, pw) ==
    /\ SetAccount(u, st, pw)
    /\ Overlook(Outdated(u, st, pw))
    /\ UNCHANGED <<keyTable, refused, waiting>>

ResetPassword_KeepsSessions(u, pw) ==
    /\ SetAccount(u, status[u], pw)
    /\ UNCHANGED <<keyTable, sessionTable, refused, waiting>>

ResetPassword(u, pw) ==
    /\ SetAccount(u, status[u], pw)
    /\ CleanUp(u)
    /\ UNCHANGED <<keyTable, refused, waiting>>

\* Keys and sessions of the user go with it, by the cascade of the schema.
DeleteUser(u) ==
    /\ HasRow(u)
    /\ status' = [status EXCEPT ![u] = "deleted"]
    /\ password' = [password EXCEPT ![u] = NoPassword]
    /\ approved' = approved \ {u}
    /\ owner' = [k \in Keys |-> IF owner[k] = u THEN Gone ELSE owner[k]]
    /\ off' = off \ KeysOf(u) /\ revoked' = revoked \ KeysOf(u)
    /\ EndSessions(SessionsOf(u), madeWith)
    /\ UNCHANGED <<refused, waiting>>

-----------------------------------------------------------------------------
(* Keys *)

IssueKey_TrustsCaller(u, k) ==
    /\ owner[k] = Fresh
    /\ owner' = [owner EXCEPT ![k] = u]
    /\ UNCHANGED <<userTable, off, revoked, sessionTable, refused>>

\* create_api_key checks the account again, whoever asks.
IssueKey(u, k) ==
    /\ status[u] = "active" /\ owner[k] = Fresh
    /\ owner' = [owner EXCEPT ![k] = u]
    /\ UNCHANGED <<userTable, off, revoked, sessionTable, refused>>

Revoke(k) ==
    /\ owner[k] \in Users
    /\ off' = off \cup {k} /\ revoked' = revoked \cup {k}
    /\ UNCHANGED <<userTable, owner, sessionTable, refused>>

CreateKey(u, k) == IssueKey(u, k) /\ UNCHANGED waiting

RevokeKey(k) == Revoke(k) /\ UNCHANGED waiting

DisableKey(k) ==
    /\ owner[k] \in Users
    /\ off' = off \cup {k}
    /\ UNCHANGED <<userTable, owner, revoked, sessionTable, refused, waiting>>

EnableKey_Always(k) ==
    /\ owner[k] \in Users
    /\ off' = off \ {k}
    /\ UNCHANGED <<userTable, owner, revoked, sessionTable, refused, waiting>>

\* set_key_enabled, which no handler calls, never brings back a revoked key.
EnableKey(k) ==
    /\ owner[k] \in Users /\ k \notin revoked
    /\ off' = off \ {k}
    /\ UNCHANGED <<userTable, owner, revoked, sessionTable, refused, waiting>>

-----------------------------------------------------------------------------
(* Sessions *)

CanLogIn(u) == status[u] = "active" /\ password[u] # NoPassword

LogIn(u, t) ==
    /\ CanLogIn(u) /\ holder[t] = Fresh
    /\ holder' = [holder EXCEPT ![t] = u]
    /\ madeWith' = [madeWith EXCEPT ![t] = password[u]]
    /\ UNCHANGED <<userTable, keyTable, expired, loose, refused, waiting>>

LogOut(t) ==
    /\ t \in Live
    /\ EndSessions({t}, madeWith)
    /\ UNCHANGED <<userTable, keyTable, refused, waiting>>

Expire(t) ==
    /\ t \in Live \ expired
    /\ expired' = expired \cup {t}
    /\ UNCHANGED <<userTable, keyTable, holder, madeWith, loose, refused, waiting>>

\* purge_expired_sessions, which no handler calls.
PurgeExpired ==
    /\ EndSessions(expired, madeWith)
    /\ UNCHANGED <<userTable, keyTable, refused, waiting>>

\* The middleware lets a portal request in.
Resolve(r, t) ==
    /\ waiting[r] = Idle /\ Valid(t)
    /\ waiting' = [waiting EXCEPT ![r] = [token |-> t, user |-> holder[t]]]
    /\ UNCHANGED <<userTable, keyTable, sessionTable, refused>>

RefuseSession_KeepsRow(t) ==
    /\ holder[t] # Fresh /\ ~Valid(t)
    /\ refused' = refused \cup {t}
    /\ UNCHANGED <<userTable, keyTable, sessionTable, waiting>>

\* The middleware answers 401; a row out of time or of an inactive user goes.
RefuseSession(t) ==
    /\ holder[t] # Fresh /\ ~Valid(t)
    /\ refused' = refused \cup {t}
    /\ EndSessions(Live \cap {t}, madeWith)
    /\ UNCHANGED <<userTable, keyTable, waiting>>

-----------------------------------------------------------------------------
(* Handlers of the portal, with the session captured by the middleware *)

Answered(r) == waiting[r] # Idle /\ waiting' = [waiting EXCEPT ![r] = Idle]

HandleCreateKey(r, k) == Answered(r) /\ IssueKey(waiting[r].user, k)

HandleRevokeKey_AnyKey(r, k) == Answered(r) /\ Revoke(k)

\* Only a key of the session's own user is found.
HandleRevokeKey(r, k) ==
    /\ Answered(r)
    /\ owner[k] = waiting[r].user
    /\ Revoke(k)

\* The old password was right and the new one differs.  The status is not
\* looked at again.  The captured session stays, if it is still there.
HandleChangePassword(r, pw) ==
    /\ Answered(r)
    /\ LET u == waiting[r].user
           kept == waiting[r].token
           made == IF kept \in Live THEN [madeWith EXCEPT ![kept] = pw] ELSE madeWith
       IN  /\ HasRow(u) /\ password[u] \notin {NoPassword, pw}
           /\ password' = [password EXCEPT ![u] = pw]
           /\ \/ EndSessions(SessionsOf(u) \ {kept}, made)
              \/ CleanUpMayFail /\ Overlook(SessionsOf(u))
    /\ UNCHANGED <<status, approved, keyTable, refused>>

\* A handler that reads, changes the profile only, or refuses.
HandleOther(r) ==
    /\ Answered(r)
    /\ UNCHANGED <<userTable, keyTable, sessionTable, refused>>

\* The process stops: the requests are lost, the tables stay.
Stop ==
    /\ \E r \in Requests : waiting[r] # Idle
    /\ waiting' = [r \in Requests |-> Idle]
    /\ UNCHANGED <<userTable, keyTable, sessionTable, refused>>

-----------------------------------------------------------------------------
Init ==
    /\ status = [u \in Users |-> "none"]
    /\ password = [u \in Users |-> NoPassword] /\ approved = {}
    /\ owner = [k \in Keys |-> Fresh] /\ off = {} /\ revoked = {}
    /\ holder = [t \in Tokens |-> Fresh]
    /\ madeWith = [t \in Tokens |-> NoPassword]
    /\ expired = {} /\ loose = {} /\ refused = {}
    /\ waiting = [r \in Requests |-> Idle]

Administer(u) ==
    \/ \E st \in Statuses, pw \in Passwords \cup {NoPassword} : CreateUser(u, st, pw)
    \/ \E pw \in Passwords : Register(u, pw)
    \/ \E st \in Statuses, pw \in Passwords \cup {password[u]} :
        PatchUser(u, st, pw) \/ PatchUserRejected(u, st, pw)
    \/ \E pw \in Passwords : ResetPassword(u, pw)
    \/ DeleteUser(u)
    \/ \E k \in Keys : CreateKey(u, k)

Sign ==
    \E t \in Tokens :
        \/ \E u \in Users : LogIn(u, t)
        \/ LogOut(t) \/ Expire(t) \/ RefuseSession(t)
        \/ \E r \in Requests : Resolve(r, t)

Handle(r) ==
    \/ \E k \in Keys : HandleCreateKey(r, k) \/ HandleRevokeKey(r, k)
    \/ \E pw \in Passwords : HandleChangePassword(r, pw)
    \/ HandleOther(r)

Next ==
    \/ \E u \in Users : Administer(u)
    \/ \E k \in Keys : RevokeKey(k) \/ DisableKey(k) \/ EnableKey(k)
    \/ Sign
    \/ \E r \in Requests : Handle(r)
    \/ PurgeExpired
    \/ Stop

Spec == Init /\ [][Next]_vars

-----------------------------------------------------------------------------
TypeOK ==
    /\ status \in [Users -> Statuses \cup {"none", "deleted"}]
    /\ password \in [Users -> Passwords \cup {NoPassword}]
    /\ approved \subseteq Users
    /\ owner \in [Keys -> Users \cup {Fresh, Gone}]
    /\ off \subseteq Keys /\ revoked \subseteq Keys
    /\ holder \in [Tokens -> Users \cup {Fresh, Gone}]
    /\ madeWith \in [Tokens -> Passwords \cup {NoPassword}]
    /\ expired \subseteq Live /\ loose \subseteq Live /\ refused \subseteq Tokens
    /\ \A t \in Live : madeWith[t] \in Passwords
    /\ waiting \in [Requests -> [token : Tokens, user : Users] \cup {Idle}]

(***************************************************************************)
(* A key or a session belongs to a user whose row is there and that an     *)
(* operator made active once: nothing is handed out before the approval,   *)
(* and nothing outlives the user (create_api_key and create_session check  *)
(* the status, also for a portal request whose user was disabled or        *)
(* deleted since the middleware; delete_user cascades).                    *)
(***************************************************************************)
RowsHaveApprovedUsers ==
    /\ approved \subseteq {u \in Users : HasRow(u)}
    /\ \A k \in Keys : owner[k] \in Users => owner[k] \in approved
    /\ \A t \in Live : holder[t] \in approved

(***************************************************************************)
(* Apart from the sessions a clean-up missed, a session has an active user *)
(* and was proved with the password the user has now: disabling an account *)
(* and changing its password end the other sessions (admin_patch_user,     *)
(* admin_reset_password, change_password with the session it keeps).       *)
(***************************************************************************)
SessionsFollowAccounts ==
    \A t \in Live \ loose :
        status[holder[t]] = "active" /\ madeWith[t] = password[holder[t]]

(***************************************************************************)
(* A token the store refused once is refused for ever, also when its user  *)
(* is made active again: get_session deletes the row it refuses.           *)
(***************************************************************************)
RefusedStaysRefused == \A t \in refused : ~Valid(t)

(***************************************************************************)
(* A revoked key stays revoked and disabled while its row exists, whatever *)
(* is done to the key or its user later (revoke_key, set_key_enabled).     *)
(***************************************************************************)
RevocationIsFinal ==
    [][\A k \in revoked : owner'[k] \in Users => k \in revoked' \cap off']_vars

(***************************************************************************)
(* A portal request that is answered has changed rows of the user it was   *)
(* let in for and of nobody else, even when that user lost the session or  *)
(* the account while the request waited (me_create_key, me_revoke_key,     *)
(* me_change_password).                                                    *)
(***************************************************************************)
PortalActsForItsUser ==
    [][\A r \in Requests :
        waiting[r] # Idle /\ waiting'[r] = Idle =>
            LET u == waiting[r].user
            IN  /\ \A v \in Users \ {u} :
                    password'[v] = password[v] /\ status'[v] = status[v]
                /\ \A k \in Keys \ KeysOf(u) : owner'[k] \in {owner[k], u}
                /\ \A k \in (off' \ off) \cup (revoked' \ revoked) : owner[k] = u
                /\ \A t \in Tokens \ SessionsOf(u) : holder'[t] = holder[t]]_vars

(***************************************************************************)
(* "Invalidate sessions when the account is no longer active"              *)
(* (admin_patch_user, app.py:1264).                                        *)
(***************************************************************************)
InactiveHaveNoSessions == \A t \in Live : status[holder[t]] = "active"
=============================================================================
