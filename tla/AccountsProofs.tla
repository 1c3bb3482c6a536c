--------------------------- MODULE AccountsProofs ---------------------------
(***************************************************************************)
(* Proofs about Accounts, for any number of users, keys, sessions and      *)
(* portal requests.                                                        *)
(***************************************************************************)
EXTENDS Accounts, TLAPS

USE NamesDiffer

-----------------------------------------------------------------------------
(* Types *)

(***************************************************************************)
(* Deleting sessions keeps the session table well-formed (EndSessions, the *)
(* DELETEs of users.py), whatever password the kept ones are proved with.  *)
(***************************************************************************)
LEMMA EndSessionsTyped ==
    ASSUME TypeOK, NEW S \in SUBSET Tokens,
           NEW made \in [Tokens -> Passwords \cup {NoPassword}],
           \A t \in Live : made[t] \in Passwords,
           EndSessions(S, made)
    PROVE  /\ holder' \in [Tokens -> Users \cup {Fresh, Gone}]
           /\ madeWith' \in [Tokens -> Passwords \cup {NoPassword}]
           /\ expired' \subseteq Live' /\ loose' \subseteq Live'
           /\ \A t \in Live' : madeWith'[t] \in Passwords
  BY DEF TypeOK, Live, EndSessions

(***************************************************************************)
(* So does leaving sessions that should have gone (a missed clean-up).     *)
(***************************************************************************)
LEMMA OverlookTyped ==
    ASSUME TypeOK, NEW S \in SUBSET Live, Overlook(S)
    PROVE  /\ holder' \in [Tokens -> Users \cup {Fresh, Gone}]
           /\ madeWith' \in [Tokens -> Passwords \cup {NoPassword}]
           /\ expired' \subseteq Live' /\ loose' \subseteq Live'
           /\ \A t \in Live' : madeWith'[t] \in Passwords
  BY DEF Overlook, TypeOK, Live

(***************************************************************************)
(* The same of a clean-up that may be missed (delete_sessions_for_user).   *)
(***************************************************************************)
LEMMA CleanUpTyped ==
    ASSUME TypeOK, NEW u \in Users, CleanUp(u)
    PROVE  /\ holder' \in [Tokens -> Users \cup {Fresh, Gone}]
           /\ madeWith' \in [Tokens -> Passwords \cup {NoPassword}]
           /\ expired' \subseteq Live' /\ loose' \subseteq Live'
           /\ \A t \in Live' : madeWith'[t] \in Passwords
  <1>1. CASE EndSessions(SessionsOf(u), madeWith)
    <2>1. /\ SessionsOf(u) \in SUBSET Tokens
          /\ madeWith \in [Tokens -> Passwords \cup {NoPassword}]
          /\ \A t \in Live : madeWith[t] \in Passwords
      BY DEF TypeOK, SessionsOf
    <2> QED BY <1>1, <2>1, EndSessionsTyped
  <1>2. CASE Overlook(SessionsOf(u))
    BY <1>2, OverlookTyped DEF SessionsOf, Live
  <1> QED BY <1>1, <1>2 DEF CleanUp

(***************************************************************************)
(* Every operation on the tables keeps their types.                        *)
(***************************************************************************)
LEMMA TypeStep == TypeOK /\ [Next]_vars => TypeOK'
  <1> SUFFICES ASSUME TypeOK, [Next]_vars PROVE TypeOK'
    OBVIOUS
  <1>0. /\ madeWith \in [Tokens -> Passwords \cup {NoPassword}]
        /\ \A t \in Live : madeWith[t] \in Passwords
    BY DEF TypeOK
  <1>1. ASSUME NEW u \in Users, NEW st \in Statuses,
               NEW pw \in Passwords \cup {NoPassword}, CreateUser(u, st, pw)
        PROVE  TypeOK'
    BY <1>1 DEF CreateUser, TypeOK, Live, keyTable, sessionTable
  <1>2. ASSUME NEW u \in Users, NEW st \in Statuses,
               NEW pw \in Passwords \cup {password[u]}, SetAccount(u, st, pw)
        PROVE  /\ status' \in [Users -> Statuses \cup {"none", "deleted"}]
               /\ password' \in [Users -> Passwords \cup {NoPassword}]
               /\ approved' \subseteq Users
    BY <1>2 DEF SetAccount, TypeOK
  <1>3. ASSUME NEW u \in Users, NEW st \in Statuses,
               NEW pw \in Passwords \cup {password[u]},
               PatchUser(u, st, pw) \/ PatchUserRejected(u, st, pw)
        PROVE  TypeOK'
    <2>1. SetAccount(u, st, pw) /\ UNCHANGED <<keyTable, refused, waiting>>
      BY <1>3 DEF PatchUser, PatchUserRejected
    <2>2. CleanUp(u) \/ Overlook(Outdated(u, st, pw))
      BY <1>3 DEF PatchUser, PatchUserRejected
    <2>3. /\ holder' \in [Tokens -> Users \cup {Fresh, Gone}]
          /\ madeWith' \in [Tokens -> Passwords \cup {NoPassword}]
          /\ expired' \subseteq Live' /\ loose' \subseteq Live'
          /\ \A t \in Live' : madeWith'[t] \in Passwords
      <3>1. CASE CleanUp(u)
        BY <3>1, CleanUpTyped
      <3>2. CASE Overlook(Outdated(u, st, pw))
        BY <3>2, OverlookTyped DEF Outdated, SessionsOf, Live
      <3> QED BY <2>2, <3>1, <3>2
    <2> QED BY <1>2, <2>1, <2>3 DEF TypeOK, keyTable
  <1>4. ASSUME NEW u \in Users, NEW pw \in Passwords, ResetPassword(u, pw)
        PROVE  TypeOK'
    <2>1. SetAccount(u, status[u], pw) /\ status[u] \in Statuses
      BY <1>4 DEF ResetPassword, SetAccount, HasRow
    <2>2. CleanUp(u) /\ UNCHANGED <<keyTable, refused, waiting>>
      BY <1>4 DEF ResetPassword
    <2> QED BY <1>2, <2>1, <2>2, CleanUpTyped DEF TypeOK, keyTable
  <1>5. ASSUME NEW u \in Users, DeleteUser(u)
        PROVE  TypeOK'
    <2>1. EndSessions(SessionsOf(u), madeWith) /\ SessionsOf(u) \in SUBSET Tokens
      BY <1>5 DEF DeleteUser, SessionsOf
    <2>2. /\ holder' \in [Tokens -> Users \cup {Fresh, Gone}]
          /\ madeWith' \in [Tokens -> Passwords \cup {NoPassword}]
          /\ expired' \subseteq Live' /\ loose' \subseteq Live'
          /\ \A t \in Live' : madeWith'[t] \in Passwords
      BY <1>0, <2>1, EndSessionsTyped
    <2> QED BY <1>5, <2>2 DEF DeleteUser, TypeOK
  <1>6. ASSUME NEW u \in Users, NEW k \in Keys, IssueKey(u, k),
               waiting' \in [Requests -> [token : Tokens, user : Users] \cup {Idle}]
        PROVE  TypeOK'
    BY <1>6 DEF IssueKey, TypeOK, Live, userTable, sessionTable
  <1>7. ASSUME NEW k \in Keys, Revoke(k),
               waiting' \in [Requests -> [token : Tokens, user : Users] \cup {Idle}]
        PROVE  TypeOK'
    BY <1>7 DEF Revoke, TypeOK, Live, userTable, sessionTable
  <1>8. ASSUME NEW k \in Keys, DisableKey(k) \/ EnableKey(k)
        PROVE  TypeOK'
    BY <1>8 DEF DisableKey, EnableKey, TypeOK, Live, userTable, sessionTable
  <1>9. ASSUME NEW u \in Users, NEW t \in Tokens, LogIn(u, t)
        PROVE  TypeOK'
    BY <1>9 DEF LogIn, CanLogIn, TypeOK, Live, userTable, keyTable
  <1>10. ASSUME NEW S \in SUBSET Tokens, EndSessions(S, madeWith),
                UNCHANGED <<userTable, keyTable, waiting>>, refused' \subseteq Tokens
         PROVE  TypeOK'
    <2>1. /\ holder' \in [Tokens -> Users \cup {Fresh, Gone}]
          /\ madeWith' \in [Tokens -> Passwords \cup {NoPassword}]
          /\ expired' \subseteq Live' /\ loose' \subseteq Live'
          /\ \A t \in Live' : madeWith'[t] \in Passwords
      BY <1>0, <1>10, EndSessionsTyped
    <2> QED BY <1>10, <2>1 DEF TypeOK, userTable, keyTable
  <1>11. ASSUME NEW t \in Tokens, Expire(t)
         PROVE  TypeOK'
    BY <1>11 DEF Expire, TypeOK, Live, userTable, keyTable
  <1>12. ASSUME NEW r \in Requests, NEW t \in Tokens, Resolve(r, t)
         PROVE  TypeOK'
    <2>1. [token |-> t, user |-> holder[t]] \in [token : Tokens, user : Users]
      BY <1>12 DEF Resolve, Valid, Live
    <2> QED BY <1>12, <2>1 DEF Resolve, TypeOK, Live, userTable, keyTable, sessionTable
  <1>13. ASSUME NEW r \in Requests, Answered(r)
         PROVE  /\ waiting[r].token \in Tokens /\ waiting[r].user \in Users
                /\ waiting' \in [Requests -> [token : Tokens, user : Users] \cup {Idle}]
    BY <1>13 DEF Answered, TypeOK
  <1>14. ASSUME NEW r \in Requests, NEW pw \in Passwords, HandleChangePassword(r, pw)
         PROVE  TypeOK'
    <2> DEFINE u == waiting[r].user
               kept == waiting[r].token
               made == IF kept \in Live THEN [madeWith EXCEPT ![kept] = pw] ELSE madeWith
    <2>1. u \in Users /\ kept \in Tokens /\ SessionsOf(u) \ {kept} \in SUBSET Tokens
      BY <1>13, <1>14 DEF HandleChangePassword, SessionsOf
    <2>2. /\ made \in [Tokens -> Passwords \cup {NoPassword}]
          /\ \A t \in Live : made[t] \in Passwords
      BY <1>0, <2>1
    <2>3. EndSessions(SessionsOf(u) \ {kept}, made) \/ Overlook(SessionsOf(u))
      BY <1>14 DEF HandleChangePassword
    <2>4. SessionsOf(u) \in SUBSET Live
      BY <2>1 DEF SessionsOf, Live
    <2>5. /\ holder' \in [Tokens -> Users \cup {Fresh, Gone}]
          /\ madeWith' \in [Tokens -> Passwords \cup {NoPassword}]
          /\ expired' \subseteq Live' /\ loose' \subseteq Live'
          /\ \A t \in Live' : madeWith'[t] \in Passwords
      <3> HIDE DEF made
      <3>1. CASE EndSessions(SessionsOf(u) \ {kept}, made)
        BY <2>1, <2>2, <3>1, EndSessionsTyped
      <3>2. CASE Overlook(SessionsOf(u))
        BY <2>1, <2>4, <3>2, OverlookTyped
      <3> QED BY <2>3, <3>1, <3>2
    <2>6. /\ password' = [password EXCEPT ![u] = pw]
          /\ UNCHANGED <<status, approved, keyTable, refused>>
      BY <1>14 DEF HandleChangePassword
    <2>7. waiting' \in [Requests -> [token : Tokens, user : Users] \cup {Idle}]
      BY <1>13, <1>14 DEF HandleChangePassword
    <2> QED BY <2>1, <2>5, <2>6, <2>7 DEF TypeOK, keyTable
  <1>15. ASSUME NEW r \in Requests, HandleOther(r) \/ Stop
         PROVE  TypeOK'
    BY <1>13, <1>15 DEF HandleOther, Stop, TypeOK, Live, userTable, keyTable, sessionTable
  <1>16. CASE UNCHANGED vars
    BY <1>16 DEF TypeOK, Live, vars, userTable, keyTable, sessionTable
  <1>17. ASSUME NEW u \in Users, Administer(u)
         PROVE  TypeOK'
    <2>1. ASSUME NEW k \in Keys, CreateKey(u, k) PROVE TypeOK'
      BY <1>6, <2>1 DEF CreateKey, TypeOK
    <2> QED BY <1>1, <1>3, <1>4, <1>5, <1>17, <2>1 DEF Administer, Register, Statuses
  <1>18. CASE Sign
    <2>1. ASSUME NEW t \in Tokens, LogOut(t) \/ RefuseSession(t) PROVE TypeOK'
      BY <1>10, <2>1 DEF LogOut, RefuseSession, TypeOK
    <2> QED BY <1>9, <1>11, <1>12, <1>18, <2>1 DEF Sign
  <1>19. ASSUME NEW r \in Requests, Handle(r)
         PROVE  TypeOK'
    BY <1>6, <1>7, <1>13, <1>14, <1>15, <1>19 DEF Handle, HandleCreateKey, HandleRevokeKey
  <1>20. CASE PurgeExpired
    BY <1>10, <1>20 DEF PurgeExpired, TypeOK, Live
  <1>21. ASSUME NEW k \in Keys, RevokeKey(k)
         PROVE  TypeOK'
    BY <1>7, <1>21 DEF RevokeKey, TypeOK
  <1>22. CASE Stop
    BY <1>22 DEF Stop, TypeOK, Live, userTable, keyTable, sessionTable
  <1> QED BY <1>8, <1>16, <1>17, <1>18, <1>19, <1>20, <1>21, <1>22 DEF Next

(***************************************************************************)
(* The tables and the captured sessions have their types in every state.   *)
(***************************************************************************)
THEOREM TypeCorrect == Spec => []TypeOK
  <1>1. Init => TypeOK
    BY DEF Init, TypeOK, Live
  <1> QED BY <1>1, TypeStep, PTL DEF Spec

-----------------------------------------------------------------------------
(* Rows and their users *)

\* No user is active that was not approved.
ActiveApproved == \A u \in Users : status[u] = "active" => u \in approved

RowsInv == RowsHaveApprovedUsers /\ ActiveApproved

\* Neither a clean-up nor a missed one gives a session to anybody.
HoldersOnlyLose == \A t \in Tokens : holder'[t] \in {holder[t], Gone}

(***************************************************************************)
(* What the deletions of sessions, done or missed, do to their holders.    *)
(***************************************************************************)
LEMMA CleanUpsOnlyEnd ==
    /\ \A S, made : EndSessions(S, made) => HoldersOnlyLose
    /\ \A S : Overlook(S) => HoldersOnlyLose
    /\ \A u : CleanUp(u) => HoldersOnlyLose
  BY DEF EndSessions, Overlook, CleanUp, HoldersOnlyLose

(***************************************************************************)
(* A handler that changes no user and no owner of a key, and gives nobody  *)
(* a session, keeps the rows with their users.                             *)
(***************************************************************************)
LEMMA RowsKept ==
    ASSUME TypeOK, RowsInv, HoldersOnlyLose, UNCHANGED <<status, approved, owner>>
    PROVE  RowsInv'
  BY DEF TypeOK, RowsInv, RowsHaveApprovedUsers, ActiveApproved, HoldersOnlyLose, HasRow, Live

(***************************************************************************)
(* Changing a status or a password keeps the rows with their users.        *)
(***************************************************************************)
LEMMA RowsKeptBySetAccount ==
    ASSUME TypeOK, RowsInv, HoldersOnlyLose, UNCHANGED owner,
           NEW u \in Users, NEW st \in Statuses, NEW pw, SetAccount(u, st, pw)
    PROVE  RowsInv'
  BY DEF TypeOK, RowsInv, RowsHaveApprovedUsers, ActiveApproved, HoldersOnlyLose, HasRow, Live,
         SetAccount

(***************************************************************************)
(* Every step keeps rows with approved users.                              *)
(***************************************************************************)
LEMMA RowsStep == TypeOK /\ RowsInv /\ [Next]_vars => RowsInv'
  <1> SUFFICES ASSUME TypeOK, RowsInv, [Next]_vars PROVE RowsInv'
    OBVIOUS
  <1>0. UNCHANGED holder => HoldersOnlyLose
    BY DEF HoldersOnlyLose
  <1>1. ASSUME NEW u \in Users, NEW st \in Statuses, NEW pw, CreateUser(u, st, pw)
        PROVE  RowsInv'
    BY <1>1 DEF CreateUser, TypeOK, RowsInv, RowsHaveApprovedUsers, ActiveApproved, HasRow, Live,
                Statuses, keyTable, sessionTable
  <1>2. ASSUME NEW u \in Users, NEW st \in Statuses, NEW pw,
               PatchUser(u, st, pw) \/ PatchUserRejected(u, st, pw)
        PROVE  RowsInv'
    <2>1. SetAccount(u, st, pw) /\ UNCHANGED owner
      BY <1>2 DEF PatchUser, PatchUserRejected, keyTable
    <2>2. HoldersOnlyLose
      BY <1>2, CleanUpsOnlyEnd DEF PatchUser, PatchUserRejected
    <2> QED BY <2>1, <2>2, RowsKeptBySetAccount
  <1>3. ASSUME NEW u \in Users, NEW pw, ResetPassword(u, pw)
        PROVE  RowsInv'
    <2>1. SetAccount(u, status[u], pw) /\ status[u] \in Statuses /\ UNCHANGED owner
      BY <1>3 DEF ResetPassword, SetAccount, HasRow, keyTable
    <2>2. HoldersOnlyLose
      BY <1>3, CleanUpsOnlyEnd DEF ResetPassword
    <2> QED BY <2>1, <2>2, RowsKeptBySetAccount
  <1>4. ASSUME NEW u \in Users, DeleteUser(u)
        PROVE  RowsInv'
    BY <1>4 DEF DeleteUser, EndSessions, SessionsOf, TypeOK, RowsInv, RowsHaveApprovedUsers,
                ActiveApproved, HasRow, Live, Statuses
  <1>5. ASSUME NEW u \in Users, NEW k \in Keys, IssueKey(u, k)
        PROVE  RowsInv'
    BY <1>5 DEF IssueKey, TypeOK, RowsInv, RowsHaveApprovedUsers, ActiveApproved, HasRow, Live,
                userTable, sessionTable
  <1>6. ASSUME NEW k \in Keys, Revoke(k) \/ DisableKey(k) \/ EnableKey(k)
        PROVE  RowsInv'
    BY <1>0, <1>6, RowsKept DEF Revoke, DisableKey, EnableKey, userTable, sessionTable
  <1>7. ASSUME NEW u \in Users, NEW t \in Tokens, LogIn(u, t)
        PROVE  RowsInv'
    BY <1>7 DEF LogIn, CanLogIn, TypeOK, RowsInv, RowsHaveApprovedUsers, ActiveApproved, HasRow,
                Live, userTable, keyTable
  <1>8. ASSUME NEW t \in Tokens, LogOut(t) \/ RefuseSession(t) \/ Expire(t)
        PROVE  RowsInv'
    BY <1>0, <1>8, CleanUpsOnlyEnd, RowsKept DEF LogOut, RefuseSession, Expire, userTable, keyTable
  <1>9. ASSUME NEW r \in Requests, NEW pw \in Passwords, HandleChangePassword(r, pw)
        PROVE  RowsInv'
    <2>1. HoldersOnlyLose
      BY <1>9, CleanUpsOnlyEnd DEF HandleChangePassword
    <2> QED BY <1>9, <2>1, RowsKept DEF HandleChangePassword, keyTable
  <1>10. CASE PurgeExpired
    BY <1>10, CleanUpsOnlyEnd, RowsKept DEF PurgeExpired, userTable, keyTable
  <1>11. ASSUME UNCHANGED <<userTable, keyTable, sessionTable>>
         PROVE  RowsInv'
    BY <1>0, <1>11, RowsKept DEF userTable, keyTable, sessionTable
  <1>12. ASSUME NEW u \in Users, Administer(u)
         PROVE  RowsInv'
    BY <1>1, <1>2, <1>3, <1>4, <1>5, <1>12 DEF Administer, Register, CreateKey, Statuses
  <1>13. CASE Sign
    BY <1>7, <1>8, <1>11, <1>13 DEF Sign, Resolve
  <1>14. ASSUME NEW r \in Requests, Handle(r)
         PROVE  RowsInv'
    <2>1. CASE HandleOther(r)
      BY <1>11, <2>1 DEF HandleOther
    <2>2. waiting[r] # Idle => waiting[r].user \in Users
      BY DEF TypeOK
    <2> QED BY <1>5, <1>6, <1>9, <1>14, <2>1, <2>2
            DEF Handle, HandleCreateKey, HandleRevokeKey, Answered
  <1>15. CASE Stop \/ UNCHANGED vars
    BY <1>11, <1>15 DEF Stop, vars
  <1> QED BY <1>6, <1>10, <1>12, <1>13, <1>14, <1>15 DEF Next, RevokeKey

(***************************************************************************)
(* Nothing is handed out before the approval, nothing outlives the user.   *)
(***************************************************************************)
THEOREM RowsApproved == Spec => []RowsHaveApprovedUsers
  <1>1. Init => RowsInv
    BY DEF Init, RowsInv, RowsHaveApprovedUsers, ActiveApproved, Live
  <1>2. RowsInv => RowsHaveApprovedUsers
    BY DEF RowsInv
  <1> QED BY <1>1, <1>2, RowsStep, TypeCorrect, PTL DEF Spec

-----------------------------------------------------------------------------
(* Sessions *)

\* A request's session is still of the user it was captured for, or gone.
CapturedSessions ==
    \A r \in Requests :
        waiting[r] # Idle => holder[waiting[r].token] \in {waiting[r].user, Gone}

\* What the store refused has no row.
RefusedAreGone == \A t \in refused : holder[t] = Gone

\* A session has one holder in its life: it is made once and ends once.
HoldersStep ==
    \A t \in Tokens : holder'[t] \in {holder[t], Gone} \/ holder[t] = Fresh

(***************************************************************************)
(* No handler gives a session to another user or brings one back.          *)
(***************************************************************************)
LEMMA HoldersChangeOnce == TypeOK /\ [Next]_vars => HoldersStep
  <1> SUFFICES ASSUME TypeOK, [Next]_vars PROVE HoldersStep
    OBVIOUS
  <1>1. HoldersOnlyLose => HoldersStep
    BY DEF HoldersOnlyLose, HoldersStep
  <1>2. UNCHANGED holder => HoldersStep
    BY DEF HoldersStep
  <1>3. ASSUME NEW u \in Users, Administer(u)
        PROVE  HoldersStep
    <2>1. CASE HoldersOnlyLose
      BY <1>1, <2>1
    <2>2. CASE UNCHANGED sessionTable
      BY <1>2, <2>2 DEF sessionTable
    <2> QED
      BY <1>3, <2>1, <2>2, CleanUpsOnlyEnd
      DEF Administer, Register, CreateUser, PatchUser, PatchUserRejected, ResetPassword, DeleteUser,
          CreateKey, IssueKey
  <1>4. CASE Sign
    <2>1. ASSUME NEW u \in Users, NEW t \in Tokens, LogIn(u, t) PROVE HoldersStep
      BY <2>1 DEF LogIn, HoldersStep, TypeOK
    <2> QED
      BY <1>1, <1>2, <1>4, <2>1, CleanUpsOnlyEnd
      DEF Sign, LogOut, Expire, RefuseSession, Resolve, sessionTable
  <1>5. ASSUME NEW r \in Requests, Handle(r)
        PROVE  HoldersStep
    BY <1>1, <1>2, <1>5, CleanUpsOnlyEnd
    DEF Handle, HandleCreateKey, IssueKey, HandleRevokeKey, Revoke, HandleChangePassword,
        HandleOther, sessionTable
  <1> QED
    BY <1>1, <1>2, <1>3, <1>4, <1>5, CleanUpsOnlyEnd
    DEF Next, RevokeKey, Revoke, DisableKey, EnableKey, PurgeExpired, Stop, vars, sessionTable

(***************************************************************************)
(* Captured sessions keep their user while the request waits.              *)
(***************************************************************************)
LEMMA CapturedStep == TypeOK /\ CapturedSessions /\ [Next]_vars => CapturedSessions'
  <1> SUFFICES ASSUME TypeOK, CapturedSessions, [Next]_vars, NEW r \in Requests,
                      waiting'[r] # Idle
               PROVE  holder'[waiting'[r].token] \in {waiting'[r].user, Gone}
    BY DEF CapturedSessions
  <1>1. HoldersStep
    BY HoldersChangeOnce
  <1>2. CASE waiting'[r] = waiting[r]
    <2>1. waiting[r].token \in Tokens /\ waiting[r].user \in Users
      BY <1>2 DEF TypeOK
    <2> QED BY <1>1, <1>2, <2>1 DEF CapturedSessions, HoldersStep
  <1>3. ASSUME NEW q \in Requests, NEW t \in Tokens, Resolve(q, t)
        PROVE  holder'[waiting'[r].token] \in {waiting'[r].user, Gone}
    <2>1. CASE r = q
      BY <1>3, <2>1 DEF Resolve, TypeOK, sessionTable
    <2>2. CASE r # q
      BY <1>2, <1>3, <2>2 DEF Resolve, TypeOK
    <2> QED BY <2>1, <2>2
  <1>4. ASSUME NEW q \in Requests, Handle(q)
        PROVE  waiting'[r] = waiting[r]
    BY <1>4 DEF Handle, HandleCreateKey, HandleRevokeKey, HandleChangePassword, HandleOther,
                Answered, TypeOK
  <1>5. CASE UNCHANGED waiting
    BY <1>2, <1>5
  <1>6. ~Stop
    BY DEF Stop
  <1>7. ASSUME NEW u \in Users, Administer(u)
        PROVE  UNCHANGED waiting
    BY <1>7 DEF Administer, Register, CreateUser, PatchUser, PatchUserRejected, ResetPassword,
                DeleteUser, CreateKey
  <1>8. CASE Sign
    BY <1>3, <1>5, <1>8 DEF Sign, LogIn, LogOut, Expire, RefuseSession
  <1> QED
    BY <1>2, <1>4, <1>5, <1>6, <1>7, <1>8
    DEF Next, RevokeKey, DisableKey, EnableKey, PurgeExpired, vars

(***************************************************************************)
(* A refused token has no row and gets none.                               *)
(***************************************************************************)
LEMMA RefusedStep == TypeOK /\ RefusedAreGone /\ [Next]_vars => RefusedAreGone'
  <1> SUFFICES ASSUME TypeOK, RefusedAreGone, [Next]_vars PROVE RefusedAreGone'
    OBVIOUS
  <1>1. HoldersStep
    BY HoldersChangeOnce
  <1>2. CASE UNCHANGED refused
    BY <1>1, <1>2 DEF RefusedAreGone, HoldersStep, TypeOK
  <1>3. ASSUME NEW t \in Tokens, RefuseSession(t)
        PROVE  RefusedAreGone'
    <2>1. holder'[t] = Gone
      BY <1>3 DEF RefuseSession, EndSessions, Live, TypeOK
    <2> QED BY <1>1, <1>3, <2>1 DEF RefuseSession, RefusedAreGone, HoldersStep, TypeOK
  <1>4. ASSUME NEW u \in Users, Administer(u)
        PROVE  UNCHANGED refused
    BY <1>4 DEF Administer, Register, CreateUser, PatchUser, PatchUserRejected, ResetPassword,
                DeleteUser, CreateKey, IssueKey
  <1>5. ASSUME NEW r \in Requests, Handle(r)
        PROVE  UNCHANGED refused
    BY <1>5 DEF Handle, HandleCreateKey, IssueKey, HandleRevokeKey, Revoke, HandleChangePassword,
                HandleOther
  <1>6. CASE Sign
    BY <1>2, <1>3, <1>6 DEF Sign, LogIn, LogOut, Expire, Resolve
  <1> QED
    BY <1>2, <1>4, <1>5, <1>6
    DEF Next, RevokeKey, Revoke, DisableKey, EnableKey, PurgeExpired, Stop, vars

(***************************************************************************)
(* A token refused once is refused for ever.                               *)
(***************************************************************************)
THEOREM RefusedStays == Spec => []RefusedStaysRefused
  <1>1. Init => RefusedAreGone
    BY DEF Init, RefusedAreGone
  <1>2. TypeOK /\ RefusedAreGone => RefusedStaysRefused
    BY DEF RefusedAreGone, RefusedStaysRefused, Valid, Live
  <1> QED BY <1>1, <1>2, RefusedStep, TypeCorrect, PTL DEF Spec

-----------------------------------------------------------------------------
(* Sessions and the state of their accounts *)

SessionInv == SessionsFollowAccounts /\ CapturedSessions

(***************************************************************************)
(* Deleting sessions, whichever, keeps those that stay in step with their  *)
(* accounts.                                                               *)
(***************************************************************************)
LEMMA EndKeepsOthers ==
    ASSUME TypeOK, SessionsFollowAccounts, UNCHANGED <<status, password>>,
           NEW S, EndSessions(S, madeWith)
    PROVE  SessionsFollowAccounts'
  BY DEF TypeOK, SessionsFollowAccounts, EndSessions, Live

(***************************************************************************)
(* A change of an account ends its sessions, leaves them marked as loose,  *)
(* or leaves the account active with the password it had.                  *)
(***************************************************************************)
LEMMA AccountChange ==
    ASSUME TypeOK, SessionsFollowAccounts, NEW u \in Users, NEW st \in Statuses,
           NEW pw, SetAccount(u, st, pw), CleanUp(u) \/ Overlook(Outdated(u, st, pw))
    PROVE  SessionsFollowAccounts'
  <1> SUFFICES ASSUME NEW t \in Tokens, holder'[t] \in Users, t \notin loose'
               PROVE  status'[holder'[t]] = "active" /\ madeWith'[t] = password'[holder'[t]]
    BY DEF SessionsFollowAccounts, Live
  <1>1. CASE EndSessions(SessionsOf(u), madeWith)
    BY <1>1 DEF EndSessions, SessionsOf, SetAccount, TypeOK, SessionsFollowAccounts, Live
  <1>2. ASSUME NEW S, Overlook(S), S = SessionsOf(u)
        PROVE  status'[holder'[t]] = "active" /\ madeWith'[t] = password'[holder'[t]]
    BY <1>2 DEF Overlook, SessionsOf, SetAccount, TypeOK, SessionsFollowAccounts, Live
  <1>3. CASE Overlook({}) /\ st = "active" /\ pw = password[u]
    BY <1>3 DEF Overlook, SetAccount, TypeOK, SessionsFollowAccounts, Live
  <1> QED BY <1>1, <1>2, <1>3 DEF CleanUp, Outdated

(***************************************************************************)
(* A self-service password change keeps its own session, now proved with   *)
(* the new password, and ends the user's others.                           *)
(***************************************************************************)
LEMMA PasswordChange ==
    ASSUME TypeOK, SessionInv, NEW r \in Requests, NEW pw \in Passwords,
           HandleChangePassword(r, pw)
    PROVE  SessionsFollowAccounts'
  <1> DEFINE u == waiting[r].user
             kept == waiting[r].token
             made == IF kept \in Live THEN [madeWith EXCEPT ![kept] = pw] ELSE madeWith
  <1>1. /\ u \in Users /\ kept \in Tokens
        /\ holder[kept] \in {u, Gone}
    BY DEF HandleChangePassword, Answered, TypeOK, SessionInv, CapturedSessions
  <1>2. /\ password' = [password EXCEPT ![u] = pw] /\ status' = status
        /\ EndSessions(SessionsOf(u) \ {kept}, made) \/ Overlook(SessionsOf(u))
    BY DEF HandleChangePassword
  <1>3. \A t \in Tokens : /\ t # kept => made[t] = madeWith[t]
                          /\ t = kept /\ t \in Live => made[t] = pw
    BY <1>1 DEF TypeOK
  <1> HIDE DEF u, kept, made
  <1> SUFFICES ASSUME NEW t \in Tokens, holder'[t] \in Users, t \notin loose'
               PROVE  status'[holder'[t]] = "active" /\ madeWith'[t] = password'[holder'[t]]
    BY DEF SessionsFollowAccounts, Live
  <1>4. CASE EndSessions(SessionsOf(u) \ {kept}, made)
    <2>1. t \in Live /\ holder'[t] = holder[t] /\ madeWith'[t] = made[t] /\ t \notin loose
      BY <1>4 DEF EndSessions, Live
    <2>2. status[holder[t]] = "active" /\ madeWith[t] = password[holder[t]]
      BY <2>1 DEF SessionInv, SessionsFollowAccounts
    <2>3. CASE t = kept
      <3>1. holder[t] = u
        BY <1>1, <2>1, <2>3 DEF Live
      <3> QED BY <1>1, <1>2, <1>3, <2>1, <2>2, <2>3, <3>1 DEF TypeOK
    <2>4. CASE t # kept
      <3>1. holder[t] # u
        BY <1>4, <2>1, <2>4 DEF EndSessions, SessionsOf, Live
      <3> QED BY <1>1, <1>2, <1>3, <2>1, <2>2, <2>4, <3>1 DEF TypeOK, Live
    <2> QED BY <2>3, <2>4
  <1>5. CASE Overlook(SessionsOf(u))
    BY <1>1, <1>2, <1>5 DEF Overlook, SessionsOf, TypeOK, SessionInv, SessionsFollowAccounts, Live
  <1> QED BY <1>2, <1>4, <1>5

(***************************************************************************)
(* Every step keeps sessions in step with their accounts.                  *)
(***************************************************************************)
LEMMA SessionsStep ==
    TypeOK /\ RowsInv /\ SessionInv /\ [Next]_vars => SessionsFollowAccounts'
  <1> SUFFICES ASSUME TypeOK, RowsInv, SessionInv, [Next]_vars
               PROVE  SessionsFollowAccounts'
    OBVIOUS
  <1>0. SessionsFollowAccounts
    BY DEF SessionInv
  <1>1. CASE UNCHANGED <<status, password, sessionTable>>
    BY <1>0, <1>1 DEF SessionsFollowAccounts, Live, sessionTable
  <1>2. ASSUME NEW u \in Users, NEW st \in Statuses, NEW pw, CreateUser(u, st, pw)
        PROVE  SessionsFollowAccounts'
    <2>1. \A t \in Live : holder[t] # u
      BY <1>2 DEF CreateUser, RowsInv, RowsHaveApprovedUsers, HasRow, Statuses
    <2> QED BY <1>0, <1>2, <2>1 DEF CreateUser, SessionsFollowAccounts, Live, TypeOK, sessionTable
  <1>3. ASSUME NEW u \in Users, NEW st \in Statuses, NEW pw,
               PatchUser(u, st, pw) \/ PatchUserRejected(u, st, pw)
        PROVE  SessionsFollowAccounts'
    BY <1>0, <1>3, AccountChange DEF PatchUser, PatchUserRejected
  <1>4. ASSUME NEW u \in Users, NEW pw, ResetPassword(u, pw)
        PROVE  SessionsFollowAccounts'
    BY <1>0, <1>4, AccountChange DEF ResetPassword, SetAccount, HasRow
  <1>5. ASSUME NEW u \in Users, DeleteUser(u)
        PROVE  SessionsFollowAccounts'
    BY <1>0, <1>5 DEF DeleteUser, EndSessions, SessionsOf, TypeOK, SessionsFollowAccounts, Live
  <1>6. ASSUME NEW u \in Users, NEW t \in Tokens, LogIn(u, t)
        PROVE  SessionsFollowAccounts'
    BY <1>0, <1>6 DEF LogIn, CanLogIn, TypeOK, SessionsFollowAccounts, Live, userTable
  <1>7. ASSUME NEW t \in Tokens, LogOut(t) \/ RefuseSession(t)
        PROVE  SessionsFollowAccounts'
    BY <1>0, <1>7, EndKeepsOthers DEF LogOut, RefuseSession, userTable
  <1>8. ASSUME NEW t \in Tokens, Expire(t)
        PROVE  SessionsFollowAccounts'
    BY <1>0, <1>8 DEF Expire, SessionsFollowAccounts, Live, userTable
  <1>9. CASE PurgeExpired
    BY <1>0, <1>9, EndKeepsOthers DEF PurgeExpired, userTable
  <1>10. ASSUME NEW u \in Users, Administer(u)
         PROVE  SessionsFollowAccounts'
    <2>1. ASSUME NEW k \in Keys, CreateKey(u, k) PROVE SessionsFollowAccounts'
      BY <1>1, <2>1 DEF CreateKey, IssueKey, userTable
    <2> QED BY <1>2, <1>3, <1>4, <1>5, <1>10, <2>1 DEF Administer, Register, Statuses
  <1>11. CASE Sign
    BY <1>1, <1>6, <1>7, <1>8, <1>11 DEF Sign, Resolve, userTable
  <1>12. ASSUME NEW r \in Requests, Handle(r)
         PROVE  SessionsFollowAccounts'
    BY <1>1, <1>12, PasswordChange
    DEF Handle, HandleCreateKey, IssueKey, HandleRevokeKey, Revoke, HandleOther, userTable
  <1>13. ASSUME NEW k \in Keys, RevokeKey(k) \/ DisableKey(k) \/ EnableKey(k)
         PROVE  SessionsFollowAccounts'
    BY <1>1, <1>13 DEF RevokeKey, Revoke, DisableKey, EnableKey, userTable
  <1>14. CASE Stop \/ UNCHANGED vars
    BY <1>1, <1>14 DEF Stop, vars, userTable
  <1> QED BY <1>9, <1>10, <1>11, <1>12, <1>13, <1>14 DEF Next

(***************************************************************************)
(* Apart from the sessions a clean-up missed, a session has an active user *)
(* and was proved with the user's password.                                *)
(***************************************************************************)
THEOREM SessionsFollow == Spec => []SessionsFollowAccounts
  <1> DEFINE IInv == RowsInv /\ SessionInv
  <1>1. Init => IInv
    BY DEF Init, RowsInv, RowsHaveApprovedUsers, ActiveApproved, SessionInv, CapturedSessions,
           SessionsFollowAccounts, Live
  <1>2. TypeOK /\ IInv /\ [Next]_vars => IInv'
    BY RowsStep, SessionsStep, CapturedStep DEF SessionInv
  <1>3. IInv => SessionsFollowAccounts
    BY DEF SessionInv
  <1> HIDE DEF IInv
  <1> QED BY <1>1, <1>2, <1>3, TypeCorrect, PTL DEF Spec

-----------------------------------------------------------------------------
(* Revocation *)

\* What is revoked is disabled, too.
RevokedAreOff == revoked \subseteq off

(***************************************************************************)
(* No step brings back a revoked key; deleting its user deletes it.        *)
(***************************************************************************)
LEMMA RevokedStep ==
    TypeOK /\ RevokedAreOff /\ [Next]_vars
    => /\ RevokedAreOff'
       /\ \A k \in revoked : owner'[k] \in Users => k \in revoked' \cap off'
  <1> DEFINE Kept == /\ RevokedAreOff'
                     /\ \A k \in revoked : owner'[k] \in Users => k \in revoked' \cap off'
  <1> SUFFICES ASSUME TypeOK, RevokedAreOff, [Next]_vars PROVE Kept
    OBVIOUS
  <1>1. CASE UNCHANGED <<off, revoked>>
    BY <1>1 DEF RevokedAreOff
  <1>2. ASSUME NEW u \in Users, DeleteUser(u)
        PROVE  Kept
    BY <1>2 DEF DeleteUser, KeysOf, RevokedAreOff, TypeOK
  <1>3. ASSUME NEW k \in Keys, Revoke(k) \/ DisableKey(k) \/ EnableKey(k)
        PROVE  Kept
    BY <1>3 DEF Revoke, DisableKey, EnableKey, RevokedAreOff
  <1> HIDE DEF Kept
  <1>4. ASSUME NEW u \in Users, Administer(u)
        PROVE  Kept
    BY <1>1, <1>2, <1>4
    DEF Administer, Register, CreateUser, PatchUser, PatchUserRejected, ResetPassword, CreateKey,
        IssueKey, keyTable
  <1>5. CASE Sign
    BY <1>1, <1>5 DEF Sign, LogIn, LogOut, Expire, RefuseSession, Resolve, keyTable
  <1>6. ASSUME NEW r \in Requests, Handle(r)
        PROVE  Kept
    BY <1>1, <1>3, <1>6
    DEF Handle, HandleCreateKey, IssueKey, HandleRevokeKey, HandleChangePassword, HandleOther,
        keyTable
  <1> QED
    BY <1>1, <1>3, <1>4, <1>5, <1>6 DEF Next, RevokeKey, PurgeExpired, Stop, vars, keyTable

(***************************************************************************)
(* A revoked key stays revoked and disabled while its row exists.          *)
(***************************************************************************)
THEOREM RevocationFinal == Spec => RevocationIsFinal
  <1>1. Init => RevokedAreOff
    BY DEF Init, RevokedAreOff
  <1>2. TypeOK /\ RevokedAreOff /\ [Next]_vars
        => [\A k \in revoked : owner'[k] \in Users => k \in revoked' \cap off']_vars
    BY RevokedStep
  <1> QED BY <1>1, <1>2, RevokedStep, TypeCorrect, PTL DEF Spec, RevocationIsFinal

-----------------------------------------------------------------------------
(* Portal requests *)

\* What changed are rows of u.
OnlyRowsOf(u) ==
    /\ \A v \in Users \ {u} : password'[v] = password[v] /\ status'[v] = status[v]
    /\ \A k \in Keys \ KeysOf(u) : owner'[k] \in {owner[k], u}
    /\ \A k \in (off' \ off) \cup (revoked' \ revoked) : owner[k] = u
    /\ \A t \in Tokens \ SessionsOf(u) : holder'[t] = holder[t]

(***************************************************************************)
(* A handler of the portal changes rows of its session's user only.        *)
(***************************************************************************)
LEMMA HandlersActForTheirUser ==
    ASSUME TypeOK, NEW r \in Requests, Handle(r)
    PROVE  OnlyRowsOf(waiting[r].user)
  <1> DEFINE u == waiting[r].user
  <1>1. u \in Users
    BY DEF Handle, HandleCreateKey, HandleRevokeKey, HandleChangePassword, HandleOther, Answered,
           TypeOK
  <1>2. ASSUME NEW k \in Keys, HandleCreateKey(r, k)
        PROVE  OnlyRowsOf(u)
    BY <1>1, <1>2 DEF HandleCreateKey, IssueKey, OnlyRowsOf, TypeOK, userTable, sessionTable
  <1>3. ASSUME NEW k \in Keys, HandleRevokeKey(r, k)
        PROVE  OnlyRowsOf(u)
    BY <1>3 DEF HandleRevokeKey, Revoke, OnlyRowsOf, userTable, sessionTable
  <1>4. ASSUME NEW pw \in Passwords, HandleChangePassword(r, pw)
        PROVE  OnlyRowsOf(u)
    <2>1. /\ password' = [password EXCEPT ![u] = pw]
          /\ UNCHANGED <<status, owner, off, revoked>>
      BY <1>4 DEF HandleChangePassword, keyTable
    <2>2. \A t \in Tokens \ SessionsOf(u) : holder'[t] = holder[t]
      BY <1>4 DEF HandleChangePassword, EndSessions, Overlook
    <2> QED BY <1>1, <2>1, <2>2 DEF OnlyRowsOf, TypeOK
  <1>5. CASE HandleOther(r)
    BY <1>5 DEF HandleOther, OnlyRowsOf, userTable, keyTable, sessionTable
  <1> QED BY <1>2, <1>3, <1>4, <1>5 DEF Handle

(***************************************************************************)
(* An answered portal request has changed rows of its own user only.       *)
(***************************************************************************)
THEOREM PortalActs == Spec => PortalActsForItsUser
  <1>1. ASSUME TypeOK, [Next]_vars, NEW r \in Requests, waiting[r] # Idle, waiting'[r] = Idle
        PROVE  OnlyRowsOf(waiting[r].user)
    <2>1. CASE Handle(r)
      BY <1>1, <2>1, HandlersActForTheirUser
    <2>2. ASSUME NEW q \in Requests, Handle(q), q # r
          PROVE  FALSE
      BY <1>1, <2>2 DEF Handle, HandleCreateKey, HandleRevokeKey, HandleChangePassword,
                        HandleOther, Answered, TypeOK
    <2>3. CASE Stop
      BY <2>3 DEF Stop, OnlyRowsOf, userTable, keyTable, sessionTable
    <2>4. ASSUME NEW q \in Requests, NEW t \in Tokens, Resolve(q, t)
          PROVE  FALSE
      <3>1. [token |-> t, user |-> holder[t]] # Idle
        BY <2>4 DEF Resolve, Valid, Live
      <3> QED BY <1>1, <2>4, <3>1 DEF Resolve, TypeOK
    <2>5. ~UNCHANGED waiting
      BY <1>1
    <2>6. ASSUME NEW u \in Users, Administer(u)
          PROVE  FALSE
      BY <2>5, <2>6 DEF Administer, Register, CreateUser, PatchUser, PatchUserRejected,
                        ResetPassword, DeleteUser, CreateKey
    <2>7. ~Sign
      BY <2>4, <2>5 DEF Sign, LogIn, LogOut, Expire, RefuseSession
    <2> QED
      BY <1>1, <2>1, <2>2, <2>3, <2>5, <2>6, <2>7
      DEF Next, RevokeKey, DisableKey, EnableKey, PurgeExpired, vars
  <1>2. TypeOK /\ [Next]_vars
        => [\A r \in Requests :
              waiting[r] # Idle /\ waiting'[r] = Idle => OnlyRowsOf(waiting[r].user)]_vars
    BY <1>1
  <1> QED
    BY <1>2, TypeCorrect, PTL DEF Spec, PortalActsForItsUser, OnlyRowsOf
=============================================================================
