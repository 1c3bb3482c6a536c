----------------------------- MODULE LoginGuard -----------------------------
(***************************************************************************)
(* The throttle of failed sign-ins (class LoginGuard of app.py) and its    *)
(* two users, auth_login and auth_register.                                *)
(*                                                                         *)
(* Failures are kept per address and per account in deques of times; when  *)
(* a deque is full the next check locks its key for a while.  The handlers *)
(* have no await between the check and what they record, so an attempt is  *)
(* one step.  An account is the text typed as login in lower case, and the *)
(* "register:..." of a sign-up.  "__register_ip__", under which accepted   *)
(* sign-ups are counted, is never checked and left out; what they count    *)
(* for the address is not.  The pruning in check is left out as well: what *)
(* it removes, the next one would.  A reload may change the limits and the *)
(* lockout, not the window.                                                *)
(***************************************************************************)
EXTENDS Clock, Sequences, FiniteSets, FiniteSetsExt

CONSTANTS
    Addresses,
    Accounts,
    Window,    \* window_seconds
    Limits,    \* what a reload may bring; ip, acct: 0 is no limit
    MaxTries   \* bound: failures per key

ASSUME KeysAssumption == Addresses \cap Accounts = {}
ASSUME WindowAssumption == Window \in Nat \ {0}
ASSUME LimitsAssumption == Limits \subseteq [ip : Nat, acct : Nat, lockout : Nat \ {0}]

Keys == Addresses \cup Accounts

VARIABLES
    limit,        \* the limits in force
    hits,         \* _ip_hits and _acct_hits
    lockedUntil,  \* _ip_locked_until and _acct_locked_until; 0: no lock
    failed        \* what should count: all failures while the throttle was on,
                  \* of an account since it last signed in

guardVars == <<now, limit, hits, lockedUntil, failed>>

MaxFor(k) == IF k \in Addresses THEN limit.ip ELSE limit.acct

Enabled == limit.ip > 0 \/ limit.acct > 0

\* The times that are not older than `span` at time t.
NotOlder(times, span, t) == {i \in DOMAIN times : times[i] + span >= t}

Recent_OpenWindow(q) ==
    LET kept == NotOlder(q, Window, now + 1)
    IN IF kept = {} THEN <<>> ELSE SubSeq(q, Min(kept), Len(q))

\* _prune: the older ones are dropped from the left.
Recent(q) ==
    LET kept == NotOlder(q, Window, now)
    IN IF kept = {} THEN <<>> ELSE SubSeq(q, Min(kept), Len(q))

GuardInit ==
    /\ now = 0
    /\ limit \in Limits
    /\ hits = [k \in Keys |-> <<>>]
    /\ lockedUntil = [k \in Keys |-> 0]
    /\ failed = [k \in Keys |-> <<>>]

----------------------------------------------------------------------------
Locked(k) == lockedUntil[k] > now

Full(k) == MaxFor(k) > 0 /\ Len(Recent(hits[k])) >= MaxFor(k)

\* check: what it answers,
Refuses(ip, acct) == Enabled /\ \E k \in {ip, acct} : Locked(k) \/ Full(k)

\* and the key it locks, the address before the account.
LockOut(ip, acct) ==
    /\ lockedUntil' =
         IF Locked(ip) \/ Locked(acct) THEN lockedUntil
         ELSE [lockedUntil EXCEPT ![IF Full(ip) THEN ip ELSE acct] = now + limit.lockout]
    /\ UNCHANGED <<hits, failed>>

\* record_failure
RecordFailure(ks) ==
    /\ hits' = [k \in Keys |-> IF Enabled /\ k \in ks THEN Append(Recent(hits[k]), now)
                                                      ELSE hits[k]]
    /\ failed' = [k \in Keys |-> IF Enabled /\ k \in ks THEN Append(failed[k], now)
                                                        ELSE failed[k]]
    /\ UNCHANGED lockedUntil

RecordSuccess(acct) ==
    /\ hits' = [hits EXCEPT ![acct] = <<>>]
    /\ lockedUntil' = [lockedUntil EXCEPT ![acct] = 0]
    /\ failed' = [failed EXCEPT ![acct] = <<>>]

\* auth_login with the right password, a wrong one, or the right one of an
\* account that is not active, which counts neither way.
AttemptLogIn(ip, acct, password) ==
    /\ IF Refuses(ip, acct) THEN LockOut(ip, acct)
       ELSE CASE password = "right" -> RecordSuccess(acct)
              [] password = "wrong" -> RecordFailure({ip, acct})
              [] OTHER -> UNCHANGED <<hits, lockedUntil, failed>>
    /\ UNCHANGED <<now, limit>>

\* auth_register: an accepted sign-up counts for the address, a refused one
\* for the account as well.
SignUp(ip, acct, accepted) ==
    /\ IF Refuses(ip, acct) THEN LockOut(ip, acct)
       ELSE RecordFailure(IF accepted THEN {ip} ELSE {ip, acct})
    /\ UNCHANGED <<now, limit>>

\* update_config
ChangeLimits(l) ==
    /\ l # limit
    /\ limit' = l
    /\ UNCHANGED <<now, hits, lockedUntil, failed>>

GuardTick == Tick /\ UNCHANGED <<limit, hits, lockedUntil, failed>>

GuardNext ==
    \/ \E ip \in Addresses, acct \in Accounts :
         /\ Refuses(ip, acct) \/ \A k \in {ip, acct} : Len(failed[k]) < MaxTries
         /\ \/ \E pw \in {"right", "wrong", "inactive"} : AttemptLogIn(ip, acct, pw)
            \/ \E accepted \in BOOLEAN : SignUp(ip, acct, accepted)
    \/ \E l \in Limits : ChangeLimits(l)
    \/ GuardTick

GuardSpec == GuardInit /\ [][GuardNext]_guardVars

----------------------------------------------------------------------------
FailuresWithin(k, span) == Cardinality(NotOlder(failed[k], span, now))

Lockouts == {l.lockout : l \in Limits}
Thresholds == ({l.ip : l \in Limits} \cup {l.acct : l \in Limits}) \ {0}

\* An attempt is let through only if its address and its account both failed
\* less often than allowed in the last window, however failures, sign-ins,
\* reloads and the pruning of the deques were mixed; and it is refused only
\* if one of them reached a limit within the window and one lockout, so that
\* nobody stays locked for good (LoginGuard.check).
ThrottleIsExact ==
    \A ip \in Addresses, acct \in Accounts :
        IF Refuses(ip, acct)
          THEN \E k \in {ip, acct}, l \in Lockouts, n \in Thresholds :
                 FailuresWithin(k, Window + l) >= n
          ELSE Enabled => \A k \in {ip, acct} :
                 MaxFor(k) > 0 => FailuresWithin(k, Window) < MaxFor(k)
=============================================================================
