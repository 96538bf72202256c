------------------------------- MODULE Sessions -------------------------------
(***************************************************************************)
(* Logins and sessions.  The service keeps the sessions in a map and a     *)
(* copy of it in the store, next to the users, the counters of failed      *)
(* logins and the locks.  Whoever changes any of it holds writeMu, but     *)
(* CurrentUser, which every request goes through, looks its session up     *)
(* before it waits for writeMu.  Times are counted down by Tick.           *)
(***************************************************************************)
EXTENDS Naturals

CONSTANTS
    User,         \* user names; a user's name and identifier are one here
    Token,        \* session tokens
    Request,      \* requests being authenticated at the same time
    Timeout,      \* ticks an unused session lives: setting-session-timeout
    Lifetime,     \* ticks any session lives: seven days
    LockTime,     \* ticks an account stays locked: fifteen minutes
    MaxFailures,  \* failed logins that lock an account: five
    NoSession, NoLock

\* left: ticks until ExpiresAt has passed; life: until InitiatedAt is too old
Session == [user : User, left : 0..Timeout, life : 0..Lifetime]

UserStatus == {"active", "disabled", "absent"}

ASSUME ConstantsAssumption ==
    /\ Timeout \in Nat \ {0}
    /\ Lifetime \in Nat \ {0}
    /\ LockTime \in Nat \ {0}
    /\ MaxFailures \in Nat \ {0}
    /\ NoSession \notin Session
    /\ NoLock \notin 0..LockTime

VARIABLES
    users,     \* the store: the status of each user
    failures,  \* the store: LoginFailures, no counter and 0 alike
    locks,     \* the store: LoginLockedUntil, as the ticks left
    stored,    \* the store: the sessions saved last
    sessions,  \* the map in memory
    request,   \* where each CurrentUser call is, with the session it looked up
    unsaved,   \* history: a write of the sessions failed and none was made since
    revoked    \* history: the tokens a change of password has put an end to

store == <<users, failures, locks, stored>>
vars == <<store, sessions, request, unsaved, revoked>>

Done == [pc |-> "done"]

Expired(session) == session.left = 0

NoSessions == [k \in Token |-> NoSession]

Without(K) == [k \in Token |-> IF k \in K THEN NoSession ELSE sessions[k]]

SessionsOf(u) == {k \in Token : sessions[k] # NoSession /\ sessions[k].user = u}

-------------------------------------------------------------------------------
(* Writing the snapshot.  A write that fails changes nothing in the store,  *)
(* but the map has been changed before.                                     *)

Replace(u, f, l, s) ==
    users' = u /\ failures' = f /\ locks' = l /\ stored' = s

ReplaceFails == UNCHANGED store

\* Mutant: the sessions are not part of what is written.
ForgetSessions(map, u, f, l) ==
    /\ sessions' = map
    /\ \/ Replace(u, f, l, stored) /\ unsaved' = FALSE
       \/ ReplaceFails /\ unsaved' = TRUE

\* applySessionsToSnapshot and Replace
WriteSessions(map, u, f, l) ==
    /\ sessions' = map
    /\ \/ Replace(u, f, l, map) /\ unsaved' = FALSE
       \/ ReplaceFails /\ unsaved' = TRUE

\* Replace of a snapshot whose sessions are those of the store
WriteOthers(u, f, l) ==
    /\ Replace(u, f, l, stored) \/ ReplaceFails
    /\ UNCHANGED <<sessions, unsaved>>

-------------------------------------------------------------------------------
(* Login.  While the lock of an account is in force it is refused outright. *)

InForce(u) == locks[u] # NoLock /\ locks[u] > 0

\* Counting stops at the limit, which is all that is ever asked of the counter.
Counted(n) == IF n < MaxFailures THEN n + 1 ELSE n

\* A wrong password, or no active user of that name.
LoginFails(u) ==
    LET n == Counted(failures[u])
    IN  /\ ~InForce(u)
        /\ WriteOthers(users, [failures EXCEPT ![u] = n],
                       IF n >= MaxFailures THEN [locks EXCEPT ![u] = LockTime] ELSE locks)
        /\ UNCHANGED <<request, revoked>>

\* A token is random, hence new.
NewToken(k) ==
    /\ sessions[k] = NoSession
    /\ stored[k] = NoSession
    /\ k \notin revoked
    /\ \A r \in Request : request[r] # Done => request[r].token # k

\* Mutant: a session expires when the longest lifetime is over.
LongSession(u) == [user |-> u, left |-> Lifetime, life |-> Lifetime]

NewSession(u) == [user |-> u, left |-> Timeout, life |-> Lifetime]

LoginSucceeds(u, k) ==
    /\ ~InForce(u)
    /\ users[u] = "active"
    /\ NewToken(k)
    /\ WriteSessions([sessions EXCEPT ![k] = NewSession(u)], users,
                     [failures EXCEPT ![u] = 0], [locks EXCEPT ![u] = NoLock])
    /\ UNCHANGED <<request, revoked>>

-------------------------------------------------------------------------------
(* CurrentUser.                                                             *)

At(r, pc) == request[r].pc = pc

\* The session is looked up; an unknown token is refused at once.
LookUp(r, k) ==
    /\ request[r] = Done
    /\ sessions[k] # NoSession
    /\ request' = [request EXCEPT ![r] = [pc |-> "found", token |-> k, session |-> sessions[k]]]
    /\ UNCHANGED <<store, sessions, unsaved, revoked>>

\* Mutant: a session that is used is never too old.
TooOldIgnored(session) == Expired(session)

MustGo(session) == session.life = 0 \/ Expired(session)

\* The copy is judged, and the time of the new expiry taken, before writeMu.
Judge(r) ==
    LET found == request[r]
    IN  /\ At(r, "found")
        /\ request' = [request EXCEPT ![r] =
                          IF MustGo(found.session) THEN [found EXCEPT !.pc = "drop"]
                          ELSE [found EXCEPT !.pc = "keep", !.session.left = Timeout]]
        /\ UNCHANGED <<store, sessions, unsaved, revoked>>

Answer(r) == request' = [request EXCEPT ![r] = Done] /\ UNCHANGED revoked

Drop(r) ==
    /\ At(r, "drop")
    /\ WriteSessions(Without({request[r].token}), users, failures, locks)
    /\ Answer(r)

\* Mutant: the session is put back before the user is looked up.
KeepFirst(r) ==
    /\ At(r, "keep")
    /\ WriteSessions([sessions EXCEPT ![request[r].token] = request[r].session],
                     users, failures, locks)
    /\ Answer(r)

\* Under writeMu the user is looked up; the session is put back with its new
\* expiry, and nobody asks whether it is still there.
Keep(r) ==
    LET u == request[r].session.user
        k == request[r].token
    IN  /\ At(r, "keep")
        /\ \/ /\ users[u] = "active"
              /\ WriteSessions([sessions EXCEPT ![k] = request[r].session],
                               users, failures, locks)
           \/ /\ users[u] = "disabled"
              /\ WriteSessions(Without({k}), users, failures, locks)
           \/ /\ users[u] = "absent"
              /\ UNCHANGED <<store, sessions, unsaved>>
        /\ Answer(r)

-------------------------------------------------------------------------------
(* Logout, passwords and accounts.                                          *)

Logout(k) ==
    /\ sessions[k] # NoSession
    /\ WriteSessions(Without({k}), users, failures, locks)
    /\ UNCHANGED <<request, revoked>>

ChangePassword(u) ==
    /\ users[u] # "absent"
    /\ WriteSessions(Without(SessionsOf(u)), users, failures, locks)
    /\ revoked' = IF unsaved' THEN revoked ELSE revoked \cup SessionsOf(u)
    /\ UNCHANGED request

\* An administrator creates an account or changes its status.
SaveUser(u, status) ==
    /\ status # users[u]
    /\ WriteOthers([users EXCEPT ![u] = status], failures, locks)
    /\ UNCHANGED <<request, revoked>>

\* Refused for the last administrator, which this module leaves open.
DeleteUser(u) ==
    /\ users[u] # "absent"
    /\ WriteSessions(Without(SessionsOf(u)), [users EXCEPT ![u] = "absent"], failures, locks)
    /\ UNCHANGED <<request, revoked>>

-------------------------------------------------------------------------------
(* The clean-up, time, and the process.                                     *)

ExpiredTokens == {k \in Token : sessions[k] # NoSession /\ Expired(sessions[k])}

ExpiredLocks == {u \in User : locks[u] = 0}

Unlocked(U) == [u \in User |-> IF u \in U THEN NoLock ELSE locks[u]]

\* Mutant: the counter outlives the lock.
CountsKept(U) == failures

Recounted(U) == [u \in User |-> IF u \in U THEN 0 ELSE failures[u]]

\* cleanExpiredSessions, every minute
CleanUp ==
    /\ ExpiredTokens # {} \/ ExpiredLocks # {}
    /\ LET f == Recounted(ExpiredLocks)
           l == Unlocked(ExpiredLocks)
       IN  IF ExpiredTokens # {}
           THEN WriteSessions(Without(ExpiredTokens), users, f, l)
           ELSE WriteOthers(users, f, l)
    /\ UNCHANGED <<request, revoked>>

Less(n) == IF n > 0 THEN n - 1 ELSE 0

Older(session) ==
    IF session = NoSession THEN NoSession
    ELSE [session EXCEPT !.left = Less(@), !.life = Less(@)]

Tick ==
    /\ sessions' = [k \in Token |-> Older(sessions[k])]
    /\ stored' = [k \in Token |-> Older(stored[k])]
    /\ request' = [r \in Request |->
                      IF request[r] = Done THEN Done
                      ELSE [request[r] EXCEPT !.session = Older(@)]]
    /\ locks' = [u \in User |-> IF locks[u] = NoLock THEN NoLock ELSE Less(locks[u])]
    /\ UNCHANGED <<users, failures, unsaved, revoked>>

\* The process ends and starts again: NewPlatformService loads the sessions.
Restart ==
    /\ sessions' = stored
    /\ request' = [r \in Request |-> Done]
    /\ unsaved' = FALSE
    /\ UNCHANGED <<store, revoked>>

-------------------------------------------------------------------------------
Init ==
    /\ users = [u \in User |-> "active"]
    /\ failures = [u \in User |-> 0]
    /\ locks = [u \in User |-> NoLock]
    /\ stored = NoSessions
    /\ sessions = NoSessions
    /\ request = [r \in Request |-> Done]
    /\ unsaved = FALSE
    /\ revoked = {}

CurrentUser(r) == Judge(r) \/ Drop(r) \/ Keep(r)

UserNext(u) ==
    \/ LoginFails(u)
    \/ \E k \in Token : LoginSucceeds(u, k)
    \/ ChangePassword(u)
    \/ DeleteUser(u)
    \/ \E status \in {"active", "disabled"} : SaveUser(u, status)

Next ==
    \/ \E u \in User : UserNext(u)
    \/ \E k \in Token : Logout(k)
    \/ \E r \in Request, k \in Token : LookUp(r, k)
    \/ \E r \in Request : CurrentUser(r)
    \/ CleanUp \/ Tick \/ Restart

Spec == Init /\ [][Next]_vars

Fairness ==
    /\ WF_vars(CleanUp)
    /\ WF_vars(Tick)

FairSpec == Spec /\ Fairness
-------------------------------------------------------------------------------
(* Properties.                                                              *)

Pending == [pc : {"found", "drop", "keep"}, token : Token, session : Session]

TypeOK ==
    /\ users \in [User -> UserStatus]
    /\ failures \in [User -> 0..MaxFailures]
    /\ locks \in [User -> 0..LockTime \cup {NoLock}]
    /\ stored \in [Token -> Session \cup {NoSession}]
    /\ sessions \in [Token -> Session \cup {NoSession}]
    /\ request \in [Request -> Pending \cup {Done}]
    /\ unsaved \in BOOLEAN
    /\ revoked \subseteq Token

\* Every session, in memory or in the store, is one of an existing account:
\* deleting the account ends its sessions, and neither a request under way nor
\* a failed write nor a restart brings one back.
HaveUsers(map) == \A k \in Token : map[k] # NoSession => users[map[k].user] # "absent"

SessionsHaveUsers == HaveUsers(sessions) /\ HaveUsers(stored)

\* An account has a lock exactly when its counter has reached the limit: a lock
\* that was lifted leaves a full set of attempts, and no counter at the limit
\* goes without a lock, whichever write failed.
LockGoesWithCounter == \A u \in User : locks[u] # NoLock <=> failures[u] >= MaxFailures

\* The store and the map agree on the sessions unless a write of them failed:
\* then a restart ends no session and revives none.
StoreAgrees == ~unsaved => stored = sessions

\* Every session ends, however often it is used, the process restarts or
\* writes fail: it is seven days old in the end and its expiry is not extended.
SessionsEnd == \A k \in Token : sessions[k] # NoSession ~> sessions[k] = NoSession

\* CHANGELOG.md: a change of password revokes all sessions of the account.
RevokedStayRevoked == \A k \in revoked : sessions[k] = NoSession
===============================================================================
