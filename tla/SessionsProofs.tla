---------------------------- MODULE SessionsProofs ----------------------------
(***************************************************************************)
(* Machine-checked proofs about Sessions, for any users, tokens, requests, *)
(* times and limits, and any number of restarts and failing writes.        *)
(***************************************************************************)
EXTENDS Sessions, TLAPS

Map == [Token -> Session \cup {NoSession}]

StoreType ==
    /\ users \in [User -> UserStatus]
    /\ failures \in [User -> 0..MaxFailures]
    /\ locks \in [User -> 0..LockTime \cup {NoLock}]
    /\ stored \in Map

(***************************************************************************)
(* The helpers on sessions and on the two ways to write.                   *)
(***************************************************************************)

\* Taking sessions out of the map leaves a map.
LEMMA WithoutType ==
    ASSUME TypeOK, NEW K
    PROVE  Without(K) \in Map
  BY DEF Without, TypeOK, Map

\* A new session and an older one are sessions.
LEMMA SessionTypes ==
    /\ \A u \in User : NewSession(u) \in Session
    /\ \A session \in Session \cup {NoSession} : Older(session) \in Session \cup {NoSession}
    /\ \A session \in Session : Older(session) \in Session
  <1>1. \A m \in Nat : \A n \in 0..m : Less(n) \in 0..m
    BY DEF Less
  <1>2. Timeout \in Nat /\ Lifetime \in Nat /\ NoSession \notin Session
    BY ConstantsAssumption
  <1>3. ASSUME NEW session \in Session
        PROVE  Older(session) \in Session
    <2>1. session.left \in 0..Timeout /\ session.life \in 0..Lifetime
      BY DEF Session
    <2>2. Less(session.left) \in 0..Timeout /\ Less(session.life) \in 0..Lifetime
      BY <1>1, <1>2, <2>1
    <2>3. session # NoSession
      BY <1>2
    <2>4. Older(session) = [session EXCEPT !.left = Less(@), !.life = Less(@)]
      BY <2>3 DEF Older
    <2>5. QED
      BY <2>2, <2>4 DEF Session
  <1>4. \A u \in User : NewSession(u) \in Session
    BY <1>2 DEF NewSession, Session
  <1>5. Older(NoSession) = NoSession
    BY DEF Older
  <1>6. QED
    BY <1>3, <1>4, <1>5

\* A write of the sessions leaves a well-typed store and map.
LEMMA WriteSessionsType ==
    ASSUME TypeOK, NEW map \in Map, NEW u \in [User -> UserStatus],
           NEW f \in [User -> 0..MaxFailures], NEW l \in [User -> 0..LockTime \cup {NoLock}],
           WriteSessions(map, u, f, l)
    PROVE  StoreType' /\ sessions' \in Map /\ unsaved' \in BOOLEAN
  BY DEF WriteSessions, Replace, ReplaceFails, store, StoreType, TypeOK, Map

\* So does a write that leaves the sessions alone.
LEMMA WriteOthersType ==
    ASSUME TypeOK, NEW u \in [User -> UserStatus],
           NEW f \in [User -> 0..MaxFailures], NEW l \in [User -> 0..LockTime \cup {NoLock}],
           WriteOthers(u, f, l)
    PROVE  StoreType' /\ sessions' \in Map /\ unsaved' \in BOOLEAN
  BY DEF WriteOthers, Replace, ReplaceFails, store, StoreType, TypeOK, Map

\* What a failed login writes about its user.
LEMMA CountedType ==
    ASSUME TypeOK, NEW u \in User
    PROVE  /\ Counted(failures[u]) \in 0..MaxFailures
           /\ [failures EXCEPT ![u] = Counted(failures[u])] \in [User -> 0..MaxFailures]
           /\ [locks EXCEPT ![u] = LockTime] \in [User -> 0..LockTime \cup {NoLock}]
  <1>1. failures[u] \in 0..MaxFailures
    BY DEF TypeOK
  <1>2. MaxFailures \in Nat /\ LockTime \in Nat
    BY ConstantsAssumption
  <1>3. Counted(failures[u]) \in 0..MaxFailures
    BY <1>1, <1>2 DEF Counted
  <1>4. LockTime \in 0..LockTime
    BY <1>2
  <1>5. QED
    BY <1>3, <1>4 DEF TypeOK

(***************************************************************************)
(* Types.                                                                  *)
(***************************************************************************)
\* The initial state is well typed.
LEMMA TypeInit == Init => TypeOK
  <1>1. 0 \in 0..MaxFailures
    BY ConstantsAssumption
  <1>2. QED
    BY <1>1 DEF Init, TypeOK, UserStatus, NoSessions

\* Every step keeps the types: one case for each action.
LEMMA TypeStep == TypeOK /\ [Next]_vars => TypeOK'
  <1> SUFFICES ASSUME TypeOK, [Next]_vars
               PROVE  TypeOK'
    OBVIOUS
  <1>a. TypeOK' <=> /\ StoreType' /\ sessions' \in Map /\ unsaved' \in BOOLEAN
                    /\ request' \in [Request -> Pending \cup {Done}]
                    /\ revoked' \subseteq Token
    BY DEF TypeOK, StoreType, Map
  <1>b. /\ users \in [User -> UserStatus]
        /\ failures \in [User -> 0..MaxFailures]
        /\ locks \in [User -> 0..LockTime \cup {NoLock}]
        /\ request \in [Request -> Pending \cup {Done}]
        /\ revoked \subseteq Token
        /\ StoreType
        /\ sessions \in Map
        /\ unsaved \in BOOLEAN
    BY DEF TypeOK, StoreType, Map
  <1>c. \A r \in Request : [request EXCEPT ![r] = Done] \in [Request -> Pending \cup {Done}]
    BY <1>b
  <1>1. ASSUME NEW u \in User, LoginFails(u)
        PROVE  TypeOK'
    <2> DEFINE f == [failures EXCEPT ![u] = Counted(failures[u])]
               l == IF Counted(failures[u]) >= MaxFailures
                    THEN [locks EXCEPT ![u] = LockTime] ELSE locks
    <2>1. f \in [User -> 0..MaxFailures] /\ l \in [User -> 0..LockTime \cup {NoLock}]
      BY <1>b, CountedType
    <2>2. WriteOthers(users, f, l)
      BY <1>1 DEF LoginFails
    <2>3. StoreType' /\ sessions' \in Map /\ unsaved' \in BOOLEAN
      BY <1>b, <2>1, <2>2, WriteOthersType
    <2>4. QED
      BY <1>a, <1>b, <1>1, <2>3 DEF LoginFails
  <1>2. ASSUME NEW u \in User, NEW k \in Token, LoginSucceeds(u, k)
        PROVE  TypeOK'
    <2>1. [sessions EXCEPT ![k] = NewSession(u)] \in Map
      BY <1>b, SessionTypes DEF Map
    <2>2. /\ [failures EXCEPT ![u] = 0] \in [User -> 0..MaxFailures]
          /\ [locks EXCEPT ![u] = NoLock] \in [User -> 0..LockTime \cup {NoLock}]
      BY <1>b, ConstantsAssumption
    <2>3. WriteSessions([sessions EXCEPT ![k] = NewSession(u)], users,
                        [failures EXCEPT ![u] = 0], [locks EXCEPT ![u] = NoLock])
      BY <1>2 DEF LoginSucceeds
    <2>4. StoreType' /\ sessions' \in Map /\ unsaved' \in BOOLEAN
      BY <1>b, <2>1, <2>2, <2>3, WriteSessionsType
    <2>5. QED
      BY <1>a, <1>b, <1>2, <2>4 DEF LoginSucceeds
  <1>3. ASSUME NEW u \in User, ChangePassword(u)
        PROVE  TypeOK'
    <2>1. WriteSessions(Without(SessionsOf(u)), users, failures, locks)
      BY <1>3 DEF ChangePassword
    <2>2. StoreType' /\ sessions' \in Map /\ unsaved' \in BOOLEAN
      BY <1>b, <2>1, WithoutType, WriteSessionsType
    <2>3. revoked' \subseteq Token
      BY <1>b, <1>3 DEF ChangePassword, SessionsOf
    <2>4. QED
      BY <1>a, <1>b, <1>3, <2>2, <2>3 DEF ChangePassword
  <1>4. ASSUME NEW u \in User, DeleteUser(u)
        PROVE  TypeOK'
    <2>1. [users EXCEPT ![u] = "absent"] \in [User -> UserStatus]
      BY <1>b DEF UserStatus
    <2>2. WriteSessions(Without(SessionsOf(u)), [users EXCEPT ![u] = "absent"], failures, locks)
      BY <1>4 DEF DeleteUser
    <2>3. StoreType' /\ sessions' \in Map /\ unsaved' \in BOOLEAN
      BY <1>b, <2>1, <2>2, WithoutType, WriteSessionsType
    <2>4. QED
      BY <1>a, <1>b, <1>4, <2>3 DEF DeleteUser
  <1>5. ASSUME NEW u \in User, NEW status \in {"active", "disabled"}, SaveUser(u, status)
        PROVE  TypeOK'
    <2>1. [users EXCEPT ![u] = status] \in [User -> UserStatus]
      BY <1>b DEF UserStatus
    <2>2. WriteOthers([users EXCEPT ![u] = status], failures, locks)
      BY <1>5 DEF SaveUser
    <2>3. StoreType' /\ sessions' \in Map /\ unsaved' \in BOOLEAN
      BY <1>b, <2>1, <2>2, WriteOthersType
    <2>4. QED
      BY <1>a, <1>b, <1>5, <2>3 DEF SaveUser
  <1>6. ASSUME NEW k \in Token, Logout(k)
        PROVE  TypeOK'
    <2>1. WriteSessions(Without({k}), users, failures, locks)
      BY <1>6 DEF Logout
    <2>2. StoreType' /\ sessions' \in Map /\ unsaved' \in BOOLEAN
      BY <1>b, <2>1, WithoutType, WriteSessionsType
    <2>3. QED
      BY <1>a, <1>b, <1>6, <2>2 DEF Logout
  <1>7. ASSUME NEW r \in Request, NEW k \in Token, LookUp(r, k)
        PROVE  TypeOK'
    <2>1. sessions[k] \in Session
      BY <1>b, <1>7 DEF LookUp, Map
    <2>2. [pc |-> "found", token |-> k, session |-> sessions[k]] \in Pending
      BY <2>1 DEF Pending
    <2>3. request' \in [Request -> Pending \cup {Done}]
      BY <1>b, <1>7, <2>2 DEF LookUp
    <2>4. QED
      BY <1>a, <1>b, <1>7, <2>3 DEF LookUp, StoreType, store
  <1>8. ASSUME NEW r \in Request, CurrentUser(r)
        PROVE  TypeOK'
    <2>1. request[r] \in Pending
      BY <1>b, <1>8 DEF CurrentUser, Judge, Drop, Keep, At, Done
    <2>2. /\ request[r].token \in Token
          /\ request[r].session \in Session
          /\ request[r].session.user \in User
      BY <2>1 DEF Pending, Session
    <2>3. CASE Judge(r)
      <3> DEFINE q == request[r]
                 s == q.session
                 p == IF MustGo(s) THEN [q EXCEPT !.pc = "drop"]
                      ELSE [q EXCEPT !.pc = "keep", !.session.left = Timeout]
      <3>1. Timeout \in 0..Timeout
        BY ConstantsAssumption
      <3>2. p \in Pending
        BY <2>1, <3>1 DEF Pending, Session
      <3>3. request' = [request EXCEPT ![r] = p]
        BY <2>3 DEF Judge
      <3>4. QED
        BY <1>a, <1>b, <2>3, <3>2, <3>3 DEF Judge, StoreType, store
    <2>4. CASE Drop(r)
      <3>1. WriteSessions(Without({request[r].token}), users, failures, locks)
        BY <2>4 DEF Drop
      <3>2. StoreType' /\ sessions' \in Map /\ unsaved' \in BOOLEAN
        BY <1>b, <3>1, WithoutType, WriteSessionsType
      <3>3. QED
        BY <1>a, <1>b, <1>c, <2>4, <3>2 DEF Drop, Answer
    <2>5. CASE Keep(r)
      <3> DEFINE k == request[r].token
                 map == [sessions EXCEPT ![k] = request[r].session]
      <3>1. map \in Map
        BY <1>b, <2>2 DEF Map
      <3>2. CASE WriteSessions(map, users, failures, locks)
        <4>1. StoreType' /\ sessions' \in Map /\ unsaved' \in BOOLEAN
          BY <1>b, <3>1, <3>2, WriteSessionsType
        <4>2. QED
          BY <1>a, <1>b, <1>c, <2>5, <4>1 DEF Keep, Answer
      <3>3. CASE WriteSessions(Without({k}), users, failures, locks)
        <4>1. StoreType' /\ sessions' \in Map /\ unsaved' \in BOOLEAN
          BY <1>b, <3>3, WithoutType, WriteSessionsType
        <4>2. QED
          BY <1>a, <1>b, <1>c, <2>5, <4>1 DEF Keep, Answer
      <3>4. CASE UNCHANGED <<store, sessions, unsaved>>
        BY <1>a, <1>b, <1>c, <2>5, <3>4 DEF Keep, Answer, StoreType, store
      <3>5. QED
        BY <2>5, <3>2, <3>3, <3>4 DEF Keep
    <2>6. QED
      BY <1>8, <2>3, <2>4, <2>5 DEF CurrentUser
  <1>9. CASE CleanUp
    <2> DEFINE f == Recounted(ExpiredLocks)
               l == Unlocked(ExpiredLocks)
    <2>1. f \in [User -> 0..MaxFailures] /\ l \in [User -> 0..LockTime \cup {NoLock}]
      BY <1>b, ConstantsAssumption DEF Recounted, Unlocked
    <2>2. \/ WriteSessions(Without(ExpiredTokens), users, f, l)
          \/ WriteOthers(users, f, l)
      BY <1>9 DEF CleanUp
    <2>3. StoreType' /\ sessions' \in Map /\ unsaved' \in BOOLEAN
      BY <1>b, <2>1, <2>2, WithoutType, WriteSessionsType, WriteOthersType
    <2>4. QED
      BY <1>a, <1>b, <1>9, <2>3 DEF CleanUp
  <1>10. CASE Tick
    <2>1. sessions' \in Map /\ stored' \in Map
      BY <1>b, <1>10, SessionTypes DEF Tick, StoreType, Map
    <2>2. \A r \in Request : request[r] # Done => [request[r] EXCEPT !.session = Older(@)] \in Pending
      BY <1>b, SessionTypes DEF Pending
    <2>3. request' \in [Request -> Pending \cup {Done}]
      BY <1>10, <2>2 DEF Tick
    <2>4. \A u \in User : locks[u] # NoLock => Less(locks[u]) \in 0..LockTime
      BY <1>b, ConstantsAssumption DEF Less
    <2>5. locks' \in [User -> 0..LockTime \cup {NoLock}]
      BY <1>10, <2>4 DEF Tick
    <2>6. QED
      BY <1>a, <1>b, <1>10, <2>1, <2>3, <2>5 DEF Tick, StoreType
  <1>11. CASE Restart
    BY <1>a, <1>b, <1>11 DEF Restart, StoreType, store, Map
  <1>12. CASE UNCHANGED vars
    BY <1>a, <1>b, <1>12 DEF vars, StoreType, store
  <1>13. QED
    BY <1>1, <1>2, <1>3, <1>4, <1>5, <1>6, <1>7, <1>8, <1>9, <1>10, <1>11, <1>12
       DEF Next, UserNext

\* Users, counters, locks, sessions and requests keep their types.
THEOREM TypeCorrect == Spec => []TypeOK
  BY TypeInit, TypeStep, PTL DEF Spec

(***************************************************************************)
(* Sessions belong to existing accounts.                                   *)
(***************************************************************************)

\* Taking sessions out takes none out of this care.
LEMMA WithoutHave ==
    ASSUME HaveUsers(sessions), NEW K
    PROVE  HaveUsers(Without(K))
  BY DEF HaveUsers, Without

\* A write of sessions that all belong to accounts, both before and after it.
LEMMA WriteSessionsHave ==
    ASSUME SessionsHaveUsers, NEW map, NEW u, NEW f, NEW l, WriteSessions(map, u, f, l),
           HaveUsers(map),
           \A k \in Token : map[k] # NoSession => u[map[k].user] # "absent"
    PROVE  SessionsHaveUsers'
  <1>1. sessions' = map
    BY DEF WriteSessions
  <1>2. CASE Replace(u, f, l, map)
    BY <1>1, <1>2 DEF Replace, SessionsHaveUsers, HaveUsers
  <1>3. CASE ReplaceFails
    BY <1>1, <1>3 DEF ReplaceFails, store, SessionsHaveUsers, HaveUsers
  <1>4. QED
    BY <1>2, <1>3 DEF WriteSessions

\* A write that removes no account.
LEMMA WriteOthersHave ==
    ASSUME TypeOK, SessionsHaveUsers, NEW u, NEW f, NEW l, WriteOthers(u, f, l),
           \A v \in User : users[v] # "absent" => u[v] # "absent"
    PROVE  SessionsHaveUsers'
  <1>1. /\ sessions' = sessions
        /\ stored' = stored
        /\ users' = u \/ users' = users
    BY DEF WriteOthers, Replace, ReplaceFails, store
  <1>2. \A k \in Token : /\ sessions[k] # NoSession => sessions[k].user \in User
                         /\ stored[k] # NoSession => stored[k].user \in User
    BY DEF TypeOK, Session
  <1>3. QED
    BY <1>1, <1>2 DEF SessionsHaveUsers, HaveUsers

\* No step leaves a session without its account.
LEMMA UsersStep == TypeOK /\ SessionsHaveUsers /\ [Next]_vars => SessionsHaveUsers'
  <1> SUFFICES ASSUME TypeOK, SessionsHaveUsers, [Next]_vars
               PROVE  SessionsHaveUsers'
    OBVIOUS
  <1>a. HaveUsers(sessions) /\ HaveUsers(stored)
    BY DEF SessionsHaveUsers
  <1>b. \A K : /\ HaveUsers(Without(K))
               /\ \A k \in Token : Without(K)[k] # NoSession =>
                     users[Without(K)[k].user] # "absent"
    BY <1>a, WithoutHave DEF HaveUsers
  <1>c. ASSUME NEW K, WriteSessions(Without(K), users, failures, locks)
        PROVE  SessionsHaveUsers'
    BY <1>b, <1>c, WriteSessionsHave
  <1>1. ASSUME NEW u \in User, LoginFails(u)
        PROVE  SessionsHaveUsers'
    BY <1>1, WriteOthersHave DEF LoginFails
  <1>2. ASSUME NEW u \in User, NEW k \in Token, LoginSucceeds(u, k)
        PROVE  SessionsHaveUsers'
    <2> DEFINE map == [sessions EXCEPT ![k] = NewSession(u)]
    <2>1. users[u] # "absent" /\ NewSession(u).user = u
      BY <1>2 DEF LoginSucceeds, NewSession
    <2>2. \A j \in Token : map[j] = sessions[j] \/ map[j] = NewSession(u)
      BY DEF TypeOK
    <2>3. \A j \in Token : map[j] # NoSession => users[map[j].user] # "absent"
      BY <1>a, <2>1, <2>2 DEF HaveUsers
    <2>4. HaveUsers(map)
      BY <2>3 DEF HaveUsers
    <2>5. QED
      BY <1>2, <2>3, <2>4, WriteSessionsHave DEF LoginSucceeds
  <1>3. ASSUME NEW u \in User, ChangePassword(u)
        PROVE  SessionsHaveUsers'
    BY <1>c, <1>3 DEF ChangePassword
  <1>4. ASSUME NEW u \in User, DeleteUser(u)
        PROVE  SessionsHaveUsers'
    <2> DEFINE map == Without(SessionsOf(u))
               others == [users EXCEPT ![u] = "absent"]
    <2>1. ASSUME NEW k \in Token, map[k] # NoSession
          PROVE  others[map[k].user] # "absent"
      <3>1. map[k] = sessions[k] /\ k \notin SessionsOf(u)
        BY <2>1 DEF Without
      <3>2. sessions[k].user # u /\ sessions[k].user \in User
        BY <2>1, <3>1 DEF SessionsOf, TypeOK, Session
      <3>3. users[sessions[k].user] # "absent"
        BY <1>a, <2>1, <3>1 DEF HaveUsers
      <3>4. QED
        BY <3>1, <3>2, <3>3 DEF TypeOK
    <2>2. QED
      BY <1>b, <1>4, <2>1, WriteSessionsHave DEF DeleteUser
  <1>5. ASSUME NEW u \in User, NEW status \in {"active", "disabled"}, SaveUser(u, status)
        PROVE  SessionsHaveUsers'
    <2>1. \A v \in User : users[v] # "absent" => [users EXCEPT ![u] = status][v] # "absent"
      BY DEF TypeOK
    <2>2. QED
      BY <1>5, <2>1, WriteOthersHave DEF SaveUser
  <1>6. ASSUME NEW k \in Token, Logout(k)
        PROVE  SessionsHaveUsers'
    BY <1>c, <1>6 DEF Logout
  <1>7. ASSUME NEW r \in Request, NEW k \in Token, LookUp(r, k)
        PROVE  SessionsHaveUsers'
    BY <1>7 DEF LookUp, store, SessionsHaveUsers, HaveUsers
  <1>8. ASSUME NEW r \in Request, Judge(r)
        PROVE  SessionsHaveUsers'
    BY <1>8 DEF Judge, store, SessionsHaveUsers, HaveUsers
  <1>9. ASSUME NEW r \in Request, Drop(r)
        PROVE  SessionsHaveUsers'
    BY <1>c, <1>9 DEF Drop
  <1>10. ASSUME NEW r \in Request, Keep(r)
         PROVE  SessionsHaveUsers'
    <2> DEFINE u == request[r].session.user
               k == request[r].token
               map == [sessions EXCEPT ![k] = request[r].session]
    <2>1. CASE users[u] = "active" /\ WriteSessions(map, users, failures, locks)
      <3>1. \A j \in Token : map[j] = sessions[j] \/ map[j] = request[r].session
        BY DEF TypeOK
      <3>2. \A j \in Token : map[j] # NoSession => users[map[j].user] # "absent"
        BY <1>a, <2>1, <3>1 DEF HaveUsers
      <3>3. HaveUsers(map)
        BY <3>2 DEF HaveUsers
      <3>4. QED
        BY <2>1, <3>2, <3>3, WriteSessionsHave
    <2>2. CASE WriteSessions(Without({k}), users, failures, locks)
      BY <1>c, <2>2
    <2>3. CASE UNCHANGED <<store, sessions, unsaved>>
      BY <2>3 DEF store, SessionsHaveUsers, HaveUsers
    <2>4. QED
      BY <1>10, <2>1, <2>2, <2>3 DEF Keep
  <1>11. CASE CleanUp
    <2> DEFINE f == Recounted(ExpiredLocks)
               l == Unlocked(ExpiredLocks)
    <2>1. CASE WriteSessions(Without(ExpiredTokens), users, f, l)
      BY <1>b, <2>1, WriteSessionsHave
    <2>2. CASE WriteOthers(users, f, l)
      BY <2>2, WriteOthersHave
    <2>3. QED
      BY <1>11, <2>1, <2>2 DEF CleanUp
  <1>12. CASE Tick
    <2>1. users' = users
      BY <1>12 DEF Tick
    <2>2. \A session \in Session \cup {NoSession} : Older(session) # NoSession =>
             session # NoSession /\ Older(session).user = session.user
      BY DEF Older, Session
    <2>3. \A k \in Token : sessions'[k] = Older(sessions[k]) /\ stored'[k] = Older(stored[k])
      BY <1>12 DEF Tick
    <2>4. QED
      BY <1>a, <2>1, <2>2, <2>3 DEF SessionsHaveUsers, HaveUsers, TypeOK
  <1>13. CASE Restart
    BY <1>a, <1>13 DEF Restart, store, SessionsHaveUsers, HaveUsers
  <1>14. CASE UNCHANGED vars
    BY <1>14 DEF vars, store, SessionsHaveUsers, HaveUsers
  <1>15. QED
    BY <1>1, <1>2, <1>3, <1>4, <1>5, <1>6, <1>7, <1>8, <1>9, <1>10, <1>11, <1>12, <1>13, <1>14
       DEF Next, UserNext, CurrentUser

\* Every session in memory or in the store is one of an existing account
\* (DeleteUser revokes, CurrentUser looks the user up under the write lock).
THEOREM SessionsBelong == Spec => []SessionsHaveUsers
  <1>1. Init => SessionsHaveUsers
    BY DEF Init, NoSessions, SessionsHaveUsers, HaveUsers
  <1>2. QED
    BY <1>1, UsersStep, TypeCorrect, PTL DEF Spec

(***************************************************************************)
(* Locks go with their counters.                                           *)
(***************************************************************************)

\* The actions that leave counters and locks alone: all but logins, the
\* clean-up and the passing of time.
LEMMA OthersLeaveLocks ==
    ASSUME [Next]_vars
    PROVE  \/ UNCHANGED <<failures, locks>>
           \/ \E u \in User : LoginFails(u) \/ \E k \in Token : LoginSucceeds(u, k)
           \/ CleanUp
           \/ Tick
  <1>1. ASSUME NEW map, NEW u, WriteSessions(map, u, failures, locks)
        PROVE  UNCHANGED <<failures, locks>>
    BY <1>1 DEF WriteSessions, Replace, ReplaceFails, store
  <1>2. ASSUME NEW u, WriteOthers(u, failures, locks)
        PROVE  UNCHANGED <<failures, locks>>
    BY <1>2 DEF WriteOthers, Replace, ReplaceFails, store
  <1>3. ASSUME NEW u \in User, \/ ChangePassword(u)
                               \/ DeleteUser(u)
                               \/ \E status \in {"active", "disabled"} : SaveUser(u, status)
        PROVE  UNCHANGED <<failures, locks>>
    BY <1>1, <1>2, <1>3 DEF ChangePassword, DeleteUser, SaveUser
  <1>4. ASSUME NEW k \in Token, Logout(k)
        PROVE  UNCHANGED <<failures, locks>>
    BY <1>1, <1>4 DEF Logout
  <1>5. ASSUME NEW r \in Request, CurrentUser(r) \/ \E k \in Token : LookUp(r, k)
        PROVE  UNCHANGED <<failures, locks>>
    BY <1>1, <1>5 DEF CurrentUser, LookUp, Judge, Drop, Keep, store
  <1>6. Restart \/ UNCHANGED vars => UNCHANGED <<failures, locks>>
    BY DEF Restart, vars, store
  <1>7. QED
    BY <1>3, <1>4, <1>5, <1>6 DEF Next, UserNext

\* A lock is set when the counter reaches the limit, both are cleared together
\* by a login or the clean-up, and time only shortens the lock.
LEMMA LockStep == TypeOK /\ LockGoesWithCounter /\ [Next]_vars => LockGoesWithCounter'
  <1> SUFFICES ASSUME TypeOK, LockGoesWithCounter, [Next]_vars
               PROVE  LockGoesWithCounter'
    OBVIOUS
  <1>a. /\ failures \in [User -> 0..MaxFailures]
        /\ locks \in [User -> 0..LockTime \cup {NoLock}]
        /\ MaxFailures \in Nat \ {0}
        /\ LockTime \in Nat \ {0}
        /\ NoLock \notin 0..LockTime
    BY ConstantsAssumption DEF TypeOK
  <1>1. CASE UNCHANGED <<failures, locks>>
    BY <1>1 DEF LockGoesWithCounter
  <1>2. ASSUME NEW u \in User, LoginFails(u)
        PROVE  LockGoesWithCounter'
    <2> DEFINE n == Counted(failures[u])
               f == [failures EXCEPT ![u] = n]
               l == IF n >= MaxFailures THEN [locks EXCEPT ![u] = LockTime] ELSE locks
    <2>1. LockTime # NoLock /\ n \in 0..MaxFailures /\ (n < MaxFailures => failures[u] < MaxFailures)
      BY <1>a, CountedType DEF Counted
    <2>2. \A v \in User : l[v] # NoLock <=> f[v] >= MaxFailures
      BY <1>a, <2>1 DEF LockGoesWithCounter
    <2>3. (failures' = f /\ locks' = l) \/ UNCHANGED <<failures, locks>>
      BY <1>2 DEF LoginFails, WriteOthers, Replace, ReplaceFails, store
    <2>4. CASE failures' = f /\ locks' = l
      BY <2>2, <2>4 DEF LockGoesWithCounter
    <2>5. QED
      BY <1>1, <2>3, <2>4
  <1>3. ASSUME NEW u \in User, NEW k \in Token, LoginSucceeds(u, k)
        PROVE  LockGoesWithCounter'
    <2> DEFINE f == [failures EXCEPT ![u] = 0]
               l == [locks EXCEPT ![u] = NoLock]
    <2>1. \A v \in User : l[v] # NoLock <=> f[v] >= MaxFailures
      BY <1>a DEF LockGoesWithCounter
    <2>2. (failures' = f /\ locks' = l) \/ UNCHANGED <<failures, locks>>
      BY <1>3 DEF LoginSucceeds, WriteSessions, Replace, ReplaceFails, store
    <2>3. CASE failures' = f /\ locks' = l
      BY <2>1, <2>3 DEF LockGoesWithCounter
    <2>4. QED
      BY <1>1, <2>2, <2>3
  <1>4. CASE CleanUp
    <2> DEFINE f == Recounted(ExpiredLocks)
               l == Unlocked(ExpiredLocks)
    <2>1. \A v \in User : l[v] # NoLock <=> f[v] >= MaxFailures
      BY <1>a DEF LockGoesWithCounter, Recounted, Unlocked
    <2>2. (failures' = f /\ locks' = l) \/ UNCHANGED <<failures, locks>>
      BY <1>4 DEF CleanUp, WriteSessions, WriteOthers, Replace, ReplaceFails, store
    <2>3. CASE failures' = f /\ locks' = l
      BY <2>1, <2>3 DEF LockGoesWithCounter
    <2>4. QED
      BY <1>1, <2>2, <2>3
  <1>5. CASE Tick
    <2>1. \A u \in User : locks[u] # NoLock => Less(locks[u]) # NoLock
      BY <1>a DEF Less
    <2>2. \A u \in User : locks'[u] # NoLock <=> locks[u] # NoLock
      BY <1>5, <2>1 DEF Tick
    <2>3. QED
      BY <1>5, <2>2 DEF Tick, LockGoesWithCounter
  <1>6. QED
    BY <1>1, <1>2, <1>3, <1>4, <1>5, OthersLeaveLocks

\* An account is locked exactly when its counter has reached the limit (Login,
\* cleanExpiredSessions).
THEOREM LocksMatch == Spec => []LockGoesWithCounter
  <1>1. ~(0 >= MaxFailures)
    BY ConstantsAssumption
  <1>2. Init => LockGoesWithCounter
    BY <1>1 DEF Init, LockGoesWithCounter
  <1>3. QED
    BY <1>2, LockStep, TypeCorrect, PTL DEF Spec

(***************************************************************************)
(* The store agrees with the map.                                          *)
(***************************************************************************)

\* A write of the sessions makes both agree, or is remembered as failed; no
\* other write touches either.
LEMMA AgreeStep == StoreAgrees /\ [Next]_vars => StoreAgrees'
  <1> SUFFICES ASSUME StoreAgrees, [Next]_vars
               PROVE  StoreAgrees'
    OBVIOUS
  <1>1. ASSUME NEW map, NEW u, NEW f, NEW l,
               WriteSessions(map, u, f, l) \/ WriteOthers(u, f, l)
        PROVE  StoreAgrees'
    BY <1>1 DEF WriteSessions, WriteOthers, Replace, ReplaceFails, store, StoreAgrees
  <1>2. CASE UNCHANGED <<store, sessions, unsaved>>
    BY <1>2 DEF store, StoreAgrees
  <1>3. ASSUME NEW u \in User, UserNext(u)
        PROVE  StoreAgrees'
    BY <1>1, <1>3 DEF UserNext, LoginFails, LoginSucceeds, ChangePassword, DeleteUser, SaveUser
  <1>4. ASSUME NEW k \in Token, Logout(k)
        PROVE  StoreAgrees'
    BY <1>1, <1>4 DEF Logout
  <1>5. ASSUME NEW r \in Request, CurrentUser(r) \/ \E k \in Token : LookUp(r, k)
        PROVE  StoreAgrees'
    BY <1>1, <1>2, <1>5 DEF CurrentUser, LookUp, Judge, Drop, Keep
  <1>6. CASE CleanUp
    BY <1>1, <1>6 DEF CleanUp
  <1>7. CASE Tick
    BY <1>7 DEF Tick, StoreAgrees
  <1>8. CASE Restart
    BY <1>8 DEF Restart, store, StoreAgrees
  <1>9. QED
    BY <1>2, <1>3, <1>4, <1>5, <1>6, <1>7, <1>8 DEF Next, vars

\* As long as no write of the sessions failed, the store and the map agree
\* (applySessionsToSnapshot before every Replace that follows a change).
THEOREM Agreement == Spec => []StoreAgrees
  <1>1. Init => StoreAgrees
    BY DEF Init, StoreAgrees
  <1>2. QED
    BY <1>1, AgreeStep, PTL DEF Spec

(***************************************************************************)
(* A change of password is final for every token that no request brings at *)
(* that moment: the race of CurrentUser is the only way back.              *)
(***************************************************************************)
NotBrought(k) == \A r \in Request : request[r] # Done => request[r].token # k

Dead(k) == sessions[k] = NoSession /\ stored[k] = NoSession /\ NotBrought(k)

\* The writes of the sessions that bring back no token that is gone.
LEMMA WriteKeepsGone ==
    ASSUME NEW k, sessions[k] = NoSession, stored[k] = NoSession,
           NEW map, NEW u, NEW f, NEW l,
           \/ WriteSessions(map, u, f, l) /\ map[k] = NoSession
           \/ WriteOthers(u, f, l)
    PROVE  sessions'[k] = NoSession /\ stored'[k] = NoSession
  BY DEF WriteSessions, WriteOthers, Replace, ReplaceFails, store

\* A token whose session was ended by a change of password, and that no request
\* under way has looked up, stays so: a login takes a new token, no request can
\* look it up again, and no other token's request puts it back.
LEMMA DeadStep ==
    ASSUME NEW k \in Token
    PROVE  TypeOK /\ k \in revoked /\ Dead(k) /\ [Next]_vars => k \in revoked' /\ Dead(k)'
  <1> SUFFICES ASSUME TypeOK, k \in revoked, sessions[k] = NoSession, stored[k] = NoSession,
                      NotBrought(k), [Next]_vars
               PROVE  /\ k \in revoked' /\ sessions'[k] = NoSession /\ stored'[k] = NoSession
                      /\ NotBrought(k)'
    BY DEF Dead
  <1> DEFINE Gone == sessions'[k] = NoSession /\ stored'[k] = NoSession
  <1>a. /\ sessions \in [Token -> Session \cup {NoSession}]
        /\ stored \in [Token -> Session \cup {NoSession}]
        /\ request \in [Request -> Pending \cup {Done}]
    BY DEF TypeOK
  <1>b. \A K : Without(K)[k] = NoSession
    BY DEF Without
  <1>c. request' = request => NotBrought(k)'
    BY DEF NotBrought
  <1>d. ASSUME NEW r \in Request, request' = [request EXCEPT ![r] = Done]
        PROVE  NotBrought(k)'
    BY <1>a, <1>d DEF NotBrought
  <1>1. ASSUME NEW u \in User, UserNext(u)
        PROVE  k \in revoked' /\ Gone /\ NotBrought(k)'
    <2>1. ASSUME NEW t \in Token, LoginSucceeds(u, t)
          PROVE  Gone
      <3>1. t # k
        BY <2>1 DEF LoginSucceeds, NewToken
      <3>2. [sessions EXCEPT ![t] = NewSession(u)][k] = NoSession
        BY <1>a, <3>1
      <3>3. QED
        BY <2>1, <3>2, WriteKeepsGone DEF LoginSucceeds
    <2>2. LoginFails(u) => Gone
      BY WriteKeepsGone DEF LoginFails
    <2>3. ChangePassword(u) \/ DeleteUser(u) => Gone
      BY <1>b, WriteKeepsGone DEF ChangePassword, DeleteUser
    <2>4. \A status : SaveUser(u, status) => Gone
      BY WriteKeepsGone DEF SaveUser
    <2>5. Gone
      BY <1>1, <2>1, <2>2, <2>3, <2>4 DEF UserNext
    <2>6. request' = request /\ k \in revoked'
      BY <1>1 DEF UserNext, LoginFails, LoginSucceeds, ChangePassword, DeleteUser, SaveUser
    <2>7. QED
      BY <1>c, <2>5, <2>6
  <1>2. ASSUME NEW t \in Token, Logout(t)
        PROVE  k \in revoked' /\ Gone /\ NotBrought(k)'
    BY <1>b, <1>c, <1>2, WriteKeepsGone DEF Logout
  <1>3. ASSUME NEW r \in Request, NEW t \in Token, LookUp(r, t)
        PROVE  k \in revoked' /\ Gone /\ NotBrought(k)'
    <2>1. t # k
      BY <1>3 DEF LookUp
    <2>2. NotBrought(k)'
      BY <1>a, <1>3, <2>1 DEF LookUp, NotBrought
    <2>3. QED
      BY <1>3, <2>2 DEF LookUp, store
  <1>4. ASSUME NEW r \in Request, CurrentUser(r)
        PROVE  k \in revoked' /\ Gone /\ NotBrought(k)'
    <2>1. CASE Judge(r)
      <3>1. request[r] # Done /\ request[r] \in Pending
        BY <1>a, <2>1 DEF Judge, At, Done
      <3>2. request'[r].token = request[r].token
        BY <1>a, <2>1, <3>1 DEF Judge, Pending
      <3>3. \A q \in Request : q # r => request'[q] = request[q]
        BY <1>a, <2>1 DEF Judge
      <3>4. NotBrought(k)'
        BY <3>1, <3>2, <3>3 DEF NotBrought
      <3>5. QED
        BY <2>1, <3>4 DEF Judge, store
    <2>2. CASE Drop(r)
      <3>1. Gone
        BY <1>b, <2>2, WriteKeepsGone DEF Drop
      <3>2. QED
        BY <1>d, <2>2, <3>1 DEF Drop, Answer
    <2>3. CASE Keep(r)
      <3>1. request[r] # Done
        BY <2>3 DEF Keep, At, Done
      <3>2. [sessions EXCEPT ![request[r].token] = request[r].session][k] = NoSession
        BY <1>a, <3>1 DEF NotBrought
      <3>3. Gone
        BY <1>b, <2>3, <3>2, WriteKeepsGone DEF Keep, store
      <3>4. QED
        BY <1>d, <2>3, <3>3 DEF Keep, Answer
    <2>4. QED
      BY <1>4, <2>1, <2>2, <2>3 DEF CurrentUser
  <1>5. CASE CleanUp
    <2>1. Gone
      BY <1>b, <1>5, WriteKeepsGone DEF CleanUp
    <2>2. QED
      BY <1>c, <1>5, <2>1 DEF CleanUp
  <1>6. CASE Tick
    <2>1. Gone
      BY <1>6 DEF Tick, Older
    <2>2. ASSUME NEW r \in Request, request'[r] # Done
          PROVE  request'[r].token # k
      <3>1. request[r] # Done /\ request[r] \in Pending
        BY <1>a, <1>6, <2>2 DEF Tick
      <3>2. request'[r] = [request[r] EXCEPT !.session = Older(@)]
        BY <1>6, <3>1 DEF Tick
      <3>3. request'[r].token = request[r].token
        BY <3>1, <3>2 DEF Pending
      <3>4. QED
        BY <3>1, <3>3 DEF NotBrought
    <2>3. QED
      BY <1>6, <2>1, <2>2 DEF Tick, NotBrought
  <1>7. CASE Restart
    BY <1>7 DEF Restart, store, NotBrought
  <1>8. CASE UNCHANGED vars
    BY <1>8 DEF vars, store, NotBrought
  <1>9. QED
    BY <1>1, <1>2, <1>3, <1>4, <1>5, <1>6, <1>7, <1>8 DEF Next

\* A change of password whose write succeeds ends, in the map and in the store,
\* every session of its user, and the tokens that no request brings are dead.
LEMMA ChangeKills ==
    ASSUME TypeOK, NEW u \in User, ChangePassword(u), ~unsaved',
           NEW k \in SessionsOf(u), NotBrought(k)
    PROVE  k \in revoked' /\ Dead(k)'
  <1>1. k \in Token /\ Without(SessionsOf(u))[k] = NoSession
    BY DEF Without, SessionsOf
  <1>2. sessions'[k] = NoSession /\ stored'[k] = NoSession
    BY <1>1 DEF ChangePassword, WriteSessions, Replace
  <1>3. k \in revoked' /\ request' = request
    BY DEF ChangePassword
  <1>4. QED
    BY <1>2, <1>3 DEF Dead, NotBrought

\* Once a change of password has ended a session and no request is in the middle
\* of authenticating with its token, the session is gone for good, across
\* restarts, failing writes, logins and other requests: a request that had
\* looked it up before is all that can bring it back (ChangePassword, CurrentUser).
THEOREM RevocationIsFinal ==
    ASSUME NEW k \in Token
    PROVE  Spec => [](k \in revoked /\ Dead(k) => []Dead(k))
  <1> DEFINE D == k \in revoked /\ Dead(k)
  <1>1. TypeOK /\ D /\ [Next]_vars => D'
    BY DeadStep
  <1>2. D => Dead(k)
    OBVIOUS
  <1> HIDE DEF D
  <1>3. Spec => [](D => []Dead(k))
    BY <1>1, <1>2, TypeCorrect, PTL DEF Spec
  <1>4. QED
    BY <1>3 DEF D

\* A change of password that is written ends every session of its user for good,
\* save those a request is bringing at that moment: the promise of CHANGELOG.md
\* holds but for the race of CurrentUser.
THEOREM PasswordChangeRevokes ==
    ASSUME NEW u \in User, NEW k \in Token
    PROVE  Spec => [][/\ ChangePassword(u) /\ ~unsaved'
                      /\ k \in SessionsOf(u) /\ NotBrought(k)
                      => k \in revoked' /\ Dead(k)']_vars
  <1> DEFINE A == /\ ChangePassword(u) /\ ~unsaved'
                  /\ k \in SessionsOf(u) /\ NotBrought(k)
                  => k \in revoked' /\ Dead(k)'
  <1>1. TypeOK /\ [Next]_vars => [A]_vars
    BY ChangeKills
  <1>2. QED
    BY <1>1, TypeCorrect, PTL DEF Spec
===============================================================================
