SPECIFICATION FairSpec
CONSTANTS
    User = {u1}
    Token = {k1}
    Request = {r1, r2}
    Timeout = 2
    Lifetime = 3
    LockTime = 1
    MaxFailures = 2
    NoSession = NoSession
    NoLock = NoLock
INVARIANTS TypeOK SessionsHaveUsers LockGoesWithCounter StoreAgrees
PROPERTY SessionsEnd
