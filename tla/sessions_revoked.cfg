SPECIFICATION Spec
CONSTANTS
    User = {u1}
    Token = {k1}
    Request = {r1}
    Timeout = 1
    Lifetime = 2
    LockTime = 1
    MaxFailures = 2
    NoSession = NoSession
    NoLock = NoLock
INVARIANT RevokedStayRevoked
