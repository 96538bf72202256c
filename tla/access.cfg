SPECIFICATION Spec
CONSTANTS
    Account = {a1, a2, a3}
    Name = {a1, n2, n3}
    Request = {r1, r2}
    NoAccount = NoAccount
    Idle = Idle
INVARIANTS
    TypeOK
    UsernamesUnique
    AuditorsChangeNothing
PROPERTIES
    AdministrationEndsOnlyTwoWays
CHECK_DEADLOCK FALSE
