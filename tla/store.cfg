SPECIFICATION FairSpec
CONSTANTS
    Client = {c1, c2}
    Edit = {e1, e2}
    Nobody = Nobody
INVARIANTS TypeOK AckedSurvives MemoryIsRow
PROPERTIES ImplementsRegister CallsReturn
