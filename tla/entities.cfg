SPECIFICATION Spec
CONSTANTS
    Image = {i1}
    Component = {c1, c2}
    Network = {n1}
    Profile = {p1}
    Key = {k1}
    Segment = {s1}
    NoSegment = NoSegment
    Build = {b1, b2}
    NoRecord = NoRecord
    Idle = Idle
INVARIANTS
    TypeOK
    ReferencesExist
    ScanningIsExplained
    ReleasedMeansVerified
PROPERTIES
    SecretsReleasedOnlyByProof
    BuildsCreateNoImage
SYMMETRY Symmetry
CONSTRAINT FewAtOnce
