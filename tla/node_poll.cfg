SPECIFICATION Spec
CONSTANTS
    Node = {n1}
    NoNode = NoNode
    NoWait = NoWait
    Threshold = 3
    Cap = 2
    MaxCount = 4
    MaxEdits = 4
    MaxFaults = 3
INVARIANTS
    TypeOK
    BackoffMatchesFailures
PROPERTIES
    PollKeepsUserEdits
    DeadNodesAreReported
    LiveNodesReturn
