SPECIFICATION Spec
CONSTANTS
    Node = {n1}
    Browser = {b1}
    NoNode = NoNode
    NoTask = NoTask
    MaxTasks = 1
    SgxChoice = {FALSE}
    Concurrency = 2
    Limit <- CancelOnce
INVARIANT CancelledNodeNotOverwritten
