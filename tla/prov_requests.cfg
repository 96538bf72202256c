SPECIFICATION Spec
CONSTANTS
    Node = {n1}
    Browser = {b1}
    NoNode = NoNode
    NoTask = NoTask
    MaxTasks = 2
    SgxChoice = {FALSE}
    Concurrency = 2
    Limit <- Requests
INVARIANTS TypeOK StepsAreTruthful StepOrder EndedTasksAreAlone NodeTellsOfItsTask
PROPERTY FollowsLifecycle
