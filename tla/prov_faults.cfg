SPECIFICATION FairSpec
CONSTANTS
    Node = {n1}
    Browser = {b1}
    NoNode = NoNode
    NoTask = NoTask
    MaxTasks = 1
    SgxChoice = {TRUE, FALSE}
    Concurrency = 2
    Limit <- Faults
INVARIANTS SGXFailureKeepsK3s NodeTellsOfItsTask SucceededDidEverything ReadyMeansInstalled
PROPERTIES TasksEnd RunnersEnd
