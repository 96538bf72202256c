SPECIFICATION FairSpec
CONSTANTS
    Node = {n1}
    Browser = {}
    NoNode = NoNode
    NoTask = NoTask
    MaxTasks = 2
    SgxChoice = {FALSE}
    Concurrency = 1
    Limit <- Slots
PROPERTY TasksEnd
