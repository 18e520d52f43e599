SPECIFICATION Spec
CONSTANTS
    Workers <- MCWorkers
    Master = "master"
    BatchSize = 2
    AddSizes = {1, 3}
    MaxChecks = 4
    MaxBlocks = 2
INVARIANTS
    QueueFinished
    AnswerIsExact
PROPERTIES
    WaitReturns
    StopReturns
