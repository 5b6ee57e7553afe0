SPECIFICATION LiveSpec
CONSTANTS
    Workers = {w1, w2, w3}
    NoTask = NoTask
    MaxTasks = 4
INVARIANTS
    FinishInOrder
    FinishedOnceAfterRun
    NothingLeftOut
PROPERTIES
    RunTaskReturns
