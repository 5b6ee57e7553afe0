SPECIFICATION LiveSpec
CONSTANTS
    Workers = {w1, w2, w3}
    GC = GC
    Tasks = {t1, t2}
    NoTask = NoTask
INVARIANTS
    CountersExact
    StoppedIsQuiet
    NoTaskLeftBehind
PROPERTIES
    WaitFinishReturns
    ExitEndsWorkers
