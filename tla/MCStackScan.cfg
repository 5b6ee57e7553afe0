SPECIFICATION LiveSpec
CONSTANTS
    Mutators = {m1, m2}
    GC = GC
    None = None
INVARIANTS
    RunsOnlyScanned
    EachStackOnce
    NoDeletedMutator
PROPERTIES
    BarrierEnds
