SPECIFICATION Spec
CONSTANTS
    Mutators = {m1, m2}
    GCThreads = {g1, g2}
    NoOwner = NoOwner
SYMMETRY Symmetry
INVARIANTS
    TypeOK
    StoppedMeansParked
    NoFatal
    FiniNeverBlocks
    RestoresCaller
    NoLostWakeup
PROPERTIES
    ListFixedWhilePending
    Refinement
