SPECIFICATION LiveSpec
CONSTANTS
    Mutators = {m1, m2}
    GCThreads = {g1}
    NoOwner = NoOwner
PROPERTIES
    StopCompletes
    BlockedIsWoken
