SPECIFICATION LiveSpec
CONSTANTS
    Threads = {t1, t2}
    C = C
    P = P
    I = I
    J = J
    K = K
    E = E
    Classes = {C, P, I, J, K, E}
    Missing = Missing
    NoThread = NoThread
    SuperClassArray <- MCSuperClassArray
    Interfaces = {I, J, K}
    HasDefault = {I, K}
    HasClinit = {C, P, I}
    Uses <- MCUses
    MayThrow = {P, I, C}
    Program = {C, P, I, E}
INVARIANTS
    ClinitOnce
    NoHalfInitialised
    SupersFirst
PROPERTIES
    TryReturns
