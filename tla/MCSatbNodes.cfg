SPECIFICATION Spec
CONSTANTS
    Mutators = {m1, m2}
    n1 = n1
    n2 = n2
    n3 = n3
    n4 = n4
    Nodes = {n1, n2, n3, n4}
    Null = Null
    Initial <- MCInitial
    Pages <- MCPages
SYMMETRY MCSymmetry
CHECK_DEADLOCK FALSE
INVARIANTS
    OneOwner
    NothingLost
    ListsMatch
