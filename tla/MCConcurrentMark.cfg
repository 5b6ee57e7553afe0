SPECIFICATION Spec
CONSTANTS
    Mutators = {m1, m2}
    Objects = {o1, o2}
    Null = Null
    Fields = {f}
    Statics = {}
    NodeSize = 1
    MaxOps = 3
    ExitGap = FALSE
SYMMETRY Symmetry
CONSTRAINT OneCollection
INVARIANTS
    NothingHidden
    NoLiveGarbage
