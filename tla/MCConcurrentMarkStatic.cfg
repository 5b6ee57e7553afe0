SPECIFICATION Spec
CONSTANTS
    Mutators = {m1}
    Objects = {o1, o2}
    Null = Null
    Fields = {f}
    Statics = {s}
    NodeSize = 1
    MaxOps = 4
    ExitGap = FALSE
SYMMETRY Symmetry
CONSTRAINT OneCollection
INVARIANTS
    NoLiveGarbage
