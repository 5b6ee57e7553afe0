SPECIFICATION Spec
CONSTANTS
    Mutators = {m1, m2}
    Objects = {o1, o2}
    Null = Null
    Fields = {f}
    Statics = {}
    NodeSize = 1
    MaxOps = 2
    ExitGap = TRUE
SYMMETRY Symmetry
CONSTRAINT OneCollection
INVARIANTS
    NoUnmarkedLive
