SPECIFICATION Spec
CONSTANTS
    c1 = c1
    c2 = c2
    c3 = c3
    t1 = t1
    t2 = t2
    Checksum = {c1, c2, c3}
    Thread = {t1, t2}
    Lengths = {1}
    Settings <- OneSetting
    MaxDeps = 1
    MaxInterest = 1
    None = None
    Inf = Inf
SYMMETRY Symmetry
INVARIANTS InterestCounted CostsCurrent
PROPERTY DirectKeepsDependencies
