SPECIFICATION Spec
CONSTANTS
    t1 = t1
    t2 = t2
    k1 = k1
    k2 = k2
    k3 = k3
    Threads = {t1, t2}
    Checkouts = {k1, k2, k3}
    ThreadOf <- MCThreadOf
    Entities = {a, b}
    Unknown = unknown
    None = none
    Cells = {c1, c2}
    MaxSize = 1
    BatchSize = 1
SYMMETRY Symmetry
INVARIANTS
    Exclusive
    OwnFeatures
    NothingForeign
    Bounded
