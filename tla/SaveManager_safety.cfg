\* Two players, two changes, one login waiting.
SPECIFICATION Spec
CONSTANTS
    Guid = {g1, g2}
    Change = {c1, c2}
    Waiter = {w1}
    None = None
SYMMETRY Symmetry
INVARIANTS
    ChainExact
    TrackedCount
    Durable
PROPERTIES
    SavesInOrder
    DrainIsBarrier
