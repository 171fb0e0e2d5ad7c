SPECIFICATION Spec
CONSTANTS
    Key = {k1, k2, k3}
    Value = {v1}
    Worker = {w1}
    MaxSize = 2
    MaxPending = 2
    Absent = Absent
    Deleted = Deleted
SYMMETRY Symmetry
INVARIANTS
    TypeOK
    LastValueSurvives

    
