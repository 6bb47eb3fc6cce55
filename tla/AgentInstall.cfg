CONSTANTS
    c1 = c1
    c2 = c2
    Candidates = {c1, c2}
    Original = original
    Foreign = foreign
    Absent = absent
    Partial = partial
    MaxInstalls = 2
SPECIFICATION Spec
INVARIANTS TypeOK PreviousKept ReportTrue ReadyIsClean RecoverableUnlessTorn NoLeftovers
PROPERTY ForeignKept
CHECK_DEADLOCK FALSE
SYMMETRY MCSymmetry
