SPECIFICATION Spec
CONSTANTS
    Calls = {c1, c2}
    Ops = {o1, o2}
    NoOp = NoOp
    MaxForwards = 2
    MaxEdits = 1
SYMMETRY Symmetry
INVARIANTS
    TypeOK
    SettledIsTrue
PROPERTIES
    RemovedAsReviewed
CONSTRAINT LateMatters
CHECK_DEADLOCK FALSE
