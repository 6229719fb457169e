\* A name is removed while it is being loaded, and loaded again.
SPECIFICATION Spec
CONSTANTS
    Thread = {t1, t2, t3}
    Name = {n1, n2}
    Model = {x1, x2, x3, x4}
    NoModel = NoModel
    Absent = Absent
    MaxOps = 2
    Overlap = TRUE
SYMMETRY Symmetry
INVARIANTS
    OneLoadPerName
\* Goroutines stop after MaxOps calls.
CHECK_DEADLOCK FALSE
