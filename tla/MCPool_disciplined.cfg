\* Remove and Free are not called while a Load runs.
SPECIFICATION Spec
CONSTANTS
    Thread = {t1, t2, t3}
    Name = {n1, n2}
    Model = {x1, x2, x3, x4}
    NoModel = NoModel
    Absent = Absent
    MaxOps = 2
    Overlap = FALSE
SYMMETRY Symmetry
INVARIANTS
    TypeOK
    OneLoadPerName
    RegisteredIsLive
    EveryModelReachable
    ReservedWhileLoading
\* Goroutines stop after MaxOps calls.
CHECK_DEADLOCK FALSE
