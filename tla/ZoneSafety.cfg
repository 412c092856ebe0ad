SPECIFICATION Spec
CONSTANTS
    Recs = {r1}
    Nameservers = {n1, n2}
    Clients = {c1}
    Jobs = {j1, j2}
    Coordination = FALSE
    UpdateCreates = FALSE
    MaxClock = 2
    MaxChanges = 2
    MaxFaults = 1
    Threshold = 100
SYMMETRY Symmetry
INVARIANTS
    TypeOK
    ChangeTracked
    RemovedOnlyIfRequested
    ReportIsHonest
PROPERTIES
    SerialNeverFalls
    DeletedStaysDeleted
CHECK_DEADLOCK FALSE
