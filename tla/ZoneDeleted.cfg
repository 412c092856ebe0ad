SPECIFICATION Spec
CONSTANTS
    Recs = {r1}
    Nameservers = {n1}
    Clients = {c1}
    Jobs = {j1, j2}
    Coordination = TRUE
    UpdateCreates = FALSE
    MaxClock = 2
    MaxChanges = 1
    MaxFaults = 1
    Threshold = 100
PROPERTY DeletedMeansGone
CHECK_DEADLOCK FALSE
