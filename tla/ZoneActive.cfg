SPECIFICATION Spec
CONSTANTS
    Recs = {r1}
    Nameservers = {n1}
    Clients = {c1}
    Jobs = {j1, j2}
    Coordination = TRUE
    UpdateCreates = FALSE
    MaxClock = 2
    MaxChanges = 2
    MaxFaults = 0
    Threshold = 100
INVARIANT ActiveMeansPropagated
CHECK_DEADLOCK FALSE
