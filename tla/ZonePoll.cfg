SPECIFICATION Spec
CONSTANTS
    Nameservers = {n1, n2, n3}
    MaxRetries = 2
    MaxSerial = 2
    Threshold = 66
SYMMETRY Symmetry
INVARIANTS
    TypeOK
    VerdictOfLastRound
    SuccessStillHolds
    FailureIsFinal
CHECK_DEADLOCK FALSE
