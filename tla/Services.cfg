SPECIFICATION Spec
CONSTANTS
    Masters = {m1, m2}
    FirstSerial = 2
    LastSerial = 2
    FutureSerials = {}
    MaxXfrMishaps = 2
    MaxJobs = 2
    MaxStarts = 1
    MaxLosses = 1
    MaxAttempts = 2
    MaxRequestFaults = 3
    Pools = {"p", "q"}
    PoolWorkers = {"w"}
    PoolThreads = 2
    MaxPoolJobs = 3
    MaxPoolChanges = 2
    Holders = {t1, t2}
    FipCallers = {f1, f2}
    MaxSets = 2
    MaxPasses = 2
    i1 = i1
    i2 = i2
    Instances = {i1, i2}
    Names = {"m", "n"}
    Addresses = 1
    Sinks = {"h1", "h2"}
    MaxSinkFaults = 1
    ImportIds = {i1, i2}
    ExportIds = {e1}
    OwnerLimit = 2
    ExporterLimit = 1
    MaxRRSets = 2
    MaxTaskUpsets = 1
    Nameservers = {"n1"}
    MaxSeconds = 3
    MaxRecordChanges = 2
    MaxZoneChanges = 1
    MaxTransferFaults = 1
    Clients = {"one", "two"}
    Queries = {q1}
    SpareThreads = 1
    QueryBytes = 1
    MaxBytes <- MCMaxBytes
    MaxFaults = 1
INVARIANTS ServicesTypeOK WhatIsSaidHolds RecordsFitWhenDone AnswersAreWhole
PROPERTIES PeriodicTasksSettle  ManagedRecordsFollow MdnsServes
CHECK_DEADLOCK FALSE
