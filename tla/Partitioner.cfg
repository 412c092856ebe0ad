SPECIFICATION FairSpec
CONSTANTS
    NumProducers = 2
    NumShards = 4
    NumTasks = 2
    MaxFaults = 1
    MaxChanges = 2
INVARIANTS
    TypeOK
    TasksAreTold
    DividedWhenSettled
PROPERTY EventuallySettled
CHECK_DEADLOCK FALSE
