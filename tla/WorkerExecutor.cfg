SPECIFICATION FairSpec
CONSTANTS
    Messages = {m1, m2, m3}
    NumHandlers = 2
    Threads = {t1, t2, t3}
    NumTargets = 2
    NumNameservers = 2
    NumAlsoNotify = 2
    MaxRetries = 2
    NoTask = NoTask
    Abandoned = Abandoned
INVARIANTS
    TypeOK
    NoStarvation
    NoFutureLost
PROPERTY EventuallyAnswered
