\* Crossing and rival requests on pools of two threads.
CONSTANTS
    h1 = h1
    h2 = h2
    d1 = d1
    d2 = d2
    None = None
    Hosts <- TwoHosts
    Domains <- TwoDomains
    MaxRequests = 2
    Home <- OneEach
    Asked <- AnyTwo
    Threads = 2
SPECIFICATION FairSpec
INVARIANTS Consistent RollbackIsSafe
PROPERTIES SuccessIsComplete MigrationsEnd
\* Every request has ended or its pool is full for good.
CHECK_DEADLOCK FALSE
