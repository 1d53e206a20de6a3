SPECIFICATION Spec
CONSTANTS
    NumEvents = 2
    NumProcesses = 2
    NumLeases = 6
    Events <- MCEvents
    Processes <- MCProcesses
    Workers <- MCWorkers
    Home <- MCHome
    Lease <- MCLease
    NoLease = 0
    NoEvent = 0
    NoWorker = 0
    MAX_ATTEMPTS = 2
    BATCH_SIZE = 2
    UseRedis = FALSE
    MaxFaults = 1
    MaxDelays = 1
PROPERTIES
    FencedOutcome
    ImplementsContract
CHECK_DEADLOCK FALSE
