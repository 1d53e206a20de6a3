SPECIFICATION FairSpec
CONSTANTS
    NumEvents = 1
    NumProcesses = 2
    NumLeases = 5
    Events <- MCEvents
    Processes <- MCProcesses
    Workers <- MCWorkers
    Home <- MCHome
    Lease <- MCLease
    NoLease = 0
    NoEvent = 0
    NoWorker = 0
    MAX_ATTEMPTS = 2
    BATCH_SIZE = 1
    UseRedis = TRUE
    MaxFaults = 1
    MaxDelays = 0
PROPERTIES
    EventuallySettled
CHECK_DEADLOCK FALSE
