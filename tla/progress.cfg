SPECIFICATION ProgressSpec
CONSTANTS
    c1 = c1  c2 = c2
    NoJob = NoJob  NoRow = NoRow
    Tasks = {t1}
    Coordinators = {c1, c2}
    Calls = {n1}
    Callers = {"sync"}
    Attempts = {1}
    JobIds <- TaskJobs
    Parts <- AllParts
    Plane = {"gateway"}
    Capacities = {1, 2}
    Capacity <- Mixed
    GateSize = 1
    MaxTokens = 1
    Deliveries = {d1}
    HookInstances = {i1, i2}
    NoInstance = NoInstance
    Sends = {s1}
    MaxAttempts = 3
    ClaimLimit = 20
    MaxDbErrors = 1
PROPERTIES WatchedJobReleased HookSettles
CHECK_DEADLOCK FALSE
