SPECIFICATION Spec
CONSTANTS
    c1 = c1  t1 = t1  t2 = t2  n1 = n1  n2 = n2  a1 = a1  a2 = a2
    NoJob = NoJob  NoRow = NoRow
    Tasks = {t1, t2}
    Coordinators = {c1}
    Calls = {n1}
    Callers = {"async", "sync", "unrouted"}
    Attempts = {a1, a2}
    JobIds <- TaskJobs
    Parts <- AllParts
    Plane = {"gateway", "executor"}
    Capacities = {1}
    Capacity <- Single
    GateSize = 2
    MaxTokens = 2
SYMMETRY TaskSymmetry
INVARIANT WorkerHoldsSlot
