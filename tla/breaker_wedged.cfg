SPECIFICATION Spec
CONSTANTS
    Hosts = {h1}
    Attempts = {a1, a2}
    FailureThreshold = 2
    HalfOpenMaxCalls = 2
    MaxBreakers = 1
    Outcomes = {"connected", "unreachable", "unproven"}
    MaxFailures = 3
INVARIANTS HalfOpenResolves
