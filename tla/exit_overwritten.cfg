SPECIFICATION Spec
CONSTANTS
    g1 = g1  g2 = g2  j1 = j1  j2 = j2  k1 = k1  i1 = i1  i2 = i2  r1 = r1  r2 = r2
    NoToken = NoToken  NoJob = NoJob  NoIdent = NoIdent  NoKey = NoKey  NoGateway = NoGateway
    Gateways = {g1}
    Jobs = {j1}
    Requests = {r1}
    Keys = {k1}
    Idents = {i1}
    KeyOf <- KeyOne
    IdentOf <- IdentOne
    LeaseTTL = 1
    MaxJobs = 1
    FinishAttempts = 2
    MaxBoots = 1
    MaxFaults = 0
    Exits = {"zero", "minus1"}
    May = {"cancel"}
PROPERTIES FactualExitRemains
CHECK_DEADLOCK FALSE
