SPECIFICATION Spec
CONSTANTS
    g1 = g1  g2 = g2  j1 = j1  j2 = j2  k1 = k1  i1 = i1  i2 = i2  r1 = r1  r2 = r2
    NoToken = NoToken  NoJob = NoJob  NoIdent = NoIdent  NoKey = NoKey  NoGateway = NoGateway
    Gateways = {g1}
    Jobs = {j1, j2}
    Requests = {r1, r2}
    Keys = {k1}
    Idents = {i1}
    KeyOf <- KeyMixed
    IdentOf <- IdentSame
    LeaseTTL = 1
    MaxJobs = 1
    FinishAttempts = 1
    MaxBoots = 1
    MaxFaults = 1
    Exits = {"zero", "none"}
    May = {"expiry", "cancel", "shutdown", "drain timeout", "not restored", "deny", "old records"}
SYMMETRY JobSymmetry
INVARIANTS SessionPinned UnkeyedSettles
CHECK_DEADLOCK FALSE
