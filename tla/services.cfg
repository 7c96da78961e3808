SPECIFICATION ServicesSpec
CONSTANTS
    s1 = s1  s2 = s2  s3 = s3  w1 = w1  w2 = w2  a1 = a1  k1 = k1  k2 = k2
    Hosts = {u1, u2}
    Attempts = {b1, b2, b3}
    FailureThreshold = 2
    HalfOpenMaxCalls = 2
    MaxBreakers = 1
    Outcomes = {"connected", "unreachable", "unproven"}
    MaxFailures = 3
    Sessions = {s1, s2, s3}
    Callers = {w1, w2}
    Addresses = {a1}
    AddressOf <- SshAddresses
    OwnerOf <- SshOwners
    KeyOf <- SshKeys
    Limit <- SshLimits
    PoolKeys = {k1, k2}
    Transports = {x1, x2}
    NoTransport = NoTransport
    PoolSize = 1
    Commands = {m1}
    AccessKeys = {k1}
    MaxChanges = 2
    GatedCommands = {c1}
    ApprovalIds = {r1, r2}
    MaxGranted = 2
    Deliveries = {d1}
    HookInstances = {u1, u2}
    NoInstance = NoInstance
    Sends = {r1, r2}
    MaxAttempts = 2
    ClaimLimit = 20
    MaxDbErrors = 1
SYMMETRY ServicesSymmetry
INVARIANTS ServicesTypeOK ProbesBounded FullWaitsForReport
           SessionCap OneHolder OwnCredential DeniedSessionsListed
           MirrorAgrees PassesApproved HookSentAccepted HookDeadAfterFailures
CHECK_DEADLOCK FALSE
