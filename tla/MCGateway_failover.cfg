\* One request over every failover shape, two failed telemetry statements, a
\* sealed credential and a restart.
SPECIFICATION Spec
CONSTANTS
    Requests = {r1}
    k1 = k1
    k2 = k2
    k3 = k3
    Keys = {k1, k2, k3}
    SealedKeys = {k3}
    Rules = {"terse"}
    Plans <- DeepPlans
    Statuses = {400, 429, 503}
    None = None
    MaxFailures = 2
    MaxCrashes = 1
INVARIANTS
    TypeOK
    SingleSource
    AttemptsWalkThePlan
    RecordMatchesDelivery
    DashboardAgrees
    ClosedRequestHasClosedAttempts
    InProgressIsLive
PROPERTIES
    HeldOnlyByUpstream
    PromiseKept
    RecordIsFinal
CHECK_DEADLOCK FALSE
