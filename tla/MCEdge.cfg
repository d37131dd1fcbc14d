CONSTANTS
    MainFile = "main"
    LoadScenarios <- Scenarios
    DispatchScenarios <- AllDispatches
    k1 = k1  k2 = k2  t1 = t1  t2 = t2
    RateModes <- SomeRateModes
    Buckets = {k1, k2}
    Checks = {t1, t2}
    Policies <- SomeRatePolicies
    CleanupInterval = 1
    MaxClock = 2
    MaxAdmitted = 4
    MaxFaults = 1
    Recorders = {w1, w2}
    Mixes <- SomeMixes
    Admins = {o1}
    MaxWindow = 3
    MaxSecond = 5
    MaxIncrements = 4
SPECIFICATION Spec
INVARIANTS
    IncludesExpanded CompiledSound
    RouteIsMostSpecific ClientVouched OnlyCheckedExecuted CountersExact
    LimitExact ChangesReachClients
SYMMETRY RateSymmetry
CHECK_DEADLOCK FALSE
