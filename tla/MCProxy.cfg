SPECIFICATION ProxySpec
CONSTANTS
    p = p  q = q  s = s  p1 = p1  p2 = p2  q1 = q1  s1 = s1
    Peers = {p, q, s}
    Endpoints = {p1, p2, q1, s1}
    Upstreams <- SomeUpstreams
    Kinds <- SomeKinds
    Hashes = {0, 2}
    Requests = {r1, r2}
    Threshold = 2
    Required = 2
    MaxFaults = 3
    NoEndpoint = NoEndpoint
    Resolvers = {q11, q12}
    Ttls = {0, 2}
    DnsPolicies <- SomePolicies
    MaxTime = 4
    Addresses = {a1, a2, a3, a4}
    PoolSizes = {0, 1, 2}
    Multiplier = 2
    MinCapacity = 1
    MaxCapacity = 3
    MaxAccess = 11
INVARIANTS BalancingSound FailoverIsSafe HealthEarned  KeepsTheRecent
PROPERTY SelectionCorrect
SYMMETRY RequestSymmetry
