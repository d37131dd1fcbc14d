SPECIFICATION FairSpec
CONSTANTS
    a = a  b = b  c = c  x = x  y = y
    Listeners = {a, b, c}
    Addrs = {x, y}
    Configs <- SomeConfigs
    FirstConfig <- OnlyA
    Workers = {w1}
    Conns = {c1, c2}
    Limit = 1
    Services <- Service
    MaxRevision = 2
    MaxRenewals = 1
    MaxAcceptErrors = 1
    NoTls = NoTls
    Closed = Closed
INVARIANTS IdentitiesKept ListenerAvailable WorkersMatchConfig NothingLeftBehind
PROPERTY MainReturns
