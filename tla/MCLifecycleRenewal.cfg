SPECIFICATION RenewalSpec
CONSTANTS
    a = a  b = b  c = c  x = x  y = y
    Listeners = {a, b, c}
    Addrs = {x, y}
    Configs <- SomeConfigs
    FirstConfig <- OnlyA
    Workers = {w1}
    Conns = {c1}
    Limit = 1
    Services <- Service
    MaxRevision = 1
    MaxRenewals = 1
    MaxAcceptErrors = 0
    NoTls = NoTls
    Closed = Closed
INVARIANT NoPlaintextOnTls
