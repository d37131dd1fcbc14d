---------------------------- MODULE MCLifecycle ----------------------------
EXTENDS Lifecycle, TLC
CONSTANTS a, b, c, x, y

Tls(addr) == [addr |-> addr, tls |-> TRUE]
OnlyA == [l \in {a} |-> Tls(x)]
OnlyB == [l \in {b} |-> Tls(y)]
\* b gives up TLS, and c takes the address of a, which may still be draining.
BAndC == [l \in {b, c} |-> IF l = b THEN [addr |-> y, tls |-> FALSE] ELSE Tls(x)]

SomeConfigs == {OnlyA, OnlyB, BAndC}
Service == <<"admin">>
=============================================================================
