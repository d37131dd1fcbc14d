----------------------------- MODULE MCFillLock -----------------------------
EXTENDS FillLock
CONSTANTS p1, p2, r1, r2, r3, fa, fb

\* Two processes; r1 and r2 share the first, r3 is alone in the second.
TwoAndOne == [r \in {r1, r2, r3} |-> IF r = r3 THEN p2 ELSE p1]

\* The first process fills, the second has two requests.
OneAndTwo == [r \in {r1, r2, r3} |-> IF r = r1 THEN p1 ELSE p2]

\* r1 and r3 may share a fill, r2 asks with other headers.
TwoKinds == [r \in {r1, r2, r3} |-> IF r = r2 THEN fb ELSE fa]

\* All the requests may share a fill.
OneKind == [r \in Requests |-> fa]
=============================================================================
