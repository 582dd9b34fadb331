\* Transactions on one run overlap, as nothing in the code prevents.
SPECIFICATION Spec
CONSTANTS
    s1 = s1
    s2 = s2
    r1 = r1
    r2 = r2
    b1 = b1
    b2 = b2
    Sessions = {s1, s2}
    Runs = {r1}
    Bodies = {b1, b2}
    MaxId = 3
    Serial = {}
INVARIANTS
    UntamperedVerifies
