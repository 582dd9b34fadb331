\* Transactions follow one another on run r1, and may overlap on run r2.
SPECIFICATION Spec
CONSTANTS
    s1 = s1
    s2 = s2
    r1 = r1
    r2 = r2
    b1 = b1
    b2 = b2
    Sessions = {s1, s2}
    Runs = {r1, r2}
    Bodies = {b1, b2}
    MaxId = 3
    Serial = {r1}
INVARIANTS
    TypeOK
    VerifyIsExact
    PrevIsKept
PROPERTIES
    RefinesTrail
