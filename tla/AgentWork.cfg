\* A credential and the requests that race through it.
SPECIFICATION Spec
CONSTANTS
    t1 = t1
    Creds = {c1}
    Tasks = {t1, t2, d1}
    Direct = {d1}
    Reservations = {r1, r2}
    Policies <- TwoPolicies
    Requests = {q1, q2, q3}
    Amounts = {2}
    LastDay = 2
    Retention = 1
    None = None
SYMMETRY Interchangeable
INVARIANTS
    WithinGrantedBudget
    CapExceededOnlyByChanges
PROPERTIES
    PolicyChangeTakesHold
CHECK_DEADLOCK FALSE
