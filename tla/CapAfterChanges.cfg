\* The instance of AgentWork.cfg: whether the cap on active reservations holds.
SPECIFICATION Spec
CONSTANTS
    t1 = t1
    Creds = {c1}
    Tasks = {t1, t2, d1}
    Direct = {d1}
    Reservations = {r1, r2}
    Policies <- TwoPolicies
    Requests = {q1, q2, q3}
    Amounts = {2}
    LastDay = 2
    Retention = 1
    None = None
SYMMETRY Interchangeable
INVARIANT ActiveWithinCap
CHECK_DEADLOCK FALSE
