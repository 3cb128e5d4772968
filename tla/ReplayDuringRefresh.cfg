\* The instance of Sessions.cfg: whether a replay ends a session.
SPECIFICATION Spec
CONSTANTS
    Passworded = {u1}
    External = {u2}
    Guests = {g1}
    Tokens = {t1, t2, t3}
    Mails = {m1, m2}
    Sids = {x1}
    Jtis = {j1}
    None = None
SYMMETRY Interchangeable
PROPERTY EndedFamilyHasNoHeir
CHECK_DEADLOCK FALSE
