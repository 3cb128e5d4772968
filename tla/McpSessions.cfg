\* Two replicas open, use and end the sessions of two callers; a client of one
\* session resumes its stream on either replica while both append.
SPECIFICATION Spec
CONSTANTS
    u1 = u1
    u2 = u2
    s4 = s4
    Replicas = {p1, p2}
    Sessions = {s1, s2, s3, s4}
    Subjects = {u1, u2}
    Owner <- TwoOwners
    Streams = {x1}
    PerSubject = 1
    Total = 2
    Window = 1
    Channel = 1
    MaxEvents = 3
    None = None
CONSTRAINT FewAtATime
SYMMETRY Interchangeable
INVARIANTS
    SessionsBounded
    NoSilentGap
CHECK_DEADLOCK FALSE
