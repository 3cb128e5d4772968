\* A session is touched between the two statements of the sweep.
SPECIFICATION Spec
CONSTANTS
    u1 = u1
    u2 = u2
    s4 = s4
    Replicas = {p1, p2}
    Sessions = {s1}
    Subjects = {u1}
    Owner <- TwoOwners
    Streams = {x1}
    PerSubject = 1
    Total = 1
    Window = 1
    Channel = 1
    MaxEvents = 3
    None = None
SYMMETRY Interchangeable
PROPERTIES
    EventsGoWithTheirSession
CHECK_DEADLOCK FALSE
