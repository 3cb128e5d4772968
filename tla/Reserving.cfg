\* One reservable task and the workers who contend for it.
SPECIFICATION Spec
SYMMETRY Symmetry
CONSTANTS
    req_u = req_u
    wrk_u = wrk_u
    alt_u = alt_u
    t1 = t1
    t2 = t2
    o1 = o1
    m1 = m1
    None = None
    Users = {req_u, wrk_u, alt_u}
    Orgs = {}
    Teams = {}
    Staff <- NoStaff
    Members <- NoMembers
    Tasks = {t1}
    Creator <- SoloCreator
    OwnerOrg <- NoOrg
    Policy <- ReservedPolicy
    Scope <- UserScope
    InitialKind <- NoReward
    InitialAmount <- ZeroCredits
    Expires <- InOrder
    Collectibles = {}
    Giftable = {}
    Submissions = {s1, s2}
    Reservations = {r1, r2, r3}
    Requests = {q1, q2}
    Keys = {k1}
    Amounts = {}
    InitialCredits = 0
    CreditSupply = 0
    DailyCeiling = 0
INVARIANTS
    OneActiveReservation
    NoBannedHolder
    NoDanglingReservation
    SubmittedAwaitsReview
PROPERTIES
    EndedReservationsStayEnded
CHECK_DEADLOCK FALSE
