\* A task paid in credits, a collectible or both, whose submissions are reviewed twice.
SPECIFICATION Spec
SYMMETRY Symmetry
CONSTANTS
    req_u = req_u
    wrk_u = wrk_u
    alt_u = alt_u
    t1 = t1
    t2 = t2
    o1 = o1
    m1 = m1
    None = None
    Users = {req_u, wrk_u}
    Orgs = {}
    Teams = {}
    Staff <- NoStaff
    Members <- NoMembers
    Tasks = {t1}
    Creator <- SoloCreator
    OwnerOrg <- NoOrg
    Policy <- OpenPolicy
    Scope <- UserScope
    InitialKind <- NoReward
    InitialAmount <- ZeroCredits
    Expires <- InOrder
    Collectibles = {c1}
    Giftable = {c1}
    Submissions = {s1, s2}
    Reservations = {}
    Requests = {q1}
    Keys = {k1, k2}
    Amounts = {1, 2}
    InitialCredits = 2
    CreditSupply = 0
    DailyCeiling = 0
INVARIANTS
    TypeOK
    NoOverdraft
    Conservation
    TaskBooks
    OneAccepted
    NoOrphanedEscrow
    RewardRecorded
    OpenRewardBacked
PROPERTIES
    ImplementsEscrow
CHECK_DEADLOCK FALSE
