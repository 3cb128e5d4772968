\* Two drafts, grants, sends and gifts that compete for the same balances and collectible.
SPECIFICATION Spec
SYMMETRY Symmetry
CONSTANTS
    req_u = req_u
    wrk_u = wrk_u
    alt_u = alt_u
    t1 = t1
    t2 = t2
    o1 = o1
    m1 = m1
    None = None
    Users = {req_u, alt_u}
    Orgs = {}
    Teams = {}
    Staff <- NoStaff
    Members <- NoMembers
    Tasks = {t1, t2}
    Creator <- SoloCreator
    OwnerOrg <- NoOrg
    Policy <- OpenPolicy
    Scope <- UserScope
    InitialKind <- NoReward
    InitialAmount <- ZeroCredits
    Expires <- InOrder
    Collectibles = {c1}
    Giftable = {c1}
    Submissions = {}
    Reservations = {}
    Requests = {}
    Keys = {k1, k2}
    Amounts = {1}
    InitialCredits = 1
    CreditSupply = 1
    DailyCeiling = 1
INVARIANTS
    EscrowExclusive
PROPERTIES
    ImplementsEscrow
CHECK_DEADLOCK FALSE
