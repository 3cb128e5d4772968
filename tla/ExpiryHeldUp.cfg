\* The instance of Sweeps.cfg: whether every due task expires.
SPECIFICATION FairSpec
CONSTANTS
    req_u = req_u
    wrk_u = wrk_u
    alt_u = alt_u
    t1 = t1
    t2 = t2
    o1 = o1
    m1 = m1
    None = None
    Users = {req_u, wrk_u}
    Orgs = {o1}
    Teams = {m1}
    Staff <- NoStaff
    Members <- WorkerTeam
    Tasks = {t1, t2}
    Creator <- SoloCreator
    OwnerOrg <- FirstOrg
    Policy <- SecondReserved
    Scope <- SecondTeam
    InitialKind <- FirstRewarded
    InitialAmount <- FirstCredit
    Expires <- InOrder
    Collectibles = {}
    Giftable = {}
    Submissions = {}
    Reservations = {r1}
    Requests = {q1}
    Keys = {k1, k2}
    Amounts = {1}
    InitialCredits = 2
    CreditSupply = 0
    DailyCeiling = 0
PROPERTIES
    DueTasksExpire
CHECK_DEADLOCK FALSE
