\* Two handlers and the sweeps of two replicas race over two events.
SPECIFICATION FairSpec
CONSTANTS
    u1 = u1
    None = None
    Txs = {x1, x2}
    Sweepers = {w1, w2}
    Users = {u1}
    Shapes <- OneShape
    MaxSeq = 2
    Cap = 2
    Batch = 1
    PageLimit = 1
INVARIANTS
    TypeOK
    FeedNeverSkips
    DispatchedReachedAll
    AttemptsBounded
PROPERTIES
    SettledIsFinal
    EventsSettle
