\* The instance of Webhooks.cfg: whether every readable delivery settles.
SPECIFICATION FairSpec
CONSTANTS
    s1 = s1
    s2 = s2
    Subs = {s1, s2}
    Events = {e1}
    Recipients <- SmallRecipients
    Market <- SmallMarket
    Pumps = {p1, p2}
    MaxAttempts = 2
    Batch = 1
PROPERTIES
    ReadableSettle
CHECK_DEADLOCK FALSE
