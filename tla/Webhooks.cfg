\* Two pumps that overtake each other's holds, a revocation, rows that do not parse.
SPECIFICATION FairSpec
CONSTANTS
    s1 = s1
    s2 = s2
    Subs = {s1, s2}
    Events = {e1}
    Recipients <- SmallRecipients
    Market <- SmallMarket
    Pumps = {p1, p2}
    MaxAttempts = 2
    Batch = 1
INVARIANTS
    EveryMatchExpanded
    OutcomesAreEarned
PROPERTIES
    EndedIsFinal
    DeliveriesSettle
CHECK_DEADLOCK FALSE
