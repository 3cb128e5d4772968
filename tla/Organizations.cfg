\* Three users and a credential manage an organization, two requests at a time.
SPECIFICATION Spec
CONSTANTS
    Users = {u1, u2, u3}
    Verified = {u1, u2, u3}
    Tokens = {k1}
    Requests = {q1, q2}
    Roles = {"owner", "admin"}
    RoleLists <- OwnerOrAdmin
    TeamSize = 1
    None = None
SYMMETRY Interchangeable
PROPERTIES
    LastOwnerLostToStaleOrMissed
    OwnersRemovedByOwners
CHECK_DEADLOCK FALSE
