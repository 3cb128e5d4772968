\* The instance of Organizations.cfg: whether only owners remove owners.
SPECIFICATION Spec
CONSTANTS
    Users = {u1, u2, u3}
    Verified = {u1, u2, u3}
    Tokens = {k1}
    Requests = {q1, q2}
    Roles = {"owner", "admin"}
    RoleLists <- OwnerOrAdmin
    TeamSize = 1
    None = None
SYMMETRY Interchangeable
PROPERTY AdminsRemoveNoOwner
CHECK_DEADLOCK FALSE
