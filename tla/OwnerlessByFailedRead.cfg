\* The instance of Organizations.cfg: whether an organization always has an owner.
SPECIFICATION Spec
CONSTANTS
    Users = {u1, u2, u3}
    Verified = {u1, u2, u3}
    Tokens = {k1}
    Requests = {q1, q2}
    Roles = {"owner", "admin"}
    RoleLists <- OwnerOrAdmin
    TeamSize = 1
    None = None
SYMMETRY Interchangeable
INVARIANT NeverOwnerless
CHECK_DEADLOCK FALSE
