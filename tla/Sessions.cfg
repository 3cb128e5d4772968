\* A password user and a provider user, three tokens and two mails.
SPECIFICATION Spec
CONSTANTS
    Passworded = {u1}
    External = {u2}
    Guests = {g1}
    Tokens = {t1, t2, t3}
    Mails = {m1, m2}
    Sids = {x1}
    Jtis = {j1}
    None = None
SYMMETRY Interchangeable
INVARIANTS
    OneTokenPerFamily
    GrantFollowsVerification
PROPERTIES
    EndedFamilyStaysEnded
    DeactivatedStaysSignedOut
CHECK_DEADLOCK FALSE
