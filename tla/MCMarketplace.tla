--------------------------- MODULE MCMarketplace ---------------------------
(* Small instances of Marketplace for TLC.                                 *)
EXTENDS MarketEscrow, TLC

CONSTANTS req_u, wrk_u, alt_u, t1, t2, o1, m1

\* Every task is created by the requester.
SoloCreator == [t \in Tasks |-> req_u]

\* The first task belongs to the organization.
NoOrg == [t \in Tasks |-> None]
FirstOrg == [t \in Tasks |-> IF t = t1 THEN o1 ELSE None]
NoStaff == [o \in Orgs |-> {}]
NoMembers == [m \in Teams |-> {}]
WorkerTeam == [m \in Teams |-> {wrk_u}]

\* The second task is reserved by teams.
OpenPolicy == [t \in Tasks |-> "open"]
ReservedPolicy == [t \in Tasks |-> "reservation_required"]
SecondReserved == [t \in Tasks |-> IF t = t1 THEN "open" ELSE "reservation_required"]
UserScope == [t \in Tasks |-> "user"]
SecondTeam == [t \in Tasks |-> IF t = t1 THEN "user" ELSE "team"]

\* The first task is paid in credits.
NoReward == [t \in Tasks |-> "none"]
FirstRewarded == [t \in Tasks |-> IF t = t1 THEN "credit" ELSE "none"]
ZeroCredits == [t \in Tasks |-> 0]
FirstCredit == [t \in Tasks |-> IF t = t1 THEN 1 ELSE 0]

\* t1 expires before t2 does.
InOrder == [t \in Tasks |-> IF t = t1 THEN 1 ELSE 2]

\* Keys and row ids are interchangeable: nothing orders them.
Symmetry ==
    Permutations(Keys) \cup Permutations(Submissions)
      \cup Permutations(Reservations) \cup Permutations(Requests)
=============================================================================
