--------------------------- MODULE MCOrganizations ---------------------------
(* A small instance of Organizations for TLC.                              *)
EXTENDS Organizations, TLC

\* An owner's and an administrator's roles.
OwnerOrAdmin == {{"owner"}, {"admin"}}

\* Every user is verified, so that users are interchangeable.
Interchangeable == Permutations(Requests) \cup Permutations(Users)
=============================================================================
