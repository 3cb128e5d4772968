----------------------------- MODULE MCSessions -----------------------------
(* A small instance of Sessions for TLC.                                   *)
EXTENDS Sessions, TLC

Interchangeable == Permutations(Tokens) \cup Permutations(Mails)
=============================================================================
