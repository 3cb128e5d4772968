----------------------------- MODULE MCAgentWork -----------------------------
(* A small instance of AgentWork for TLC.                                  *)
EXTENDS AgentWork, TLC

CONSTANTS t1

Generous == [tasks |-> 2, cap |-> 1, spend |-> 2, suits |-> Tasks]
Narrow == [tasks |-> 1, cap |-> 1, spend |-> None, suits |-> Tasks \ {t1}]
TwoPolicies == {Generous, Narrow}

Interchangeable == Permutations(Requests) \cup Permutations(Reservations)
=============================================================================
