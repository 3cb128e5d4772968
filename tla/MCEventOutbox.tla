--------------------------- MODULE MCEventOutbox ---------------------------
(* A small instance of EventOutbox for TLC.                                *)
EXTENDS EventOutbox

CONSTANTS u1

\* Every event is in its user's feed and notifies that user.
OneShape == {[to |-> {u1}, notify |-> {u1}]}
=============================================================================
