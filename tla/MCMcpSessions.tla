---------------------------- MODULE MCMcpSessions ----------------------------
(* Small instances of McpSessions for TLC.                                 *)
EXTENDS McpSessions, TLC

CONSTANTS u1, u2, s4

\* One caller opens every session but the last.
TwoOwners == [s \in Sessions |-> IF s = s4 THEN u2 ELSE u1]

Interchangeable == Permutations(Sessions \ {s4}) \cup Permutations(Replicas)
\* Bound: a process remembers one session at most (any entry may be evicted).
FewCached == \A p \in Replicas : Cardinality(cache[p]) <= 1

InUse == {s \in Sessions : row[s] # "absent"} \cup {op[p].session : p \in Replicas}

\* Bound: while several sessions are in use, or the second caller's is, none has
\* had an event or a stream.  No action on a session reads another one's events
\* or streams.
OneStreams ==
    \/ \A s \in Sessions : last[s] = 0
       /\ \A x \in Streams : stream[x] = NoStream
       /\ \A p \in Replicas : op[p].kind \notin {"append", "insert"}
    \/ \E s \in Sessions \ {s4} : InUse \subseteq {s, None}

FewAtATime == FewCached /\ OneStreams
=============================================================================
