-------------------------- MODULE McpSessionsProofs --------------------------
(* Proofs about MCP sessions: how far replicas can pass the caps together, *)
(* and what a stream delivers.                                             *)
EXTENDS McpSessions, SequenceTheorems, FiniteSetTheorems, TLAPS

-----------------------------------------------------------------------------
(* The inductive invariant of sessions.                                    *)

Creating == {"count", "create"}

\* The session an operation creates is nobody else's, and has no row yet.
OpSound(p) ==
    /\ op[p].kind # "free" => op[p].session \in Sessions
    /\ op[p].kind \in Creating =>
         /\ row[op[p].session] = "absent"
         /\ \A r \in Replicas : r # p => op[r].session # op[p].session

\* A touch whose cutoff was fixed while the row was recent makes it active
\* again if it has gone idle.
Revives(p) ==
    /\ op[p].kind \in {"touch", "append"} /\ op[p].valid
    /\ row[op[p].session] = "open"

\* The sessions operations may yet add to the active ones, among them those
\* that are created by an operation of one of the kinds.
Claimed(kinds) ==
    {op[p].session : p \in {r \in Replicas : op[r].kind \in kinds \/ Revives(r)}}

Held == Active \cup Claimed(Creating)
HeldOf(u) == {s \in Active \cup Claimed({"create"}) : Owner[s] = u}

\* The bounds hold of what is active together with what may yet become so.
HeldBounded ==
    /\ IsFiniteSet(recent)
    /\ Cardinality(Held) <= Total + Cardinality(Replicas) - 1
    /\ \A u \in Subjects : Cardinality(HeldOf(u)) <= PerSubject + Cardinality(Replicas) - 1

SessionInv == (\A p \in Replicas : OpSound(p)) /\ HeldBounded

-----------------------------------------------------------------------------
(* The inductive invariant of streams.                                     *)

\* From event m to event n, with all in between accounted for.
Joined(m, n, u) == m < n /\ m + 1..n - 1 \subseteq u
Linked(q, u) == \A i \in 1..Len(q) - 1 : Joined(q[i], q[i + 1], u)

Known(r) == IF r.got = 0 THEN <<>> ELSE <<r.got>>
Queue(r) == Known(r) \o r.replay \o r.channel

\* A stream of a process is about a session; before it is subscribed nothing
\* is on its way to the client.
Attached(r) ==
    /\ r.replica # None => r.session \in Sessions
    /\ r.opening => r.replica # None
    /\ r.replica = None \/ r.opening =>
         r.replay = <<>> /\ r.listed = <<>> /\ r.channel = <<>> /\ r.unsent = {}

\* The listing that is under way follows what the stream has, and its starting
\* point was kept when it was looked up.
Sought(r) ==
    r.seek # NoSeek =>
      /\ r.session \in Sessions /\ r.listed = <<>>
      /\ r.seek.after = IF r.opening THEN r.got ELSE r.cursor
      /\ r.seek.after = 0 \/ r.seek.oldest <= r.seek.after

\* With nothing listed, the cursor is where the queue ends, or after events
\* that were dropped.
CursorFollows(r) ==
    r.replica # None /\ ~r.opening /\ r.listed = <<>> /\ Queue(r) # <<>> =>
      LET z == Queue(r)[Len(Queue(r))]
      IN  z <= r.cursor /\ z + 1..r.cursor \subseteq r.unsent

StreamSound(r) ==
    /\ Attached(r) /\ Sought(r) /\ CursorFollows(r)
    /\ Linked(Queue(r) \o r.listed, r.unsent)

StreamInv == \A x \in Streams : StreamSound(stream[x])

IInv == TypeOK /\ SessionInv /\ StreamInv

-----------------------------------------------------------------------------
(* Counting what is held.                                                  *)

OpSet == [kind : {"free", "count", "create", "touch", "close", "append", "insert", "replay"},
          session : Sessions \cup {None}, valid : BOOLEAN]

SweepSet == [on : BOOLEAN, idle : SUBSET Sessions, swept : [Sessions -> 0..MaxEvents]]

\* TypeOK but for the streams.
SessionTypes ==
    /\ row \in [Sessions -> {"absent", "open", "closed", "deleted"}]
    /\ recent \subseteq {s \in Sessions : row[s] \in {"open", "closed"}}
    /\ last \in [Sessions -> 0..MaxEvents]
    /\ floor \in [Sessions -> 0..MaxEvents]
    /\ sweep \in SweepSet
    /\ cache \in [Replicas -> SUBSET {s \in Sessions : row[s] # "absent"}]
    /\ op \in [Replicas -> OpSet]

\* The two halves of TypeOK.
LEMMA TypeHalves == TypeOK <=> SessionTypes /\ stream \in [Streams -> StreamSet]
BY DEF TypeOK, SessionTypes, OpSet, SweepSet

\* The halves of IInv together.
LEMMA Halves ==
    ASSUME SessionTypes', SessionInv', StreamInv', stream' \in [Streams -> StreamSet]
    PROVE  IInv'
BY DEF IInv, TypeOK, SessionTypes, OpSet, SweepSet

\* As many sessions as processes, at most, when each process names one.
LEMMA OneEach ==
    ASSUME NEW R \in SUBSET Replicas, NEW f, NEW S, S = {f[r].session : r \in R}
    PROVE  /\ IsFiniteSet(S) /\ Cardinality(S) <= Cardinality(Replicas)
           /\ Cardinality(Replicas) \in Nat
<1> DEFINE g == [r \in R |-> f[r].session]
<1>1. IsFiniteSet(R) /\ Cardinality(R) <= Cardinality(Replicas) /\ IsFiniteSet(Replicas)
  BY BoundsAssumption, FS_Subset
<1>2. g \in Surjection(R, S)
  BY DEF Surjection
<1>3. IsFiniteSet(S) /\ Cardinality(S) <= Cardinality(R)
  BY <1>1, <1>2, FS_Surjection
<1> QED
  BY <1>1, <1>3, FS_CardinalityType

\* A process has one operation, so no more sessions are claimed than there are
\* processes.
LEMMA ClaimedFew ==
    ASSUME NEW kinds
    PROVE  /\ IsFiniteSet(Claimed(kinds)) /\ Cardinality(Replicas) \in Nat
           /\ Cardinality(Claimed(kinds)) <= Cardinality(Replicas)
<1> DEFINE R == {r \in Replicas : op[r].kind \in kinds \/ Revives(r)}
<1>1. R \in SUBSET Replicas /\ Claimed(kinds) = {op[r].session : r \in R}
  BY DEF Claimed
<1> QED
  BY <1>1, OneEach

\* What is held is finite.
LEMMA HeldFinite ==
    ASSUME IsFiniteSet(recent)
    PROVE  /\ IsFiniteSet(Active) /\ IsFiniteSet(Held)
           /\ \A u : IsFiniteSet(ActiveOf(u)) /\ IsFiniteSet(HeldOf(u))
<1>1. Active \in SUBSET recent
  BY DEF Active
<1>2. IsFiniteSet(Active)
  BY <1>1, FS_Subset
<1>3. IsFiniteSet(Held) /\ IsFiniteSet(Active \cup Claimed({"create"}))
  BY <1>2, ClaimedFew, FS_Union DEF Held
<1>4. ASSUME NEW u
      PROVE  IsFiniteSet(ActiveOf(u)) /\ IsFiniteSet(HeldOf(u))
  <2>1. ActiveOf(u) \in SUBSET Active /\ HeldOf(u) \in SUBSET (Active \cup Claimed({"create"}))
    BY DEF ActiveOf, HeldOf
  <2> QED
    BY <1>2, <1>3, <2>1, FS_Subset
<1> QED
  BY <1>2, <1>3, <1>4

\* Holding less keeps a bound.
LEMMA LessHeld ==
    ASSUME NEW S, NEW T, IsFiniteSet(S), T \subseteq S, NEW n \in Int, Cardinality(S) <= n
    PROVE  Cardinality(T) <= n
<1>1. T \in SUBSET S
  OBVIOUS
<1>2. IsFiniteSet(T) /\ Cardinality(T) <= Cardinality(S)
  BY <1>1, FS_Subset
<1> QED
  BY <1>2, FS_CardinalityType

\* The caps of all and of one caller.
LEMMA CapsAreNumbers ==
    /\ Total + Cardinality(Replicas) - 1 \in Int
    /\ PerSubject + Cardinality(Replicas) - 1 \in Int
<1>1. Cardinality(Replicas) \in Nat /\ Total \in Nat /\ PerSubject \in Nat
  BY ClaimedFew, BoundsAssumption
<1> QED
  BY <1>1

\* A step after which nobody holds more.
LEMMA HeldShrinks ==
    ASSUME HeldBounded, IsFiniteSet(recent'), Held' \subseteq Held,
           \A u \in Subjects : HeldOf(u)' \subseteq HeldOf(u)
    PROVE  HeldBounded'
<1>1. /\ IsFiniteSet(Held) /\ \A u : IsFiniteSet(HeldOf(u))
  BY HeldFinite DEF HeldBounded
<1>2. Cardinality(Held') <= Total + Cardinality(Replicas) - 1
  BY <1>1, CapsAreNumbers, LessHeld DEF HeldBounded
<1>3. ASSUME NEW u \in Subjects
      PROVE  Cardinality(HeldOf(u)') <= PerSubject + Cardinality(Replicas) - 1
  BY <1>1, CapsAreNumbers, LessHeld DEF HeldBounded
<1> QED
  BY <1>2, <1>3 DEF HeldBounded

\* A count below a cap leaves room for one operation of every process.
LEMMA RoomForAll ==
    ASSUME NEW S, NEW T, IsFiniteSet(S), IsFiniteSet(T), NEW U, U \subseteq S \cup T,
           NEW cap \in Nat, Cardinality(S) < cap, NEW n \in Nat, Cardinality(T) <= n
    PROVE  Cardinality(U) <= cap + n - 1
<1>1. /\ IsFiniteSet(S \cup T)
      /\ Cardinality(S \cup T) = Cardinality(S) + Cardinality(T) - Cardinality(S \cap T)
  BY FS_Union
<1>2. S \cap T \in SUBSET S
  OBVIOUS
<1>3. Cardinality(S \cap T) \in Nat /\ Cardinality(S) \in Nat /\ Cardinality(T) \in Nat
  BY <1>2, FS_Subset, FS_CardinalityType
<1>4. Cardinality(S \cup T) <= cap + n - 1
  BY <1>1, <1>3
<1> QED
  BY <1>1, <1>4, LessHeld

-----------------------------------------------------------------------------
(* Steps of sessions.                                                      *)

\* One process moves on to an operation that claims nothing new; what becomes
\* active was claimed by the one it leaves.
LEMMA OpMoves ==
    ASSUME SessionTypes, SessionInv, NEW p \in Replicas, NEW o \in OpSet,
           op' = [op EXCEPT ![p] = o], o.kind \notin Creating,
           o.kind # "free" => o.session \in Sessions,
           o.session \in {None, op[p].session} \/ row[o.session] # "absent",
           \A s \in Sessions : row[s] = "absent" =>
             row'[s] = "absent" \/ (s = op[p].session /\ op[p].kind = "create"),
           \A s \in Sessions : row'[s] = "open" =>
             row[s] = "open" \/ (s = op[p].session /\ op[p].kind = "create"),
           \A s \in Active' :
             s \in Active \/ (s = op[p].session /\ (op[p].kind = "create" \/ Revives(p))),
           Revives(p)' => o.session \in Active,
           IsFiniteSet(recent')
    PROVE  SessionInv'
<1>1. \A r \in Replicas : op'[r] = IF r = p THEN o ELSE op[r]
  BY DEF SessionTypes
<1>2. \A r \in Replicas : OpSound(r) /\ op[r] \in OpSet
  BY DEF SessionInv, SessionTypes
<1>3. \A r \in Replicas : OpSound(r)'
  <2> SUFFICES ASSUME NEW r \in Replicas PROVE OpSound(r)'
    OBVIOUS
  <2>1. CASE r = p
    BY <1>1, <2>1 DEF OpSound
  <2>2. CASE r # p
    <3>1. op'[r] = op[r]
      BY <1>1, <2>2
    <3>2. ASSUME op[r].kind \in Creating
          PROVE  /\ row'[op[r].session] = "absent"
                 /\ \A q \in Replicas : q # r => op'[q].session # op[r].session
      <4>1. /\ op[r].session \in Sessions /\ row[op[r].session] = "absent"
            /\ \A q \in Replicas : q # r => op[q].session # op[r].session
        BY <1>2, <3>2 DEF OpSound, Creating
      <4>2. o.session # op[r].session
        BY <2>2, <4>1, BoundsAssumption
      <4> QED
        BY <1>1, <2>2, <4>1, <4>2
    <3> QED
      BY <1>2, <3>1, <3>2 DEF OpSound
  <2> QED
    BY <2>1, <2>2
<1>4. ASSUME NEW kinds, kinds = Creating \/ kinds = {"create"}
      PROVE  (Active \cup Claimed(kinds))' \subseteq Active \cup Claimed(kinds)
  <2>1. op[p].kind = "create" \/ Revives(p) => op[p].session \in Claimed(kinds)
    BY <1>4 DEF Claimed, Creating
  <2>2. Active' \subseteq Active \cup Claimed(kinds)
    BY <2>1
  <2>3. ASSUME NEW r \in Replicas, op'[r].kind \in kinds \/ Revives(r)'
        PROVE  op'[r].session \in Active \cup Claimed(kinds)
    <3>1. CASE r = p
      BY <1>1, <1>4, <2>3, <3>1 DEF Creating
    <3>2. CASE r # p
      <4>1. op'[r] = op[r]
        BY <1>1, <3>2
      <4>2. CASE op[r].kind \in kinds
        BY <4>1, <4>2 DEF Claimed
      <4>3. CASE Revives(r)'
        <5>1. /\ op[r].kind \in {"touch", "append"} /\ op[r].valid
              /\ row'[op[r].session] = "open"
          BY <4>1, <4>3 DEF Revives
        <5>2. op[r].session \in Sessions
          BY <1>2, <5>1 DEF OpSound
        <5>3. op[p].kind = "create" => op[r].session # op[p].session
          BY <1>2, <3>2 DEF OpSound, Creating
        <5>4. Revives(r)
          BY <5>1, <5>2, <5>3 DEF Revives
        <5> QED
          BY <4>1, <5>4 DEF Claimed
      <4> QED
        BY <2>3, <4>1, <4>2, <4>3
    <3> QED
      BY <3>1, <3>2
  <2>4. \A s \in Claimed(kinds)' : \E r \in Replicas :
          s = op'[r].session /\ (op'[r].kind \in kinds \/ Revives(r)')
    BY DEF Claimed
  <2> QED
    BY <2>2, <2>3, <2>4
<1>5. Held' \subseteq Held
  BY <1>4 DEF Held
<1>6. \A u \in Subjects : HeldOf(u)' \subseteq HeldOf(u)
  <2>1. (Active \cup Claimed({"create"}))' \subseteq Active \cup Claimed({"create"})
    BY <1>4
  <2> QED
    BY <2>1 DEF HeldOf
<1>7. HeldBounded'
  BY <1>5, <1>6, HeldShrinks DEF SessionInv
<1> QED
  BY <1>3, <1>7 DEF SessionInv

\* No operation moves, and rows only go.
LEMMA RowsGo ==
    ASSUME SessionTypes, SessionInv, UNCHANGED op, recent' \subseteq recent,
           \A s \in Sessions : /\ row[s] = "absent" => row'[s] = "absent"
                               /\ row'[s] = "open" => row[s] = "open"
    PROVE  SessionInv'
<1>1. \A r \in Replicas : OpSound(r) /\ op[r] \in OpSet
  BY DEF SessionInv, SessionTypes
<1>2. \A r \in Replicas : OpSound(r)'
  BY <1>1 DEF OpSound, Creating
<1>3. Active' \subseteq Active
  BY DEF Active, SessionTypes
<1>4. \A r \in Replicas : Revives(r)' => Revives(r)
  BY <1>1 DEF Revives, OpSound
<1>5. \A kinds : Claimed(kinds)' \subseteq Claimed(kinds)
  BY <1>4 DEF Claimed
<1>6. Held' \subseteq Held /\ \A u \in Subjects : HeldOf(u)' \subseteq HeldOf(u)
  <2>1. Claimed(Creating)' \subseteq Claimed(Creating)
    BY <1>5
  <2>2. Claimed({"create"})' \subseteq Claimed({"create"})
    BY <1>5
  <2> QED
    BY <1>3, <2>1, <2>2 DEF Held, HeldOf
<1>7. IsFiniteSet(recent')
  <2>1. recent' \in SUBSET recent
    OBVIOUS
  <2> QED
    BY <2>1, FS_Subset DEF SessionInv, HeldBounded
<1>8. HeldBounded'
  BY <1>6, <1>7, HeldShrinks DEF SessionInv
<1> QED
  BY <1>2, <1>8 DEF SessionInv

\* A process that is free again.
LEMMA FreeFacts == Free \in OpSet /\ Free.kind = "free" /\ Free.session = None
BY DEF Free, OpSet

\* What an operation in progress is about.
LEMMA Session ==
    ASSUME SessionTypes, SessionInv, NEW p \in Replicas, op[p].kind # "free"
    PROVE  /\ op[p].session \in Sessions /\ op[p] \in OpSet
           /\ op[p].kind \in Creating => row[op[p].session] = "absent"
BY DEF SessionTypes, SessionInv, OpSound

\* The total is counted, and the process claims a session.
LEMMA BeginCreateKeeps ==
    ASSUME SessionTypes, SessionInv, NEW p \in Replicas, NEW s \in Sessions, NEW idle,
           BeginCreate(p, s, idle)
    PROVE  SessionTypes' /\ SessionInv'
<1>0. /\ row[s] = "absent" /\ Cardinality(Active) < Total
      /\ \A r \in Replicas : op[r].session # s
      /\ cache' = [cache EXCEPT ![p] = @ \ idle] /\ UNCHANGED <<row, recent, last, floor, sweep>>
  BY DEF BeginCreate, Evict, sessionVars
<1>1. PICK o \in OpSet : /\ o.kind = "count" /\ o.session = s
                         /\ op' = [op EXCEPT ![p] = o]
  BY DEF BeginCreate, Start, OpSet
<1>2. \A r \in Replicas : op'[r] = IF r = p THEN o ELSE op[r]
  BY <1>1 DEF SessionTypes
<1>3. SessionTypes'
  BY <1>0, <1>1 DEF SessionTypes
<1>4. \A r \in Replicas : OpSound(r)'
  <2>1. \A r \in Replicas : OpSound(r)
    BY DEF SessionInv
  <2> QED
    BY <1>0, <1>1, <1>2, <2>1 DEF OpSound
<1>5. Cardinality(Held') <= Total + Cardinality(Replicas) - 1
  <2>1. Active' = Active
    BY <1>0 DEF Active
  <2>2. Held' \subseteq Active \cup Claimed(Creating)'
    BY <2>1 DEF Held
  <2>3. IsFiniteSet(Active)
    BY HeldFinite DEF SessionInv, HeldBounded
  <2>4. /\ IsFiniteSet(Claimed(Creating)') /\ Cardinality(Replicas) \in Nat
        /\ Cardinality(Claimed(Creating)') <= Cardinality(Replicas)
    <3> DEFINE R == {r \in Replicas : op'[r].kind \in Creating \/ Revives(r)'}
    <3>1. R \in SUBSET Replicas /\ Claimed(Creating)' = {op'[r].session : r \in R}
      BY DEF Claimed
    <3> QED
      BY <3>1, OneEach
  <2>5. Total \in Nat
    BY BoundsAssumption
  <2> QED
    BY <1>0, <2>2, <2>3, <2>4, <2>5, RoomForAll
<1>6. \A u \in Subjects : HeldOf(u)' \subseteq HeldOf(u)
  <2>1. Active' = Active
    BY <1>0 DEF Active
  <2>2. Claimed({"create"})' \subseteq Claimed({"create"})
    BY <1>0, <1>1, <1>2 DEF Claimed, Revives
  <2> QED
    BY <2>1, <2>2 DEF HeldOf
<1>7. HeldBounded'
  <2>1. /\ IsFiniteSet(recent') /\ \A u : IsFiniteSet(HeldOf(u))
    BY <1>0, HeldFinite DEF SessionInv, HeldBounded
  <2>2. ASSUME NEW u \in Subjects
        PROVE  Cardinality(HeldOf(u)') <= PerSubject + Cardinality(Replicas) - 1
    BY <1>6, <2>1, CapsAreNumbers, LessHeld DEF SessionInv, HeldBounded
  <2> QED
    BY <1>5, <2>1, <2>2 DEF HeldBounded
<1> QED
  BY <1>3, <1>4, <1>7 DEF SessionInv

\* The caller's sessions are counted; the claim is confirmed or given up.
LEMMA CountKeeps ==
    ASSUME SessionTypes, SessionInv, NEW p \in Replicas, CountForSubject(p)
    PROVE  SessionTypes' /\ SessionInv'
<1>0. op[p].kind = "count" /\ UNCHANGED <<row, recent, last, floor, sweep, cache>>
  BY DEF CountForSubject, sessionVars
<1>1. PICK s \in Sessions : s = op[p].session /\ op[p] \in OpSet
  BY <1>0, Session
<1>2. op' = [op EXCEPT ![p] = IF Cardinality(ActiveOf(Owner[s])) < PerSubject
                              THEN [@ EXCEPT !.kind = "create"] ELSE Free]
  BY <1>1 DEF CountForSubject
<1>3. CASE ~(Cardinality(ActiveOf(Owner[s])) < PerSubject)
  <2>1. op' = [op EXCEPT ![p] = Free]
    BY <1>2, <1>3
  <2>2. SessionTypes'
    BY <1>0, <2>1, FreeFacts DEF SessionTypes
  <2>3. op'[p] = Free
    BY <2>1 DEF SessionTypes
  <2>4. ~(Revives(p)') /\ Active' = Active /\ IsFiniteSet(recent')
    BY <1>0, <2>3, FreeFacts DEF Revives, Active, SessionInv, HeldBounded
  <2> QED
    BY <1>0, <2>1, <2>2, <2>4, FreeFacts, OpMoves DEF Creating
<1>4. CASE Cardinality(ActiveOf(Owner[s])) < PerSubject
  <2>1. PICK o \in OpSet : /\ o.kind = "create" /\ o.session = s /\ o.valid = op[p].valid
                           /\ op' = [op EXCEPT ![p] = o]
    BY <1>1, <1>2, <1>4 DEF OpSet
  <2>2. \A r \in Replicas : op'[r] = IF r = p THEN o ELSE op[r]
    BY <2>1 DEF SessionTypes
  <2>3. SessionTypes'
    BY <1>0, <2>1 DEF SessionTypes
  <2>4. \A r \in Replicas : OpSound(r)'
    <3>1. \A r \in Replicas : OpSound(r)
      BY DEF SessionInv
    <3> QED
      BY <1>0, <1>1, <2>1, <2>2, <3>1 DEF OpSound, Creating
  <2>5. Active' = Active
    BY <1>0 DEF Active
  <2>6. Held' \subseteq Held
    <3>1. Claimed(Creating)' \subseteq Claimed(Creating)
      BY <1>0, <1>1, <2>1, <2>2 DEF Claimed, Revives, Creating
    <3> QED
      BY <2>5, <3>1 DEF Held
  <2>7. \A u \in Subjects : u # Owner[s] => HeldOf(u)' \subseteq HeldOf(u)
    <3>1. Claimed({"create"})' \subseteq Claimed({"create"}) \cup {s}
      BY <1>0, <2>1, <2>2 DEF Claimed, Revives
    <3> QED
      BY <2>5, <3>1 DEF HeldOf
  <2>8. Cardinality(HeldOf(Owner[s])') <= PerSubject + Cardinality(Replicas) - 1
    <3>1. HeldOf(Owner[s])' \subseteq ActiveOf(Owner[s]) \cup Claimed({"create"})'
      BY <2>5 DEF HeldOf, ActiveOf
    <3>2. IsFiniteSet(ActiveOf(Owner[s]))
      BY HeldFinite DEF SessionInv, HeldBounded
    <3>3. /\ IsFiniteSet(Claimed({"create"})') /\ Cardinality(Replicas) \in Nat
          /\ Cardinality(Claimed({"create"})') <= Cardinality(Replicas)
      <4> DEFINE R == {r \in Replicas : op'[r].kind \in {"create"} \/ Revives(r)'}
      <4>1. R \in SUBSET Replicas /\ Claimed({"create"})' = {op'[r].session : r \in R}
        BY DEF Claimed
      <4> QED
        BY <4>1, OneEach
    <3>4. PerSubject \in Nat
      BY BoundsAssumption
    <3> QED
      BY <1>4, <3>1, <3>2, <3>3, <3>4, RoomForAll
  <2>9. HeldBounded'
    <3>1. /\ IsFiniteSet(recent') /\ IsFiniteSet(Held) /\ \A u : IsFiniteSet(HeldOf(u))
      BY <1>0, HeldFinite DEF SessionInv, HeldBounded
    <3>2. Cardinality(Held') <= Total + Cardinality(Replicas) - 1
      BY <2>6, <3>1, CapsAreNumbers, LessHeld DEF SessionInv, HeldBounded
    <3>3. ASSUME NEW u \in Subjects, u # Owner[s]
          PROVE  Cardinality(HeldOf(u)') <= PerSubject + Cardinality(Replicas) - 1
      BY <2>7, <3>1, <3>3, CapsAreNumbers, LessHeld DEF SessionInv, HeldBounded
    <3> QED
      BY <2>8, <3>1, <3>2, <3>3 DEF HeldBounded
  <2> QED
    BY <2>3, <2>4, <2>9 DEF SessionInv
<1> QED
  BY <1>3, <1>4

\* The operation of a process ends and nothing becomes active that it had not
\* claimed.
LEMMA EndKeeps ==
    ASSUME SessionTypes, SessionInv, NEW p \in Replicas, End(p),
           \A s \in Sessions : row[s] = "absent" =>
             row'[s] = "absent" \/ (s = op[p].session /\ op[p].kind = "create"),
           \A s \in Sessions : row'[s] = "open" =>
             row[s] = "open" \/ (s = op[p].session /\ op[p].kind = "create"),
           \A s \in Active' :
             s \in Active \/ (s = op[p].session /\ (op[p].kind = "create" \/ Revives(p))),
           IsFiniteSet(recent')
    PROVE  SessionInv' /\ op' \in [Replicas -> OpSet]
<1>1. op' = [op EXCEPT ![p] = Free] /\ op'[p] = Free
  BY DEF End, SessionTypes
<1>2. ~(Revives(p)')
  BY <1>1, FreeFacts DEF Revives
<1>3. Free.kind \notin Creating
  BY FreeFacts DEF Creating
<1>4. SessionInv'
  BY <1>1, <1>2, <1>3, FreeFacts, OpMoves
<1> QED
  BY <1>1, <1>4, FreeFacts DEF SessionTypes

\* The row is inserted: the claimed session is active.
LEMMA CreateKeeps ==
    ASSUME SessionTypes, SessionInv, NEW p \in Replicas, CreateMCPSession(p)
    PROVE  SessionTypes' /\ SessionInv'
<1>0. op[p].kind = "create" /\ End(p) /\ UNCHANGED <<last, floor, sweep>>
  BY DEF CreateMCPSession
<1>1. PICK s \in Sessions : s = op[p].session /\ row[s] = "absent"
  BY <1>0, Session DEF Creating
<1>2. /\ row' = [row EXCEPT ![s] = "open"] /\ recent' = recent \cup {s}
      /\ cache' = [cache EXCEPT ![p] = @ \cup {s}]
  BY <1>1 DEF CreateMCPSession
<1>3. \A x \in Sessions : row'[x] = IF x = s THEN "open" ELSE row[x]
  BY <1>2 DEF SessionTypes
<1>4. IsFiniteSet(recent')
  BY <1>2, FS_AddElement DEF SessionInv, HeldBounded
<1>5. \A x \in Active' : x \in Active \/ x = s
  BY <1>2, <1>3 DEF Active, SessionTypes
<1>6. SessionInv' /\ op' \in [Replicas -> OpSet]
  BY <1>0, <1>1, <1>3, <1>4, <1>5, EndKeeps
<1>7. row' \in [Sessions -> {"absent", "open", "closed", "deleted"}]
  BY <1>2 DEF SessionTypes
<1>8. recent' \subseteq {x \in Sessions : row'[x] \in {"open", "closed"}}
  BY <1>2, <1>3 DEF SessionTypes
<1>9. cache' \in [Replicas -> SUBSET {x \in Sessions : row'[x] # "absent"}]
  BY <1>2, <1>3 DEF SessionTypes
<1> QED
  BY <1>0, <1>6, <1>7, <1>8, <1>9 DEF SessionTypes

\* A process turns to a session that has a row; a cutoff fixed while the row
\* is recent can only bring back what is active now.
LEMMA StartKeeps ==
    ASSUME SessionTypes, SessionInv, NEW p \in Replicas, NEW s \in Sessions,
           NEW kind \in {"touch", "close", "append", "replay"}, NEW valid \in BOOLEAN,
           Start(p, kind, s, valid), row[s] # "absent", UNCHANGED sessionVars,
           kind \in {"touch", "append"} /\ valid => s \in recent
    PROVE  SessionInv' /\ op' \in [Replicas -> OpSet]
<1>1. PICK o \in OpSet : /\ o.kind = kind /\ o.session = s /\ o.valid = valid
                         /\ op' = [op EXCEPT ![p] = o]
  BY DEF Start, OpSet
<1>2. op'[p] = o /\ UNCHANGED <<row, recent>> /\ Active' = Active
  BY <1>1 DEF SessionTypes, sessionVars, Active
<1>3. Revives(p)' => o.session \in Active
  BY <1>1, <1>2 DEF Revives, Active
<1>4. IsFiniteSet(recent')
  BY <1>2 DEF SessionInv, HeldBounded
<1>5. o.kind \notin Creating
  BY <1>1 DEF Creating
<1>6. SessionInv'
  BY <1>1, <1>2, <1>3, <1>4, <1>5, OpMoves
<1> QED
  BY <1>1, <1>6 DEF SessionTypes

\* The operations that begin with a session of their cache or the database.
LEMMA BeginKeeps ==
    ASSUME SessionTypes, SessionInv, NEW p \in Replicas, NEW s \in Sessions,
           \/ \E idle \in SUBSET cache[p] : BeginTouch(p, s, idle)
           \/ BeginTerminate(p, s)
           \/ BeginAppend(p, s)
    PROVE  SessionTypes' /\ SessionInv'
<1>0. UNCHANGED <<row, recent, last, floor, sweep>> /\ UNCHANGED sessionVars
  BY DEF BeginTouch, BeginTerminate, BeginAppend, sessionVars
<1>1. ASSUME NEW idle \in SUBSET cache[p], BeginTouch(p, s, idle)
      PROVE  SessionTypes' /\ SessionInv'
  <2>1. /\ row[s] # "absent" /\ Start(p, "touch", s, s \in recent)
        /\ cache' = [cache EXCEPT ![p] = @ \ idle]
    BY <1>1 DEF BeginTouch, Evict
  <2>2. PICK v \in BOOLEAN : (v => s \in recent) /\ Start(p, "touch", s, v)
    <3>1. CASE s \in recent
      <4>1. Start(p, "touch", s, TRUE)
        BY <2>1, <3>1 DEF Start
      <4> QED
        BY <3>1, <4>1
    <3>2. CASE s \notin recent
      <4>1. (s \in recent) = FALSE
        BY <3>2
      <4>2. Start(p, "touch", s, FALSE)
        BY <2>1, <4>1, Zenon
      <4> QED
        BY <4>2
    <3> QED
      BY <3>1, <3>2
  <2>3. SessionInv' /\ op' \in [Replicas -> OpSet]
    BY <1>0, <2>1, <2>2, StartKeeps
  <2> QED
    BY <1>0, <2>1, <2>3 DEF SessionTypes
<1>2. CASE BeginTerminate(p, s)
  <2>1. /\ row[s] # "absent" /\ Start(p, "close", s, TRUE)
        /\ cache' = [cache EXCEPT ![p] = @ \ {s}]
    BY <1>2 DEF BeginTerminate
  <2>2. SessionInv' /\ op' \in [Replicas -> OpSet]
    BY <1>0, <2>1, StartKeeps
  <2> QED
    BY <1>0, <2>1, <2>2 DEF SessionTypes
<1>3. CASE BeginAppend(p, s)
  <2>1. s \in cache[p] /\ Start(p, "append", s, s \in recent) /\ UNCHANGED cache
    BY <1>3 DEF BeginAppend
  <2>2. row[s] # "absent"
    BY <2>1 DEF SessionTypes
  <2>3. PICK v \in BOOLEAN : (v => s \in recent) /\ Start(p, "append", s, v)
    <3>1. CASE s \in recent
      <4>1. Start(p, "append", s, TRUE)
        BY <2>1, <3>1 DEF Start
      <4> QED
        BY <3>1, <4>1
    <3>2. CASE s \notin recent
      <4>1. (s \in recent) = FALSE
        BY <3>2
      <4>2. Start(p, "append", s, FALSE)
        BY <2>1, <4>1, Zenon
      <4> QED
        BY <4>2
    <3> QED
      BY <3>1, <3>2
  <2>4. SessionInv' /\ op' \in [Replicas -> OpSet]
    BY <1>0, <2>2, <2>3, StartKeeps
  <2> QED
    BY <1>0, <2>1, <2>4 DEF SessionTypes
<1> QED
  BY <1>1, <1>2, <1>3

\* What the update of last_seen_at makes of the recent rows.
LEMMA TouchedRows ==
    ASSUME SessionTypes, SessionInv, NEW p \in Replicas, op[p].kind \in {"touch", "append"},
           recent' = Touched(p), UNCHANGED row
    PROVE  /\ IsFiniteSet(recent')
           /\ recent' \subseteq {s \in Sessions : row'[s] \in {"open", "closed"}}
           /\ \A s \in Active' : s \in Active \/ (s = op[p].session /\ Revives(p))
           /\ Touches(p) => op[p].session \in Sessions /\ row[op[p].session] = "open"
<1>1. op[p].session \in Sessions
  BY Session
<1>2. IsFiniteSet(recent) /\ IsFiniteSet(recent \cup {op[p].session})
  BY FS_AddElement DEF SessionInv, HeldBounded
<1>3. Touches(p) => row[op[p].session] = "open" /\ (op[p].valid \/ op[p].session \in recent)
  BY DEF Touches
<1>4. recent' = recent \/ (Touches(p) /\ recent' = recent \cup {op[p].session})
  BY DEF Touched
<1>5. Touches(p) /\ op[p].session \notin recent => Revives(p)
  BY <1>3 DEF Revives
<1> QED
  BY <1>1, <1>2, <1>3, <1>4, <1>5 DEF Active, SessionTypes

\* What it makes of the sweep under way.
LEMMA SparedSweep ==
    ASSUME SessionTypes, NEW p \in Replicas
    PROVE  Spared(p) \in SweepSet
<1>1. PICK idle \in SUBSET Sessions :
        idle = IF Touches(p) THEN sweep.idle \ {op[p].session} ELSE sweep.idle
  BY DEF SessionTypes, SweepSet
<1>2. Spared(p) = [sweep EXCEPT !.idle = idle]
  BY <1>1 DEF Spared
<1> QED
  BY <1>2 DEF SessionTypes, SweepSet

\* The touch of a request, and of an append.
LEMMA TouchKeeps ==
    ASSUME SessionTypes, SessionInv, NEW p \in Replicas, TouchMCPSession(p) \/ AppendTouches(p)
    PROVE  SessionTypes' /\ SessionInv'
<1>0. /\ op[p].kind \in {"touch", "append"} /\ recent' = Touched(p)
      /\ UNCHANGED <<row, last, floor>> /\ sweep' \in SweepSet
  BY SparedSweep DEF TouchMCPSession, AppendTouches
<1>1. /\ IsFiniteSet(recent')
      /\ recent' \subseteq {s \in Sessions : row'[s] \in {"open", "closed"}}
      /\ \A s \in Active' : s \in Active \/ (s = op[p].session /\ Revives(p))
      /\ Touches(p) => op[p].session \in Sessions /\ row[op[p].session] = "open"
  BY <1>0, TouchedRows
<1>2. CASE TouchMCPSession(p)
  <2>1. PICK found : /\ found = IF Touches(p) THEN {op[p].session} ELSE {}
                     /\ cache' = [cache EXCEPT ![p] = @ \cup found]
    BY <1>2 DEF TouchMCPSession
  <2>2. cache' \in [Replicas -> SUBSET {s \in Sessions : row'[s] # "absent"}]
    BY <1>0, <1>1, <2>1 DEF SessionTypes
  <2>3. End(p)
    BY <1>2 DEF TouchMCPSession
  <2>4. SessionInv' /\ op' \in [Replicas -> OpSet]
    BY <1>0, <1>1, <2>3, EndKeeps
  <2> QED
    BY <1>0, <1>1, <2>2, <2>4 DEF SessionTypes
<1>3. CASE AppendTouches(p)
  <2>1. op' = [op EXCEPT ![p].kind = "insert", ![p].valid = TRUE] /\ UNCHANGED cache
    BY <1>3 DEF AppendTouches
  <2>2. op[p] \in OpSet /\ op[p].session \in Sessions
    BY <1>0, Session
  <2>3. PICK o \in OpSet : /\ o.kind = "insert" /\ o.session = op[p].session
                           /\ op' = [op EXCEPT ![p] = o]
    <3>1. op' = [op EXCEPT ![p] = [op[p] EXCEPT !.kind = "insert", !.valid = TRUE]]
      BY <2>1 DEF SessionTypes
    <3>2. PICK o : o = [op[p] EXCEPT !.kind = "insert", !.valid = TRUE]
      OBVIOUS
    <3>3. o \in OpSet /\ o.kind = "insert" /\ o.session = op[p].session
      BY <2>2, <3>2 DEF OpSet
    <3> QED
      BY <3>1, <3>2, <3>3
  <2>4. ~(Revives(p)') /\ o.kind \notin Creating
    BY <2>3 DEF Revives, SessionTypes, Creating
  <2>5. SessionInv'
    BY <1>0, <1>1, <2>2, <2>3, <2>4, OpMoves
  <2> QED
    <3>1. UNCHANGED cache
      BY <2>1
    <3>2. op' \in [Replicas -> OpSet]
      BY <2>3 DEF SessionTypes
    <3> QED
      BY <1>0, <1>1, <2>5, <3>1, <3>2 DEF SessionTypes
<1> QED
  BY <1>2, <1>3

\* The steps that end an operation and make nothing active.
LEMMA OthersKeep ==
    ASSUME SessionTypes, SessionInv, NEW p \in Replicas,
           CloseMCPSession(p) \/ AppendMCPEvent(p) \/ OperationFails(p) \/ Restart(p)
    PROVE  SessionTypes' /\ SessionInv'
<1>0. End(p) /\ UNCHANGED <<recent, floor, sweep>>
  BY DEF CloseMCPSession, AppendMCPEvent, OperationFails, Restart, sessionVars
<1>1. /\ row' \in [Sessions -> {"absent", "open", "closed", "deleted"}]
      /\ \A s \in Sessions : row'[s] = row[s] \/ (row[s] = "open" /\ row'[s] = "closed")
  <2>1. CASE CloseMCPSession(p)
    BY <2>1 DEF CloseMCPSession, SessionTypes
  <2>2. CASE UNCHANGED row
    BY <2>2 DEF SessionTypes
  <2> QED
    BY <2>1, <2>2 DEF AppendMCPEvent, OperationFails, Restart, sessionVars
<1>2. last' \in [Sessions -> 0..MaxEvents]
  <2>1. CASE AppendMCPEvent(p)
    <3>1. PICK s : last' = IF row[s] = "open" /\ MoreEvents(s)
                           THEN [last EXCEPT ![s] = @ + 1] ELSE last
      BY <2>1 DEF AppendMCPEvent
    <3>2. CASE last' = last
      BY <3>2 DEF SessionTypes
    <3>3. CASE MoreEvents(s) /\ last' = [last EXCEPT ![s] = @ + 1]
      <4>1. \A x \in Sessions : last'[x] \in 0..MaxEvents
        BY <3>3, BoundsAssumption DEF SessionTypes, MoreEvents
      <4> QED
        BY <3>3, <4>1 DEF SessionTypes
    <3> QED
      BY <3>1, <3>2, <3>3
  <2>2. CASE UNCHANGED last
    BY <2>2 DEF SessionTypes
  <2> QED
    BY <2>1, <2>2 DEF CloseMCPSession, OperationFails, Restart, sessionVars
<1>3. cache' \in [Replicas -> SUBSET {s \in Sessions : row'[s] # "absent"}]
  <2>1. \A r \in Replicas : cache'[r] \subseteq cache[r]
    BY DEF CloseMCPSession, AppendMCPEvent, OperationFails, Restart, SessionTypes
  <2>2. \A r \in Replicas : cache'[r] \in SUBSET {s \in Sessions : row'[s] # "absent"}
    BY <1>1, <2>1 DEF SessionTypes
  <2>3. cache' = [r \in Replicas |-> cache'[r]]
    BY DEF CloseMCPSession, AppendMCPEvent, OperationFails, Restart, SessionTypes
  <2> QED
    BY <2>2, <2>3
<1>4. /\ IsFiniteSet(recent') /\ Active' \subseteq Active
      /\ recent' \subseteq {s \in Sessions : row'[s] \in {"open", "closed"}}
  BY <1>0, <1>1 DEF SessionInv, HeldBounded, SessionTypes, Active
<1>5. SessionInv' /\ op' \in [Replicas -> OpSet]
  BY <1>0, <1>1, <1>4, EndKeeps
<1> QED
  BY <1>0, <1>1, <1>2, <1>3, <1>4, <1>5 DEF SessionTypes

\* Time, and the sweep.
TimePasses ==
    \/ \E s \in Sessions : RowGoesIdle(s)
    \/ DeleteExpiredEvents
    \/ DeleteExpiredMCPSessions
    \/ SweepFails

\* What the sweep deletes leaves what it has deleted before, or nothing.
LEMMA SweepCommits ==
    ASSUME SessionTypes, DeleteExpiredMCPSessions
    PROVE  /\ last' \in [Sessions -> 0..MaxEvents] /\ floor' \in [Sessions -> 0..MaxEvents]
           /\ row' \in [Sessions -> {"absent", "open", "closed", "deleted"}]
           /\ \A s \in Sessions : /\ row[s] = "absent" <=> row'[s] = "absent"
                                  /\ row'[s] = "open" => row[s] = "open"
           /\ recent' \subseteq {s \in Sessions : row'[s] \in {"open", "closed"}}
           /\ recent' \subseteq recent
<1>1. PICK gone : /\ gone = {s \in Sessions : \/ row[s] = "closed"
                                              \/ row[s] = "open" /\ s \in sweep.idle}
                  /\ row' = [s \in Sessions |-> IF s \in gone THEN "deleted" ELSE row[s]]
                  /\ recent' = recent \ gone
  BY DEF DeleteExpiredMCPSessions
<1>2. PICK emptied :
        /\ last' = [s \in Sessions |-> IF s \in emptied THEN 0 ELSE last[s]]
        /\ floor' = [s \in Sessions |-> IF s \in emptied THEN 0
                                        ELSE IF sweep.swept[s] > 0 THEN sweep.swept[s]
                                        ELSE floor[s]]
  BY DEF DeleteExpiredMCPSessions
<1>3. sweep.swept \in [Sessions -> 0..MaxEvents] /\ 0 \in 0..MaxEvents
  BY BoundsAssumption DEF SessionTypes, SweepSet
<1>4. last' \in [Sessions -> 0..MaxEvents] /\ floor' \in [Sessions -> 0..MaxEvents]
  BY <1>2, <1>3 DEF SessionTypes
<1> QED
  BY <1>1, <1>4 DEF SessionTypes

\* Nothing becomes active by time or by the sweep.
LEMMA TimeKeeps ==
    ASSUME SessionTypes, SessionInv, TimePasses
    PROVE  SessionTypes' /\ SessionInv'
<1>0. UNCHANGED <<cache, op, stream>> /\ NoSweep \in SweepSet
  <2>1. 0 \in 0..MaxEvents
    BY BoundsAssumption
  <2> QED
    BY <2>1 DEF TimePasses, RowGoesIdle, DeleteExpiredEvents, DeleteExpiredMCPSessions,
                SweepFails, NoSweep, SweepSet
<1>1. CASE DeleteExpiredMCPSessions
  <2>1. sweep' = NoSweep
    BY <1>1 DEF DeleteExpiredMCPSessions
  <2>2. SessionInv'
    BY <1>0, <1>1, SweepCommits, RowsGo
  <2> QED
    BY <1>0, <1>1, <2>1, <2>2, SweepCommits DEF SessionTypes
<1>2. CASE ~DeleteExpiredMCPSessions
  <2>1. UNCHANGED <<row, last, floor>> /\ recent' \subseteq recent
    BY <1>2 DEF TimePasses, RowGoesIdle, DeleteExpiredEvents, SweepFails
  <2>2. sweep' \in SweepSet
    <3>1. CASE DeleteExpiredEvents
      BY <3>1, BoundsAssumption DEF DeleteExpiredEvents, Expired, SessionTypes, SweepSet
    <3> QED
      BY <1>0, <1>2, <3>1 DEF TimePasses, RowGoesIdle, SweepFails, SessionTypes
  <2>3. SessionInv'
    BY <1>0, <2>1, RowsGo
  <2> QED
    BY <1>0, <2>1, <2>2, <2>3 DEF SessionTypes
<1> QED
  BY <1>1, <1>2

-----------------------------------------------------------------------------
(* Sequences of events.                                                    *)

\* The neighbours in a sequence that is put together from two.
LEMMA LinkConcat ==
    ASSUME NEW a \in Seq(Int), NEW b \in Seq(Int), NEW u
    PROVE  Linked(a \o b, u) <=>
             /\ Linked(a, u) /\ Linked(b, u)
             /\ a # <<>> /\ b # <<>> => Joined(a[Len(a)], b[1], u)
<1>1. /\ a \o b \in Seq(Int) /\ Len(a \o b) = Len(a) + Len(b)
      /\ Len(a) \in Nat /\ Len(b) \in Nat
      /\ \A i \in 1..Len(a) + Len(b) :
           (a \o b)[i] = IF i <= Len(a) THEN a[i] ELSE b[i - Len(a)]
  BY ConcatProperties
<1>2. (a # <<>> <=> Len(a) >= 1) /\ (b # <<>> <=> Len(b) >= 1)
  BY EmptySeq
<1>3. ASSUME Linked(a \o b, u)
      PROVE  /\ Linked(a, u) /\ Linked(b, u)
             /\ a # <<>> /\ b # <<>> => Joined(a[Len(a)], b[1], u)
  <2>1. ASSUME NEW i \in 1..Len(a) - 1 PROVE Joined(a[i], a[i + 1], u)
    <3>1. i \in 1..Len(a \o b) - 1 /\ (a \o b)[i] = a[i] /\ (a \o b)[i + 1] = a[i + 1]
      BY <1>1
    <3> QED
      BY <1>3, <3>1 DEF Linked
  <2>2. ASSUME NEW i \in 1..Len(b) - 1 PROVE Joined(b[i], b[i + 1], u)
    <3>1. PICK j : j = Len(a) + i
      OBVIOUS
    <3>2. j \in 1..Len(a \o b) - 1 /\ j + 1 \in 1..Len(a \o b) /\ ~(j <= Len(a))
          /\ ~(j + 1 <= Len(a)) /\ j - Len(a) = i /\ j + 1 - Len(a) = i + 1
      BY <1>1, <3>1
    <3>3. (a \o b)[j] = b[i] /\ (a \o b)[j + 1] = b[i + 1]
      BY <1>1, <3>2
    <3> QED
      BY <1>3, <3>2, <3>3 DEF Linked
  <2>3. ASSUME a # <<>>, b # <<>> PROVE Joined(a[Len(a)], b[1], u)
    <3>1. /\ Len(a) \in 1..Len(a \o b) - 1 /\ (a \o b)[Len(a)] = a[Len(a)]
          /\ (a \o b)[Len(a) + 1] = b[1]
      BY <1>1, <1>2, <2>3
    <3> QED
      BY <1>3, <3>1 DEF Linked
  <2> QED
    BY <2>1, <2>2, <2>3 DEF Linked
<1>4. ASSUME Linked(a, u), Linked(b, u),
             a # <<>> /\ b # <<>> => Joined(a[Len(a)], b[1], u)
      PROVE  Linked(a \o b, u)
  <2> SUFFICES ASSUME NEW i \in 1..Len(a \o b) - 1
               PROVE  Joined((a \o b)[i], (a \o b)[i + 1], u)
    BY DEF Linked
  <2>1. CASE i <= Len(a) - 1
    <3>1. i \in 1..Len(a) - 1 /\ (a \o b)[i] = a[i] /\ (a \o b)[i + 1] = a[i + 1]
      BY <1>1, <2>1
    <3> QED
      BY <1>4, <3>1 DEF Linked
  <2>2. CASE i = Len(a)
    <3>1. a # <<>> /\ b # <<>> /\ (a \o b)[i] = a[Len(a)] /\ (a \o b)[i + 1] = b[1]
      BY <1>1, <1>2, <2>2
    <3> QED
      BY <1>4, <3>1
  <2>3. CASE i > Len(a)
    <3>1. PICK j : j = i - Len(a)
      OBVIOUS
    <3>2. j \in 1..Len(b) - 1 /\ i + 1 - Len(a) = j + 1 /\ ~(i <= Len(a)) /\ ~(i + 1 <= Len(a))
          /\ i \in 1..Len(a) + Len(b) /\ i + 1 \in 1..Len(a) + Len(b)
      BY <1>1, <2>3, <3>1
    <3>3. (a \o b)[i] = b[j] /\ (a \o b)[i + 1] = b[j + 1]
      BY <1>1, <3>1, <3>2
    <3> QED
      BY <1>4, <3>2, <3>3 DEF Linked
  <2> QED
    BY <1>1, <2>1, <2>2, <2>3
<1> QED
  BY <1>3, <1>4

\* Accounting for more keeps a sequence linked.
LEMMA LinkMore ==
    ASSUME NEW q, NEW u, NEW v, Linked(q, u), u \subseteq v
    PROVE  Linked(q, v)
BY DEF Linked, Joined

\* Short sequences are linked.
LEMMA LinkShort ==
    ASSUME NEW n \in Int, NEW u
    PROVE  Linked(<<>>, u) /\ Linked(<<n>>, u)
BY DEF Linked

\* A sequence from its first element on.
LEMMA HeadFirst ==
    ASSUME NEW S, NEW q \in Seq(S), q # <<>>
    PROVE  /\ q = <<Head(q)>> \o Tail(q) /\ Head(q) \in S /\ Tail(q) \in Seq(S)
           /\ Head(q) = q[1]
<1>1. /\ Head(q) \in S /\ Tail(q) \in Seq(S) /\ Len(Tail(q)) = Len(q) - 1
      /\ \A i \in 1..Len(Tail(q)) : Tail(q)[i] = q[i + 1]
  BY HeadTailProperties
<1>2. Len(q) \in Nat /\ Len(q) >= 1 /\ Head(q) = q[1]
  BY EmptySeq
<1>3. <<Head(q)>> \in Seq(S) /\ Len(<<Head(q)>>) = 1 /\ <<Head(q)>>[1] = q[1]
  BY <1>1, <1>2
<1>4. PICK h \in Seq(S) : h = <<Head(q)>> /\ Len(h) = 1 /\ h[1] = q[1]
  BY <1>3
<1>5. /\ h \o Tail(q) \in Seq(S) /\ Len(h \o Tail(q)) = Len(q)
      /\ \A i \in 1..Len(q) : (h \o Tail(q))[i] = IF i <= 1 THEN h[i] ELSE Tail(q)[i - 1]
  BY <1>1, <1>2, <1>4, ConcatProperties
<1>6. \A i \in 1..Len(q) : (h \o Tail(q))[i] = q[i]
  BY <1>1, <1>2, <1>4, <1>5
<1>7. h \o Tail(q) = q
  BY <1>5, <1>6, SeqEqual
<1> QED
  BY <1>1, <1>2, <1>4, <1>7

\* In a linked sequence nothing is before the first.
LEMMA LinkedAscends ==
    ASSUME NEW q \in Seq(Int), NEW u, Linked(q, u)
    PROVE  \A i \in 1..Len(q) : q[1] <= q[i]
<1> SUFFICES ASSUME NEW k \in 1..Len(q), ~(q[1] <= q[k]) PROVE FALSE
  OBVIOUS
<1> DEFINE T == {i \in 1..Len(q) : ~(q[1] <= q[i])}
<1>1. Len(q) \in Nat /\ \A i \in 1..Len(q) : q[i] \in Int
  OBVIOUS
<1>2. T \subseteq Nat /\ T # {}
  BY <1>1
<1>3. PICK n \in T : \A m \in T : ~(<<m, n>> \in OpToRel(<, Nat))
  BY <1>2, NatLessThanWellFounded, WFMin
<1>4. \A m \in T : ~(m < n)
  BY <1>2, <1>3 DEF OpToRel
<1>5. n # 1 /\ n \in 1..Len(q)
  BY <1>1
<1>6. n - 1 \in 1..Len(q) - 1 /\ n - 1 \in 1..Len(q)
  BY <1>1, <1>5
<1>7. q[1] <= q[n - 1]
  BY <1>1, <1>4, <1>5, <1>6
<1>8. q[n - 1] < q[n]
  <2>1. Joined(q[n - 1], q[n - 1 + 1], u)
    BY <1>6 DEF Linked
  <2>2. n - 1 + 1 = n
    BY <1>5
  <2> QED
    BY <2>1, <2>2 DEF Joined
<1> QED
  BY <1>1, <1>5, <1>6, <1>7, <1>8

\* Of a linked sequence, only the gaps after its first element matter.
LEMMA LinkLater ==
    ASSUME NEW q \in Seq(Int), NEW u, Linked(q, u), q # <<>>
    PROVE  Linked(q, {m \in u : m > q[1]})
<1>1. \A i \in 1..Len(q) : q[1] <= q[i] /\ q[i] \in Int /\ q[1] \in Int
  <2>1. Len(q) \in Nat /\ Len(q) >= 1
    BY EmptySeq
  <2> QED
    BY <2>1, LinkedAscends
<1> SUFFICES ASSUME NEW i \in 1..Len(q) - 1
             PROVE  Joined(q[i], q[i + 1], {m \in u : m > q[1]})
  BY DEF Linked
<1>2. i \in 1..Len(q) /\ i + 1 \in 1..Len(q)
  OBVIOUS
<1>3. Joined(q[i], q[i + 1], u)
  BY DEF Linked
<1> QED
  BY <1>1, <1>2, <1>3 DEF Joined

\* InOrder counts up.
LEMMA InOrderRun ==
    ASSUME NEW a \in Int, NEW b \in Int, NEW u
    PROVE  /\ InOrder(a..b) \in Seq(a..b)
           /\ Len(InOrder(a..b)) = IF a <= b THEN b - a + 1 ELSE 0
           /\ \A i \in 1..Len(InOrder(a..b)) : InOrder(a..b)[i] = a + i - 1
           /\ Linked(InOrder(a..b), u)
<1>1. CASE a > b
  <2>1. a..b = {}
    BY <1>1
  <2>2. InOrder(a..b) = <<>>
    BY <2>1 DEF InOrder
  <2>3. InOrder(a..b) \in Seq(a..b) /\ Len(InOrder(a..b)) = 0
    BY <2>2, EmptySeq
  <2>4. Linked(InOrder(a..b), u)
    BY <2>3 DEF Linked
  <2>5. ~(a <= b) /\ 1..Len(InOrder(a..b)) = {}
    BY <1>1, <2>3
  <2> QED
    BY <2>3, <2>4, <2>5
<1>2. CASE a <= b
  <2>1. a..b # {} /\ Cardinality(a..b) = b - a + 1
    <3>1. ~(a > b) /\ a \in a..b
      BY <1>2
    <3> QED
      BY <3>1, FS_Interval
  <2>2. (CHOOSE m \in a..b : \A n \in a..b : m <= n) = a
    <3>1. a \in a..b /\ \A n \in a..b : a <= n
      BY <1>2
    <3>2. \A m \in a..b : (\A n \in a..b : m <= n) => m = a
      BY <3>1
    <3> QED
      BY <3>1, <3>2
  <2>3. InOrder(a..b) = [i \in 1..b - a + 1 |-> a + i - 1]
    <3>1. \A S : S # {} =>
            InOrder(S) = [i \in 1..Cardinality(S) |->
                            (CHOOSE m \in S : \A n \in S : m <= n) + i - 1]
      BY DEF InOrder
    <3>2. InOrder(a..b) = [i \in 1..Cardinality(a..b) |->
                             (CHOOSE m \in a..b : \A n \in a..b : m <= n) + i - 1]
      BY <2>1, <3>1
    <3> QED
      BY <2>1, <2>2, <3>2
  <2> DEFINE q == [i \in 1..b - a + 1 |-> a + i - 1]
  <2>4. q \in [1..b - a + 1 -> a..b] /\ b - a + 1 \in Nat
    BY <1>2
  <2>5. q \in Seq(a..b) /\ Len(q) = b - a + 1 /\ \A i \in 1..Len(q) : q[i] = a + i - 1
    BY <2>4
  <2> HIDE DEF q
  <2>6. Linked(q, u)
    BY <2>5 DEF Linked, Joined
  <2> QED
    BY <1>2, <2>3, <2>5, <2>6 DEF q
<1> QED
  BY <1>1, <1>2

-----------------------------------------------------------------------------
(* Steps of streams.                                                       *)

\* What a stream is made of.
LEMMA StreamFields ==
    ASSUME NEW r \in StreamSet
    PROVE  /\ r.cursor \in Nat /\ r.got \in Nat /\ r.seek.after \in Nat /\ r.seek.oldest \in Nat
           /\ Known(r) \in Seq(Int) /\ r.replay \in Seq(Int) /\ r.channel \in Seq(Int)
           /\ r.listed \in Seq(Int) /\ Queue(r) \in Seq(Int)
           /\ Linked(Known(r), r.unsent)
<1>1. /\ r.replay \in Seq(1..MaxEvents) /\ r.channel \in Seq(1..MaxEvents)
      /\ r.listed \in Seq(1..MaxEvents) /\ MaxEvents \in Nat
  BY BoundsAssumption DEF StreamSet
<1>2. r.cursor \in Nat /\ r.got \in Nat /\ r.seek.after \in Nat /\ r.seek.oldest \in Nat
  BY <1>1 DEF StreamSet
<1>3. r.replay \in Seq(Int) /\ r.channel \in Seq(Int) /\ r.listed \in Seq(Int)
  <2>1. 1..MaxEvents \subseteq Int
    OBVIOUS
  <2> QED
    BY <1>1, <2>1, SeqMonotonic
<1>4. Known(r) \in Seq(Int) /\ Linked(Known(r), r.unsent)
  BY <1>2, LinkShort DEF Known
<1>5. Queue(r) \in Seq(Int)
  BY <1>3, <1>4, ConcatProperties DEF Queue
<1> QED
  BY <1>2, <1>3, <1>4, <1>5

\* Streams move to sound states: what makes a stream sound depends on nothing
\* but the stream.
LEMMA StreamsMove ==
    ASSUME NEW f \in [Streams -> StreamSet], \A y \in Streams : StreamSound(f[y]),
           stream' = f
    PROVE  StreamInv' /\ stream' \in [Streams -> StreamSet]
<1>1. ASSUME NEW y \in Streams PROVE StreamSound(stream[y])'
  <2>1. stream'[y] = f[y]
    OBVIOUS
  <2>2. Attached(stream[y])' /\ Sought(stream[y])'
    BY <2>1 DEF StreamSound, Attached, Sought
  <2>3. Queue(stream[y])' = Queue(f[y])
    BY <2>1 DEF Queue, Known
  <2>4. CursorFollows(stream[y])'
    BY <2>1, <2>3 DEF StreamSound, CursorFollows
  <2>5. Linked(Queue(stream[y]) \o stream[y].listed, stream[y].unsent)'
    BY <2>1, <2>3 DEF StreamSound
  <2> QED
    BY <2>2, <2>4, <2>5 DEF StreamSound
<1> QED
  BY <1>1 DEF StreamInv

\* One stream moves to a sound state.
LEMMA StreamMoves ==
    ASSUME IInv, NEW x \in Streams, NEW r \in StreamSet, StreamSound(r),
           stream' = [stream EXCEPT ![x] = r]
    PROVE  StreamInv' /\ stream' \in [Streams -> StreamSet]
<1>1. stream \in [Streams -> StreamSet] /\ \A y \in Streams : StreamSound(stream[y])
  BY TypeHalves DEF IInv, StreamInv
<1>2. PICK f : f = [stream EXCEPT ![x] = r]
  OBVIOUS
<1>3. f \in [Streams -> StreamSet] /\ \A y \in Streams : f[y] = IF y = x THEN r ELSE stream[y]
  BY <1>1, <1>2
<1>4. \A y \in Streams : StreamSound(f[y])
  BY <1>1, <1>3
<1> QED
  BY <1>2, <1>3, <1>4, StreamsMove

\* No stream moves.
LEMMA StreamsStay ==
    ASSUME IInv, UNCHANGED stream
    PROVE  StreamInv' /\ stream' \in [Streams -> StreamSet]
<1>1. stream \in [Streams -> StreamSet] /\ \A y \in Streams : StreamSound(stream[y])
  BY TypeHalves DEF IInv, StreamInv
<1> QED
  BY <1>1, StreamsMove

\* A stream that has nothing on its way.
LEMMA EmptySound ==
    ASSUME NEW r \in StreamSet, r.replay = <<>>, r.listed = <<>>, r.channel = <<>>,
           r.unsent = {}, r.replica = None \/ r.opening, r.opening => r.replica # None,
           r.replica # None => r.session \in Sessions, Sought(r)
    PROVE  StreamSound(r)
<1>1. Attached(r) /\ CursorFollows(r)
  BY DEF Attached, CursorFollows
<1>2. Known(r) \in Seq(Int) /\ Linked(Known(r), r.unsent)
  BY StreamFields
<1>3. Queue(r) \o r.listed = Known(r)
  BY <1>2, ConcatEmptySeq DEF Queue
<1> QED
  BY <1>1, <1>2, <1>3 DEF StreamSound

\* A stream that was cut.
LEMMA CutSound ==
    ASSUME IInv, NEW x \in Streams
    PROVE  Cut(x) \in StreamSet /\ StreamSound(Cut(x))
<1>1. stream[x] \in StreamSet
  BY TypeHalves DEF IInv
<1>2. NoSeek \in [after : 0..MaxEvents + 1, oldest : 0..MaxEvents + 1]
  BY BoundsAssumption DEF NoSeek
<1>3. <<>> \in Seq(1..MaxEvents) /\ 0 \in 0..MaxEvents
  BY BoundsAssumption
<1>4. /\ Cut(x) \in StreamSet /\ Cut(x).replay = <<>> /\ Cut(x).listed = <<>>
      /\ Cut(x).channel = <<>> /\ Cut(x).unsent = {} /\ Cut(x).replica = None
      /\ Cut(x).opening = FALSE /\ Cut(x).seek = NoSeek
  BY <1>1, <1>2, <1>3 DEF Cut, StreamSet
<1>5. Sought(Cut(x))
  BY <1>4 DEF Sought
<1> QED
  BY <1>4, <1>5, EmptySound

\* What a session keeps is a run of consecutive events.
LEMMA RetainedRun ==
    ASSUME SessionTypes, NEW s \in Sessions
    PROVE  /\ last[s] \in 0..MaxEvents /\ MaxEvents \in Nat
           /\ Oldest(s) \in Nat /\ 1 <= Oldest(s) /\ Oldest(s) <= MaxEvents + 1
           /\ Retained(s) = Oldest(s)..last[s]
<1>1. /\ last[s] \in Nat /\ Window \in Nat \ {0} /\ MaxEvents \in Nat /\ last[s] <= MaxEvents
      /\ floor[s] \in Nat /\ floor[s] <= MaxEvents
  BY BoundsAssumption DEF SessionTypes
<1> QED
  BY <1>1 DEF Oldest, Retained

\* What a listing returns: the events that follow, from the first that is kept;
\* those before it are known to be trimmed if the starting point was kept.
LEMMA ListingFacts ==
    ASSUME SessionTypes, NEW x \in Streams, stream[x] \in StreamSet, NEW s \in Sessions,
           s = stream[x].session, NEW k \in Nat, k = stream[x].seek.after
    PROVE  /\ ListMCPEvents(x) \in Seq(1..MaxEvents)
           /\ \A u : Linked(ListMCPEvents(x), u)
           /\ TrimmedSince(x) \subseteq 1..MaxEvents
           /\ k = MaxEvents + 1 => ListMCPEvents(x) = <<>>
           /\ ListMCPEvents(x) # <<>> =>
                /\ k < ListMCPEvents(x)[1]
                /\ stream[x].seek.oldest <= k + 1 =>
                     k + 1..ListMCPEvents(x)[1] - 1 \subseteq TrimmedSince(x)
<1>1. /\ last[s] \in 0..MaxEvents /\ MaxEvents \in Nat
      /\ Oldest(s) \in Nat /\ 1 <= Oldest(s) /\ Oldest(s) <= MaxEvents + 1
      /\ Retained(s) = Oldest(s)..last[s]
  BY RetainedRun
<1>2. PICK o \in Nat : o = stream[x].seek.oldest
  BY StreamFields
<1>3. TrimmedSince(x) = {m \in o..Oldest(s) - 1 : m > k}
  BY <1>2 DEF TrimmedSince
<1>4. TrimmedSince(x) \subseteq 1..MaxEvents
  BY <1>1, <1>3
<1>5. PICK a \in Nat : a = IF k + 1 >= Oldest(s) THEN k + 1 ELSE Oldest(s)
  BY <1>1
<1>6. ListMCPEvents(x) = InOrder({m \in Retained(s) : m > k})
  BY DEF ListMCPEvents
<1>7. ListMCPEvents(x) = InOrder(a..last[s])
  <2>1. {m \in Retained(s) : m > k} = a..last[s]
    BY <1>1, <1>5
  <2> QED
    BY <1>6, <2>1
<1>8. /\ InOrder(a..last[s]) \in Seq(a..last[s])
      /\ Len(InOrder(a..last[s])) = IF a <= last[s] THEN last[s] - a + 1 ELSE 0
      /\ \A i \in 1..Len(InOrder(a..last[s])) : InOrder(a..last[s])[i] = a + i - 1
      /\ \A u : Linked(InOrder(a..last[s]), u)
  <2>1. a \in Int /\ last[s] \in Int
    BY <1>1
  <2>2. \A u : /\ InOrder(a..last[s]) \in Seq(a..last[s])
               /\ Len(InOrder(a..last[s])) = IF a <= last[s] THEN last[s] - a + 1 ELSE 0
               /\ \A i \in 1..Len(InOrder(a..last[s])) : InOrder(a..last[s])[i] = a + i - 1
               /\ Linked(InOrder(a..last[s]), u)
    BY <2>1, InOrderRun
  <2> QED
    BY <2>2
<1>9. a..last[s] \subseteq 1..MaxEvents
  BY <1>1, <1>5
<1>10. ListMCPEvents(x) \in Seq(1..MaxEvents)
  BY <1>7, <1>8, <1>9, SeqMonotonic, EmptySeq
<1>11. \A u : Linked(ListMCPEvents(x), u)
  <2>1. 0 \in Int
    OBVIOUS
  <2>2. \A u : Linked(<<>>, u)
    BY <2>1, LinkShort
  <2> QED
    BY <1>7, <1>8, <2>2
<1>12. ASSUME ListMCPEvents(x) # <<>>
       PROVE  ListMCPEvents(x)[1] = a /\ a <= last[s]
  <2>1. ListMCPEvents(x) = InOrder(a..last[s]) /\ Len(ListMCPEvents(x)) \in Nat \ {0}
    BY <1>7, <1>10, <1>12, EmptySeq
  <2>2. a <= last[s] /\ 1 \in 1..Len(InOrder(a..last[s]))
    BY <1>8, <2>1
  <2>3. InOrder(a..last[s])[1] = a + 1 - 1
    BY <1>8, <2>2
  <2> QED
    BY <2>1, <2>2, <2>3
<1>13. k < a /\ (k = MaxEvents + 1 => a > last[s])
  BY <1>1, <1>5
<1>14. o <= k + 1 => k + 1..a - 1 \subseteq TrimmedSince(x)
  BY <1>1, <1>3, <1>5
<1> QED
  BY <1>1, <1>2, <1>4, <1>10, <1>11, <1>12, <1>13, <1>14

\* Every event on its way to a client has a number.
LEMMA QueueNumbers ==
    ASSUME NEW r \in StreamSet
    PROVE  Queue(r) \in Seq(1..MaxEvents) /\ Queue(r) \in Seq(Int) /\ 1..MaxEvents \subseteq Int
<1>1. /\ r.replay \in Seq(1..MaxEvents) /\ r.channel \in Seq(1..MaxEvents) /\ MaxEvents \in Nat
      /\ r.got \in 0..MaxEvents
  BY BoundsAssumption DEF StreamSet
<1>2. Known(r) \in Seq(1..MaxEvents)
  <2>1. CASE r.got = 0
    BY <2>1, EmptySeq DEF Known
  <2>2. CASE r.got # 0
    <3>1. r.got \in 1..MaxEvents
      BY <1>1, <2>2
    <3> QED
      BY <2>2, <3>1 DEF Known
  <2> QED
    BY <2>1, <2>2
<1>3. Queue(r) \in Seq(1..MaxEvents)
  BY <1>1, <1>2, ConcatProperties DEF Queue
<1> QED
  BY <1>3, StreamFields

\* The last of a sequence is one of its elements.
LEMMA LastElement ==
    ASSUME NEW S, NEW q \in Seq(S), q # <<>>
    PROVE  q[Len(q)] \in S /\ Len(q) \in Nat /\ Len(q) >= 1
<1>1. Len(q) \in Nat \ {0}
  BY EmptySeq
<1> QED
  BY <1>1, ElementOfSeq

\* What IInv says of one stream.
LEMMA OneStream ==
    ASSUME IInv, NEW x \in Streams
    PROVE  /\ SessionTypes /\ SessionInv /\ stream \in [Streams -> StreamSet]
           /\ stream[x] \in StreamSet /\ StreamSound(stream[x]) /\ Attached(stream[x])
           /\ Sought(stream[x]) /\ CursorFollows(stream[x])
           /\ Linked(Queue(stream[x]) \o stream[x].listed, stream[x].unsent)
BY TypeHalves DEF IInv, StreamInv, StreamSound

\* The streams move, and nothing else.
LEMMA SessionsStay ==
    ASSUME SessionTypes, SessionInv, UNCHANGED <<sessionVars, cache, op>>
    PROVE  SessionTypes' /\ SessionInv'
<1>1. UNCHANGED <<row, recent, last, floor, sweep, cache, op>>
  BY DEF sessionVars
<1>2. SessionInv'
  BY <1>1, RowsGo
<1> QED
  BY <1>1, <1>2 DEF SessionTypes

\* A lookup finds an event that is kept.
LEMMA SeekFacts ==
    ASSUME SessionTypes, NEW s \in Sessions, NEW n \in 0..MaxEvents
    PROVE  /\ Seek(s, n) \in [after : 0..MaxEvents + 1, oldest : 0..MaxEvents + 1]
           /\ Seek(s, n) # NoSeek =>
                /\ Seek(s, n).after = n /\ Seek(s, n).oldest = Oldest(s)
                /\ n = 0 \/ Oldest(s) <= n
<1>1. /\ last[s] \in 0..MaxEvents /\ MaxEvents \in Nat
      /\ Oldest(s) \in Nat /\ 1 <= Oldest(s) /\ Oldest(s) <= MaxEvents + 1
      /\ Retained(s) = Oldest(s)..last[s]
  BY RetainedRun
<1>2. NoSeek \in [after : 0..MaxEvents + 1, oldest : 0..MaxEvents + 1]
  BY <1>1 DEF NoSeek
<1>3. CASE Seek(s, n) = NoSeek
  BY <1>2, <1>3
<1>4. CASE Seek(s, n) # NoSeek
  <2>1. /\ n = 0 \/ n \in Oldest(s)..last[s]
        /\ Seek(s, n) = [after |-> n, oldest |-> Oldest(s)]
    BY <1>1, <1>4 DEF Seek
  <2> QED
    BY <1>1, <2>1
<1> QED
  BY <1>3, <1>4

\* A stream is opened.
LEMMA BeginReplayKeeps ==
    ASSUME IInv, NEW x \in Streams, NEW p \in Replicas, NEW s \in Sessions,
           BeginReplay(x, p, s)
    PROVE  IInv'
<1>0. /\ stream[x].replica = None /\ s \in cache[p] /\ Start(p, "replay", s, TRUE)
      /\ UNCHANGED <<sessionVars, cache>> /\ UNCHANGED <<row, recent, last, floor, sweep, cache>>
  BY DEF BeginReplay, sessionVars
<1>1. /\ SessionTypes /\ SessionInv /\ stream \in [Streams -> StreamSet]
      /\ stream[x] \in StreamSet /\ Attached(stream[x])
  BY OneStream
<1>2. row[s] # "absent"
  BY <1>0, <1>1 DEF SessionTypes
<1>3. SessionInv' /\ op' \in [Replicas -> OpSet]
  BY <1>0, <1>1, <1>2, StartKeeps
<1>4. SessionTypes'
  BY <1>0, <1>1, <1>3 DEF SessionTypes
<1>5. PICK k : k = Seek(s, stream[x].got)
  OBVIOUS
<1>6. /\ k \in [after : 0..MaxEvents + 1, oldest : 0..MaxEvents + 1]
      /\ k # NoSeek => /\ k.after = stream[x].got /\ k.oldest = Oldest(s)
                       /\ k.after = 0 \/ k.oldest <= k.after
      /\ Oldest(s) \in Nat
  <2>1. stream[x].got \in 0..MaxEvents
    BY <1>1 DEF StreamSet
  <2> QED
    BY <1>1, <1>5, <2>1, SeekFacts, RetainedRun
<1>7. PICK r : r = [stream[x] EXCEPT !.session = s, !.replica = p, !.opening = TRUE, !.seek = k]
  OBVIOUS
<1>8. stream' = [stream EXCEPT ![x] = r]
  BY <1>1, <1>5, <1>7 DEF BeginReplay
<1>9. /\ r \in StreamSet /\ r.session = s /\ r.replica = p /\ r.opening = TRUE /\ r.seek = k
      /\ r.got = stream[x].got /\ r.replay = stream[x].replay /\ r.listed = stream[x].listed
      /\ r.channel = stream[x].channel /\ r.unsent = stream[x].unsent
  BY <1>1, <1>6, <1>7 DEF StreamSet
<1>10. r.replay = <<>> /\ r.listed = <<>> /\ r.channel = <<>> /\ r.unsent = {}
  BY <1>0, <1>1, <1>9 DEF Attached
<1>11. Sought(r)
  BY <1>6, <1>9, <1>10 DEF Sought
<1>12. StreamSound(r)
  <2>1. r.replica # None
    BY <1>9, BoundsAssumption
  <2> QED
    BY <1>9, <1>10, <1>11, <2>1, EmptySound
<1>13. StreamInv' /\ stream' \in [Streams -> StreamSet]
  BY <1>0, <1>8, <1>9, <1>12, StreamMoves
<1> QED
  BY <1>3, <1>4, <1>13, Halves

\* A tick of the poll looks up where it goes on.
LEMMA PollSeeksKeeps ==
    ASSUME IInv, NEW x \in Streams, PollSeeks(x)
    PROVE  IInv'
<1>0. /\ stream[x].replica # None /\ ~stream[x].opening /\ stream[x].listed = <<>>
      /\ UNCHANGED <<sessionVars, cache, op>>
  BY DEF PollSeeks, Subscribed
<1>1. /\ SessionTypes /\ SessionInv /\ stream \in [Streams -> StreamSet]
      /\ stream[x] \in StreamSet /\ Attached(stream[x]) /\ CursorFollows(stream[x])
      /\ Linked(Queue(stream[x]) \o stream[x].listed, stream[x].unsent)
  BY OneStream
<1>2. SessionTypes' /\ SessionInv'
  BY <1>0, <1>1, SessionsStay
<1>3. PICK s \in Sessions : s = stream[x].session
  BY <1>0, <1>1 DEF Attached
<1>4. PICK k : k = Seek(s, stream[x].cursor)
  OBVIOUS
<1>5. /\ k \in [after : 0..MaxEvents + 1, oldest : 0..MaxEvents + 1]
      /\ k # NoSeek => /\ k.after = stream[x].cursor /\ k.oldest = Oldest(s)
                       /\ k.after = 0 \/ k.oldest <= k.after
      /\ Oldest(s) \in Nat
  <2>1. stream[x].cursor \in 0..MaxEvents
    BY <1>1 DEF StreamSet
  <2> QED
    BY <1>1, <1>4, <2>1, SeekFacts, RetainedRun
<1>6. PICK r : r = [stream[x] EXCEPT !.seek = k]
  OBVIOUS
<1>7. stream' = [stream EXCEPT ![x] = r]
  BY <1>1, <1>3, <1>4, <1>6 DEF PollSeeks
<1>8. /\ r \in StreamSet /\ r.session = s /\ r.replica = stream[x].replica /\ r.seek = k
      /\ r.opening = stream[x].opening /\ r.cursor = stream[x].cursor
      /\ r.got = stream[x].got /\ r.replay = stream[x].replay /\ r.listed = stream[x].listed
      /\ r.channel = stream[x].channel /\ r.unsent = stream[x].unsent
  BY <1>1, <1>3, <1>5, <1>6 DEF StreamSet
<1>9. Queue(r) = Queue(stream[x])
  <2>1. Known(r) = Known(stream[x])
    BY <1>8 DEF Known
  <2> QED
    BY <1>8, <2>1 DEF Queue
<1>10. Sought(r)
  BY <1>0, <1>5, <1>8 DEF Sought
<1>11. Attached(r)
  BY <1>1, <1>8 DEF Attached
<1>12. CursorFollows(r)
  BY <1>1, <1>8, <1>9 DEF CursorFollows
<1>13. Linked(Queue(r) \o r.listed, r.unsent)
  BY <1>1, <1>8, <1>9
<1>14. StreamInv' /\ stream' \in [Streams -> StreamSet]
  BY <1>2, <1>7, <1>8, <1>10, <1>11, <1>12, <1>13, StreamMoves DEF StreamSound
<1> QED
  BY <1>2, <1>14, Halves

\* A listing joins on to what is on its way to the client.
LEMMA ListingJoins ==
    ASSUME SessionTypes, NEW x \in Streams, stream[x] \in StreamSet, Sought(stream[x]),
           stream[x].session \in Sessions, ListMCPEvents(x) # <<>>,
           NEW z \in 1..MaxEvents, NEW u, NEW k \in Nat, k = stream[x].seek.after,
           z <= k, z + 1..k \subseteq u
    PROVE  Joined(z, ListMCPEvents(x)[1], u \cup TrimmedSince(x))
<1>1. /\ ListMCPEvents(x) \in Seq(1..MaxEvents) /\ k # MaxEvents + 1
      /\ k < ListMCPEvents(x)[1]
      /\ stream[x].seek.oldest <= k + 1 =>
           k + 1..ListMCPEvents(x)[1] - 1 \subseteq TrimmedSince(x)
  BY ListingFacts
<1>2. PICK a \in Int : a = ListMCPEvents(x)[1]
  <2>1. 1 \in 1..Len(ListMCPEvents(x))
    BY <1>1, LastElement
  <2>2. ListMCPEvents(x)[1] \in 1..MaxEvents
    BY <1>1, <2>1, ElementOfSeq
  <2> QED
    BY <2>2
<1>3. stream[x].seek.oldest <= k + 1
  <2>1. stream[x].seek # NoSeek
    BY <1>1 DEF NoSeek
  <2>2. k = 0 \/ stream[x].seek.oldest <= k
    BY <2>1 DEF Sought
  <2>3. stream[x].seek.oldest \in Nat
    BY StreamFields
  <2>4. k # 0
    BY BoundsAssumption
  <2> QED
    BY <2>2, <2>3, <2>4
<1>4. k + 1..a - 1 \subseteq TrimmedSince(x) /\ k < a
  BY <1>1, <1>2, <1>3
<1>5. z + 1..a - 1 \subseteq (z + 1..k) \cup (k + 1..a - 1)
  BY BoundsAssumption
<1>6. z < a
  BY <1>4, BoundsAssumption
<1> QED
  BY <1>2, <1>4, <1>5, <1>6 DEF Joined

\* The last of two sequences together is the last of the second.
LEMMA LastOfBoth ==
    ASSUME NEW a \in Seq(Int), NEW b \in Seq(Int), b # <<>>
    PROVE  a \o b # <<>> /\ (a \o b)[Len(a \o b)] = b[Len(b)]
<1>1. Len(b) \in Nat /\ Len(b) >= 1 /\ Len(a) \in Nat
  BY LastElement, LenProperties
<1>2. /\ Len(a \o b) = Len(a) + Len(b)
      /\ (a \o b)[Len(a) + Len(b)] = b[Len(a) + Len(b) - Len(a)]
  BY <1>1, ConcatProperties
<1>3. Len(a) + Len(b) - Len(a) = Len(b)
  BY <1>1
<1>4. a \o b # <<>>
  <2>1. Len(a \o b) # 0
    BY <1>1, <1>2
  <2> QED
    BY <2>1
<1> QED
  BY <1>2, <1>3, <1>4

\* A tick of the poll reads what follows.
LEMMA PollListsKeeps ==
    ASSUME IInv, NEW x \in Streams, PollLists(x)
    PROVE  IInv'
<1>0. /\ stream[x].replica # None /\ ~stream[x].opening /\ stream[x].seek # NoSeek
      /\ UNCHANGED <<sessionVars, cache, op>>
  BY DEF PollLists, Subscribed
<1>1. /\ SessionTypes /\ SessionInv /\ stream \in [Streams -> StreamSet]
      /\ stream[x] \in StreamSet /\ Attached(stream[x]) /\ CursorFollows(stream[x])
      /\ Sought(stream[x]) /\ Linked(Queue(stream[x]) \o stream[x].listed, stream[x].unsent)
  BY OneStream
<1>2. SessionTypes' /\ SessionInv'
  BY <1>0, <1>1, SessionsStay
<1>3. /\ stream[x].session \in Sessions /\ stream[x].listed = <<>>
      /\ stream[x].seek.after = stream[x].cursor /\ stream[x].cursor \in Nat
      /\ stream[x].seek.after \in Nat
  BY <1>0, <1>1, StreamFields DEF Sought
<1>4. PICK l : l = ListMCPEvents(x)
  OBVIOUS
<1>5. PICK t : t = TrimmedSince(x)
  OBVIOUS
<1>6. l \in Seq(1..MaxEvents) /\ t \subseteq 1..MaxEvents /\ \A u : Linked(l, u)
  BY <1>1, <1>3, <1>4, <1>5, ListingFacts
<1>7. PICK r : r = [stream[x] EXCEPT !.seek = NoSeek, !.listed = l, !.unsent = @ \cup t]
  OBVIOUS
<1>8. stream' = [stream EXCEPT ![x] = r]
  BY <1>1, <1>4, <1>5, <1>7 DEF PollLists
<1>9. /\ r \in StreamSet /\ r.session = stream[x].session /\ r.replica = stream[x].replica
      /\ r.seek = NoSeek /\ r.opening = stream[x].opening /\ r.cursor = stream[x].cursor
      /\ r.got = stream[x].got /\ r.replay = stream[x].replay /\ r.listed = l
      /\ r.channel = stream[x].channel /\ r.unsent = stream[x].unsent \cup t
  <2>1. NoSeek \in [after : 0..MaxEvents + 1, oldest : 0..MaxEvents + 1]
    BY BoundsAssumption DEF NoSeek
  <2> QED
    BY <1>1, <1>6, <1>7, <2>1 DEF StreamSet
<1>10. Queue(r) = Queue(stream[x])
  <2>1. Known(r) = Known(stream[x])
    BY <1>9 DEF Known
  <2> QED
    BY <1>9, <2>1 DEF Queue
<1>11. Sought(r) /\ Attached(r)
  BY <1>0, <1>1, <1>9 DEF Sought, Attached
<1>12. CursorFollows(r)
  BY <1>1, <1>3, <1>9, <1>10 DEF CursorFollows
<1>13. Linked(Queue(r) \o r.listed, r.unsent)
  <2>1. PICK q \in Seq(Int) : q = Queue(stream[x]) /\ q \in Seq(1..MaxEvents)
    BY <1>1, QueueNumbers
  <2>2. l \in Seq(Int) /\ Linked(l, r.unsent)
    BY <1>6, <1>9, StreamFields
  <2>3. Linked(q, r.unsent)
    <3>1. Linked(q, stream[x].unsent)
      BY <1>1, <1>3, <2>1, ConcatEmptySeq
    <3> QED
      BY <1>9, <3>1, LinkMore
  <2>4. ASSUME q # <<>>, l # <<>> PROVE Joined(q[Len(q)], l[1], r.unsent)
    <3>1. q[Len(q)] \in 1..MaxEvents
      BY <2>1, <2>4, LastElement
    <3>2. /\ q[Len(q)] <= stream[x].cursor
          /\ q[Len(q)] + 1..stream[x].cursor \subseteq stream[x].unsent
      BY <1>0, <1>1, <1>3, <2>1, <2>4 DEF CursorFollows
    <3> QED
      BY <1>1, <1>3, <1>4, <1>5, <1>9, <2>4, <3>1, <3>2, ListingJoins
  <2> QED
    BY <1>9, <1>10, <2>1, <2>2, <2>3, <2>4, LinkConcat
<1>14. StreamInv' /\ stream' \in [Streams -> StreamSet]
  BY <1>2, <1>8, <1>9, <1>11, <1>12, <1>13, StreamMoves DEF StreamSound
<1> QED
  BY <1>2, <1>14, Halves

\* A stream is subscribed with the events it missed.
LEMMA ReplayKeeps ==
    ASSUME IInv, NEW x \in Streams, ReplayAndSubscribe(x)
    PROVE  IInv'
<1>0. /\ stream[x].opening /\ End(stream[x].replica)
      /\ UNCHANGED <<sessionVars, cache>> /\ UNCHANGED <<row, recent, last, floor, sweep, cache>>
  BY DEF ReplayAndSubscribe, sessionVars
<1>1. /\ SessionTypes /\ SessionInv /\ stream \in [Streams -> StreamSet]
      /\ stream[x] \in StreamSet /\ Attached(stream[x]) /\ Sought(stream[x])
  BY OneStream
<1>2. /\ stream[x].replica \in Replicas /\ stream[x].session \in Sessions
      /\ stream[x].replay = <<>> /\ stream[x].listed = <<>> /\ stream[x].channel = <<>>
      /\ stream[x].unsent = {}
  BY <1>0, <1>1 DEF Attached, StreamSet
<1>3. SessionInv' /\ SessionTypes'
  <2>1. Active' = Active /\ IsFiniteSet(recent')
    BY <1>0, <1>1 DEF Active, SessionInv, HeldBounded
  <2>2. SessionInv' /\ op' \in [Replicas -> OpSet]
    BY <1>0, <1>1, <1>2, <2>1, EndKeeps
  <2> QED
    BY <1>0, <1>1, <2>2 DEF SessionTypes
<1>4. PICK l : l = ListMCPEvents(x)
  OBVIOUS
<1>5. PICK t : t = TrimmedSince(x)
  OBVIOUS
<1>6. /\ l \in Seq(1..MaxEvents) /\ t \subseteq 1..MaxEvents /\ \A u : Linked(l, u)
      /\ stream[x].seek.after \in Nat
      /\ stream[x].seek.after = MaxEvents + 1 => l = <<>>
  BY <1>1, <1>2, <1>4, <1>5, StreamFields, ListingFacts
<1>7. PICK c : c = IF l = <<>> THEN stream[x].got ELSE l[Len(l)]
  OBVIOUS
<1>8. PICK r : r = [stream[x] EXCEPT !.opening = FALSE, !.seek = NoSeek, !.replay = l,
                                     !.unsent = t, !.cursor = c]
  OBVIOUS
<1>9. stream' = [stream EXCEPT ![x] = r]
  BY <1>1, <1>4, <1>5, <1>7, <1>8 DEF ReplayAndSubscribe
<1>10. c \in 0..MaxEvents
  <2>1. stream[x].got \in 0..MaxEvents
    BY <1>1 DEF StreamSet
  <2>2. l # <<>> => l[Len(l)] \in 1..MaxEvents
    BY <1>6, LastElement
  <2> QED
    BY <1>7, <2>1, <2>2
<1>11. /\ r \in StreamSet /\ r.session = stream[x].session /\ r.replica = stream[x].replica
       /\ r.seek = NoSeek /\ r.opening = FALSE /\ r.cursor = c
       /\ r.got = stream[x].got /\ r.replay = l /\ r.listed = <<>>
       /\ r.channel = <<>> /\ r.unsent = t
  <2>1. NoSeek \in [after : 0..MaxEvents + 1, oldest : 0..MaxEvents + 1]
    BY BoundsAssumption DEF NoSeek
  <2> QED
    BY <1>1, <1>2, <1>6, <1>8, <1>10, <2>1 DEF StreamSet
<1>12. Sought(r) /\ Attached(r)
  BY <1>2, <1>11, BoundsAssumption DEF Sought, Attached
<1>13. PICK h \in Seq(Int) : h = Known(r) /\ Linked(h, r.unsent) /\ l \in Seq(Int)
  BY <1>11, StreamFields
<1>14. Queue(r) = h \o l /\ Queue(r) \o r.listed = h \o l
  <2>1. h \o l \in Seq(Int)
    BY <1>13, ConcatProperties
  <2> QED
    BY <1>11, <1>13, <2>1, ConcatEmptySeq DEF Queue
<1>15. CursorFollows(r)
  <2>1. SUFFICES ASSUME Queue(r) # <<>>
                 PROVE  Queue(r)[Len(Queue(r))] = c
    BY <1>10, <2>1, <1>11 DEF CursorFollows
  <2>2. CASE l = <<>>
    <3>1. Queue(r) = h
      BY <1>13, <1>14, <2>2, ConcatEmptySeq
    <3>2. h = <<stream[x].got>>
      BY <1>11, <1>13, <2>1, <3>1 DEF Known
    <3> QED
      BY <1>7, <2>2, <3>1, <3>2
  <2>3. CASE l # <<>>
    BY <1>7, <1>13, <1>14, <2>3, LastOfBoth
  <2> QED
    BY <2>2, <2>3
<1>16. Linked(Queue(r) \o r.listed, r.unsent)
  <2>1. ASSUME h # <<>>, l # <<>> PROVE Joined(h[Len(h)], l[1], r.unsent)
    <3>1. h = <<stream[x].got>> /\ stream[x].got \in 1..MaxEvents
      BY <1>1, <1>11, <1>13, <2>1 DEF Known, StreamSet
    <3>2. h[Len(h)] = stream[x].got
      BY <3>1
    <3>3. stream[x].seek # NoSeek
      BY <1>6, <2>1 DEF NoSeek
    <3>4. stream[x].seek.after = stream[x].got
      BY <1>0, <1>1, <3>3 DEF Sought
    <3>5. stream[x].got + 1..stream[x].got \subseteq {}
      BY <3>1
    <3>6. Joined(stream[x].got, ListMCPEvents(x)[1], {} \cup TrimmedSince(x))
      <4>1. ListMCPEvents(x) # <<>> /\ stream[x].got <= stream[x].got
            /\ stream[x].got \in Nat
        BY <1>4, <1>6, <2>1, <3>1, <3>4
      <4> QED
        BY <1>1, <1>2, <3>1, <3>4, <3>5, <4>1, ListingJoins
    <3> QED
      BY <1>4, <1>5, <1>11, <3>2, <3>6
  <2>2. Linked(l, r.unsent)
    BY <1>6
  <2> QED
    BY <1>13, <1>14, <2>1, <2>2, LinkConcat
<1>17. StreamInv' /\ stream' \in [Streams -> StreamSet]
  BY <1>0, <1>9, <1>11, <1>12, <1>15, <1>16, StreamMoves DEF StreamSound
<1> QED
  BY <1>3, <1>17, Halves

\* A tick of the poll hands over one event, or drops it.
LEMMA PollSendsKeeps ==
    ASSUME IInv, NEW x \in Streams, PollSends(x)
    PROVE  IInv'
<1>0. stream[x].listed # <<>> /\ UNCHANGED <<sessionVars, cache, op>>
  BY DEF PollSends
<1>1. /\ SessionTypes /\ SessionInv /\ stream \in [Streams -> StreamSet]
      /\ stream[x] \in StreamSet /\ Attached(stream[x])
      /\ Sought(stream[x]) /\ Linked(Queue(stream[x]) \o stream[x].listed, stream[x].unsent)
  BY OneStream
<1>2. SessionTypes' /\ SessionInv'
  BY <1>0, <1>1, SessionsStay
<1>3. /\ stream[x].replica # None /\ ~stream[x].opening /\ stream[x].seek = NoSeek
      /\ stream[x].session \in Sessions
  BY <1>0, <1>1 DEF Attached, Sought
<1>4. PICK n \in 1..MaxEvents : n = Head(stream[x].listed)
  <2>1. stream[x].listed \in Seq(1..MaxEvents)
    BY <1>1 DEF StreamSet
  <2> QED
    BY <1>0, <2>1, HeadFirst
<1>5. PICK tl \in Seq(1..MaxEvents) : /\ tl = Tail(stream[x].listed)
                                      /\ stream[x].listed = <<n>> \o tl
  <2>1. stream[x].listed \in Seq(1..MaxEvents)
    BY <1>1 DEF StreamSet
  <2> QED
    BY <1>0, <1>4, <2>1, HeadFirst
<1>6. n \in Int /\ <<n>> \in Seq(Int) /\ tl \in Seq(Int)
  <2>1. n \in Int /\ 1..MaxEvents \subseteq Int
    BY <1>4, BoundsAssumption
  <2>2. tl \in Seq(Int)
    BY <1>5, <2>1, SeqMonotonic
  <2>3. <<n>> \in Seq(Int)
    BY <2>1
  <2> QED
    BY <2>1, <2>2, <2>3
<1>7. PICK q \in Seq(Int) : q = Queue(stream[x])
  BY <1>1, StreamFields
<1>8. PICK u : u = stream[x].unsent /\ u \subseteq 1..MaxEvents
  BY <1>1 DEF StreamSet
<1>9. PICK h \in Seq(Int) : h = <<n>> /\ Len(h) = 1 /\ h[1] = n /\ h # <<>>
  BY <1>6
<1>10. Linked(q \o (h \o tl), u)
  BY <1>1, <1>5, <1>7, <1>8, <1>9
<1>11. PICK r : r = [stream[x] EXCEPT
                      !.listed = tl, !.cursor = n,
                      !.channel = IF Len(stream[x].channel) = Channel THEN @ ELSE Append(@, n),
                      !.unsent = IF Len(stream[x].channel) = Channel THEN @ \cup {n} ELSE @]
  OBVIOUS
<1>12. stream' = [stream EXCEPT ![x] = r]
  BY <1>1, <1>4, <1>5, <1>11 DEF PollSends
<1>13. Append(stream[x].channel, n) \in Seq(1..MaxEvents)
  BY <1>1, <1>4 DEF StreamSet
<1>14. /\ r \in StreamSet /\ r.session = stream[x].session /\ r.replica = stream[x].replica
       /\ r.seek = NoSeek /\ r.opening = stream[x].opening /\ r.cursor = n
       /\ r.got = stream[x].got /\ r.replay = stream[x].replay /\ r.listed = tl
       /\ r.channel = (IF Len(stream[x].channel) = Channel
                       THEN stream[x].channel ELSE Append(stream[x].channel, n))
       /\ r.unsent = IF Len(stream[x].channel) = Channel THEN u \cup {n} ELSE u
  <2>1. n \in 0..MaxEvents
    BY <1>4, BoundsAssumption
  <2> QED
    BY <1>1, <1>3, <1>4, <1>5, <1>8, <1>11, <1>13, <2>1 DEF StreamSet
<1>15. Known(r) = Known(stream[x])
  BY <1>14 DEF Known
<1>16. Sought(r) /\ Attached(r)
  BY <1>3, <1>14 DEF Sought, Attached
<1>17. CursorFollows(r) /\ Linked(Queue(r) \o r.listed, r.unsent)
  <2>1. CASE Len(stream[x].channel) = Channel
    <3>1. Queue(r) = q /\ r.unsent = u \cup {n}
      BY <1>7, <1>14, <1>15, <2>1 DEF Queue
    <3>2. h \o tl \in Seq(Int) /\ (h \o tl)[1] = n /\ h \o tl # <<>>
      <4>1. /\ h \o tl \in Seq(Int) /\ Len(h \o tl) = Len(h) + Len(tl) /\ Len(tl) \in Nat
            /\ \A i \in 1..Len(h) + Len(tl) :
                 (h \o tl)[i] = IF i <= Len(h) THEN h[i] ELSE tl[i - Len(h)]
        BY <1>6, ConcatProperties, LenProperties
      <4>2. Len(h \o tl) # 0 /\ (h \o tl)[1] = n
        BY <1>9, <4>1
      <4> QED
        BY <4>1, <4>2
    <3>3. Linked(q, u) /\ Linked(h \o tl, u) /\ (q # <<>> => Joined(q[Len(q)], n, u))
      BY <1>10, <3>2, LinkConcat
    <3>4. Linked(tl, u) /\ (tl # <<>> => Joined(n, tl[1], u))
      BY <1>6, <1>9, <3>3, LinkConcat
    <3>5. CursorFollows(r)
      <4>1. ASSUME q # <<>>
            PROVE  q[Len(q)] <= n /\ q[Len(q)] + 1..n \subseteq u \cup {n}
        <5>1. q[Len(q)] \in Int
          BY <4>1, LastElement
        <5> QED
          BY <1>6, <3>3, <4>1, <5>1 DEF Joined
      <4> QED
        BY <1>14, <3>1, <4>1 DEF CursorFollows
    <3>6. ASSUME q # <<>>, tl # <<>> PROVE Joined(q[Len(q)], tl[1], u \cup {n})
      <4>1. q[Len(q)] \in Int /\ tl[1] \in Int
        <5>1. 1 \in 1..Len(tl)
          BY <1>6, <3>6, LastElement
        <5> QED
          BY <1>6, <3>6, <5>1, LastElement, ElementOfSeq
      <4> QED
        BY <1>6, <3>3, <3>4, <3>6, <4>1 DEF Joined
    <3>7. Linked(q, u \cup {n}) /\ Linked(tl, u \cup {n})
      BY <3>3, <3>4, LinkMore
    <3>8. Linked(q \o tl, u \cup {n})
      BY <1>6, <3>6, <3>7, LinkConcat
    <3> QED
      BY <1>14, <3>1, <3>5, <3>8
  <2>2. CASE Len(stream[x].channel) # Channel
    <3>1. r.unsent = u /\ r.channel = Append(stream[x].channel, n)
      BY <1>14, <2>2
    <3>2. r.channel = stream[x].channel \o h
      <4>1. stream[x].channel \in Seq(Int)
        BY <1>1, StreamFields
      <4> QED
        BY <1>6, <1>9, <3>1, <4>1, AppendIsConcat
    <3>3. PICK a \in Seq(Int) : a = Known(stream[x]) \o stream[x].replay
      BY <1>1, StreamFields, ConcatProperties
    <3>4. PICK c \in Seq(Int) : c = stream[x].channel
      BY <1>1, StreamFields
    <3>5. q = a \o c /\ Queue(r) = a \o (c \o h)
      BY <1>7, <1>14, <1>15, <3>2, <3>3, <3>4 DEF Queue
    <3>6. Queue(r) = q \o h
      BY <3>5, ConcatAssociative
    <3>7. Queue(r) \o r.listed = q \o (h \o tl)
      <4>1. (q \o h) \o tl = q \o (h \o tl)
        BY <1>6, <1>7, <1>9, ConcatAssociative
      <4> QED
        BY <1>14, <3>6, <4>1
    <3>8. Queue(r)[Len(Queue(r))] = n
      BY <1>9, <3>6, LastOfBoth
    <3>9. CursorFollows(r)
      BY <1>6, <1>14, <3>8 DEF CursorFollows
    <3> QED
      BY <1>10, <3>1, <3>7, <3>9
  <2> QED
    BY <2>1, <2>2
<1>18. StreamInv' /\ stream' \in [Streams -> StreamSet]
  BY <1>2, <1>12, <1>14, <1>16, <1>17, StreamMoves DEF StreamSound
<1> QED
  BY <1>2, <1>18, Halves

\* Concatenation of events associates.
LEMMA EventsAssociate ==
    ASSUME NEW a \in Seq(Int), NEW b \in Seq(Int), NEW c \in Seq(Int)
    PROVE  (a \o b) \o c = a \o (b \o c)
BY ConcatAssociative

\* The handler writes the event that is next.
LEMMA WriteKeeps ==
    ASSUME IInv, NEW x \in Streams, WriteSSEEvent(x)
    PROVE  IInv'
<1>0. stream[x].replay \o stream[x].channel # <<>> /\ UNCHANGED <<sessionVars, cache, op>>
  BY DEF WriteSSEEvent
<1>1. /\ SessionTypes /\ SessionInv /\ stream \in [Streams -> StreamSet]
      /\ stream[x] \in StreamSet /\ Attached(stream[x]) /\ CursorFollows(stream[x])
      /\ Sought(stream[x]) /\ Linked(Queue(stream[x]) \o stream[x].listed, stream[x].unsent)
  BY OneStream
<1>2. SessionTypes' /\ SessionInv'
  BY <1>0, <1>1, SessionsStay
<1>3. PICK a \in Seq(1..MaxEvents) : a = stream[x].replay
  BY <1>1 DEF StreamSet
<1>4. PICK c \in Seq(1..MaxEvents) : c = stream[x].channel
  BY <1>1 DEF StreamSet
<1>5. PICK w \in Seq(1..MaxEvents) : w = a \o c /\ w # <<>>
  BY <1>0, <1>3, <1>4, ConcatProperties
<1>6. a # <<>> \/ c # <<>>
  BY <1>5, ConcatEmptySeq
<1>7. /\ stream[x].replica # None /\ ~stream[x].opening /\ stream[x].session \in Sessions
  BY <1>1, <1>3, <1>4, <1>6 DEF Attached
<1>8. PICK n \in 1..MaxEvents : n = Head(w) /\ n = w[1]
  BY <1>5, HeadFirst
<1>9. PICK a2 \in Seq(1..MaxEvents) : a2 = IF a # <<>> THEN Tail(a) ELSE a
  BY <1>3, HeadFirst
<1>10. PICK c2 \in Seq(1..MaxEvents) : c2 = IF a # <<>> THEN c ELSE Tail(c)
  BY <1>4, <1>6, HeadFirst
<1>11. PICK u : u = stream[x].unsent /\ u \subseteq 1..MaxEvents
  BY <1>1 DEF StreamSet
<1>12. PICK h \in Seq(1..MaxEvents) : h = <<n>>
  <2>1. <<n>> \in Seq(1..MaxEvents)
    BY <1>8
  <2> QED
    BY <2>1
<1>13. w = (h \o a2) \o c2
  <2>1. CASE a # <<>>
    <3>1. a = <<Head(a)>> \o a2 /\ Head(a) \in 1..MaxEvents /\ c2 = c /\ Head(a) = a[1]
      BY <1>3, <1>9, <1>10, <2>1, HeadFirst
    <3>2. w[1] = a[1]
      <4>1. Len(a) \in Nat /\ Len(a) >= 1 /\ Len(c) \in Nat
        BY <1>3, <1>4, <2>1, LastElement, LenProperties
      <4>2. \A i \in 1..Len(a) + Len(c) : w[i] = IF i <= Len(a) THEN a[i] ELSE c[i - Len(a)]
        <5>1. \A i \in 1..Len(a) + Len(c) :
                (a \o c)[i] = IF i <= Len(a) THEN a[i] ELSE c[i - Len(a)]
          BY <1>3, <1>4, ConcatProperties
        <5> QED
          BY <1>5, <5>1
      <4> QED
        BY <4>1, <4>2
    <3> QED
      BY <1>5, <1>8, <1>12, <3>1, <3>2
  <2>2. CASE a = <<>>
    <3>1. w = c /\ a2 = <<>> /\ c2 = Tail(c)
      BY <1>4, <1>5, <1>9, <1>10, <2>2, ConcatEmptySeq
    <3>2. c = <<Head(c)>> \o Tail(c)
      BY <1>4, <1>5, <3>1, HeadFirst
    <3> QED
      BY <1>8, <1>12, <3>1, <3>2, ConcatEmptySeq
  <2> QED
    BY <2>1, <2>2
<1>14. PICK v : v = {m \in u : m > n}
  OBVIOUS
<1>15. PICK r : r = [stream[x] EXCEPT !.replay = a2, !.channel = c2, !.unsent = v, !.got = n]
  OBVIOUS
<1>16. stream' = [stream EXCEPT ![x] = r]
  <2>1. stream' = [stream EXCEPT
             ![x].replay = IF stream[x].replay # <<>> THEN Tail(@) ELSE @,
             ![x].channel = IF stream[x].replay # <<>> THEN @ ELSE Tail(@),
             ![x].unsent = {m \in @ : m > Head(stream[x].replay \o stream[x].channel)},
             ![x].got = Head(stream[x].replay \o stream[x].channel)]
    BY DEF WriteSSEEvent
  <2>2. Head(stream[x].replay \o stream[x].channel) = n
    BY <1>3, <1>4, <1>5, <1>8
  <2> QED
    BY <1>1, <1>3, <1>4, <1>9, <1>10, <1>11, <1>14, <1>15, <2>1, <2>2
<1>17. /\ r \in StreamSet /\ r.session = stream[x].session /\ r.replica = stream[x].replica
       /\ r.seek = stream[x].seek /\ r.opening = stream[x].opening
       /\ r.cursor = stream[x].cursor /\ r.got = n /\ r.replay = a2
       /\ r.listed = stream[x].listed /\ r.channel = c2 /\ r.unsent = v
  <2>1. n \in 0..MaxEvents /\ v \subseteq 1..MaxEvents
    BY <1>8, <1>11, <1>14, BoundsAssumption
  <2> QED
    BY <1>1, <1>15, <2>1 DEF StreamSet
<1>18. Queue(r) = w
  <2>1. Known(r) = h
    BY <1>8, <1>12, <1>17, BoundsAssumption DEF Known
  <2> QED
    BY <1>13, <1>17, <2>1 DEF Queue
<1>19. Attached(r) /\ Sought(r)
  BY <1>1, <1>7, <1>17 DEF Attached, Sought
<1>20. PICK k \in Seq(Int) : k = Known(stream[x])
  BY <1>1, StreamFields
<1>21. w \in Seq(Int) /\ a \in Seq(Int) /\ c \in Seq(Int) /\ stream[x].listed \in Seq(Int)
       /\ n \in Int
  <2>1. n \in Int /\ 1..MaxEvents \subseteq Int
    BY <1>8, BoundsAssumption
  <2> QED
    BY <1>1, <1>3, <1>4, <1>5, <2>1, SeqMonotonic, StreamFields
<1>22. Queue(stream[x]) = k \o w
  <2>1. Queue(stream[x]) = (k \o a) \o c
    BY <1>3, <1>4, <1>20 DEF Queue
  <2> QED
    <3>1. (k \o a) \o c = k \o (a \o c)
      BY <1>20, <1>21, EventsAssociate
    <3> QED
      BY <1>5, <2>1, <3>1
<1>23. PICK l \in Seq(Int) : l = stream[x].listed
  BY <1>21
<1>24. Linked(w \o l, u) /\ w \o l \in Seq(Int)
  <2>1. (k \o w) \o l = k \o (w \o l) /\ w \o l \in Seq(Int)
    <3>1. (k \o w) \o l = k \o (w \o l)
      BY <1>20, <1>21, <1>23, EventsAssociate
    <3>2. w \o l \in Seq(Int)
      BY <1>21, <1>23, ConcatProperties
    <3> QED
      BY <3>1, <3>2
  <2>2. Linked(k \o (w \o l), u)
    BY <1>1, <1>11, <1>22, <1>23, <2>1
  <2> QED
    BY <1>20, <2>1, <2>2, LinkConcat
<1>25. w \o l # <<>> /\ (w \o l)[1] = n
  <2>1. /\ Len(w \o l) = Len(w) + Len(l) /\ Len(l) \in Nat /\ Len(w) \in Nat /\ Len(w) >= 1
        /\ \A i \in 1..Len(w) + Len(l) : (w \o l)[i] = IF i <= Len(w) THEN w[i] ELSE l[i - Len(w)]
    <3>1. /\ Len(w \o l) = Len(w) + Len(l)
          /\ \A i \in 1..Len(w) + Len(l) :
               (w \o l)[i] = IF i <= Len(w) THEN w[i] ELSE l[i - Len(w)]
      BY <1>21, <1>23, ConcatProperties
    <3>2. Len(w) \in Nat /\ Len(w) >= 1
      BY <1>5, LastElement
    <3>3. Len(l) \in Nat
      BY <1>23, LenProperties
    <3> QED
      BY <3>1, <3>2, <3>3
  <2>2. Len(w \o l) # 0 /\ (w \o l)[1] = w[1]
    BY <2>1
  <2> QED
    BY <1>8, <2>2
<1>26. Linked(Queue(r) \o r.listed, r.unsent)
  <2>1. Linked(w \o l, {m \in u : m > (w \o l)[1]})
    BY <1>24, <1>25, LinkLater
  <2> QED
    BY <1>14, <1>17, <1>18, <1>23, <1>25, <2>1
<1>27. CursorFollows(r)
  <2> SUFFICES ASSUME stream[x].listed = <<>>
               PROVE  w[Len(w)] <= stream[x].cursor
                      /\ w[Len(w)] + 1..stream[x].cursor \subseteq v
    BY <1>17, <1>18 DEF CursorFollows
  <2>1. k \o w # <<>> /\ (k \o w)[Len(k \o w)] = w[Len(w)]
    BY <1>5, <1>20, <1>21, LastOfBoth
  <2>2. w[Len(w)] <= stream[x].cursor /\ w[Len(w)] + 1..stream[x].cursor \subseteq u
    BY <1>1, <1>7, <1>11, <1>22, <2>1 DEF CursorFollows
  <2>3. Linked(w, u)
    BY <1>21, <1>23, <1>24, LinkConcat
  <2>4. Len(w) \in 1..Len(w) /\ w[Len(w)] \in Int
    BY <1>5, <1>21, LastElement
  <2>5. n <= w[Len(w)]
    BY <1>8, <1>21, <2>3, <2>4, LinkedAscends
  <2>6. w[Len(w)] + 1..stream[x].cursor \subseteq v
    <3>1. PICK z \in Int : z = w[Len(w)]
      BY <2>4
    <3>2. \A m \in z + 1..stream[x].cursor : m > n
      <4>1. n <= z /\ n \in Int /\ stream[x].cursor \in Int
        BY <1>1, <1>21, <2>5, <3>1, StreamFields
      <4> QED
        BY <4>1
    <3> QED
      BY <1>14, <2>2, <3>1, <3>2
  <2> QED
    BY <2>2, <2>6
<1>28. StreamInv' /\ stream' \in [Streams -> StreamSet]
  BY <1>2, <1>16, <1>17, <1>19, <1>26, <1>27, StreamMoves DEF StreamSound
<1> QED
  BY <1>2, <1>28, Halves

\* The client of one stream goes away.
LEMMA DisconnectKeeps ==
    ASSUME IInv, NEW x \in Streams, Disconnect(x)
    PROVE  IInv'
<1>0. stream' = [stream EXCEPT ![x] = Cut(x)] /\ UNCHANGED <<sessionVars, cache, op>>
  BY DEF Disconnect
<1>1. SessionTypes /\ SessionInv
  BY OneStream
<1>2. SessionTypes' /\ SessionInv'
  BY <1>0, <1>1, SessionsStay
<1>3. PICK r \in StreamSet : r = Cut(x) /\ StreamSound(r)
  BY CutSound
<1>4. StreamInv' /\ stream' \in [Streams -> StreamSet]
  BY <1>0, <1>2, <1>3, StreamMoves
<1> QED
  BY <1>2, <1>4, Halves

\* The streams of a process are cut.
LEMMA StreamsCut ==
    ASSUME IInv, NEW p \in Replicas, OperationFails(p) \/ Restart(p)
    PROVE  StreamInv' /\ stream' \in [Streams -> StreamSet]
<1>1. /\ stream \in [Streams -> StreamSet] /\ \A y \in Streams : StreamSound(stream[y])
  BY TypeHalves DEF IInv, StreamInv
<1>2. \A y \in Streams : Cut(y) \in StreamSet /\ StreamSound(Cut(y))
  BY CutSound
<1>3. PICK D : stream' = [y \in Streams |-> IF y \in D THEN Cut(y) ELSE stream[y]]
  <2>1. CASE OperationFails(p)
    <3>1. PICK D : D = {y \in Streams : stream[y].replica = p /\ stream[y].opening}
      OBVIOUS
    <3>2. stream' = [y \in Streams |-> IF y \in D THEN Cut(y) ELSE stream[y]]
      BY <2>1, <3>1 DEF OperationFails
    <3> QED
      BY <3>2
  <2>2. CASE Restart(p)
    <3>1. PICK D : D = {y \in Streams : stream[y].replica = p}
      OBVIOUS
    <3>2. stream' = [y \in Streams |-> IF y \in D THEN Cut(y) ELSE stream[y]]
      BY <2>2, <3>1 DEF Restart
    <3> QED
      BY <3>2
  <2> QED
    BY <2>1, <2>2
<1>4. PICK f : f = [y \in Streams |-> IF y \in D THEN Cut(y) ELSE stream[y]]
  OBVIOUS
<1>5. f \in [Streams -> StreamSet] /\ \A y \in Streams : f[y] = Cut(y) \/ f[y] = stream[y]
  BY <1>1, <1>2, <1>4
<1>6. \A y \in Streams : StreamSound(f[y])
  <2> SUFFICES ASSUME NEW y \in Streams PROVE StreamSound(f[y])
    OBVIOUS
  <2>1. CASE f[y] = Cut(y)
    BY <1>2, <2>1
  <2>2. CASE f[y] = stream[y]
    BY <1>1, <2>2
  <2> QED
    BY <1>5, <2>1, <2>2
<1> QED
  BY <1>3, <1>4, <1>5, <1>6, StreamsMove

-----------------------------------------------------------------------------
(* The theorems.                                                           *)

\* At first no process is in an operation and no stream is open.
LEMMA McpInit == Init => IInv
<1> SUFFICES ASSUME Init PROVE IInv
  OBVIOUS
<1>1. /\ row = [s \in Sessions |-> "absent"] /\ recent = {} /\ last = [s \in Sessions |-> 0]
      /\ floor = [s \in Sessions |-> 0] /\ sweep = NoSweep
      /\ cache = [p \in Replicas |-> {}] /\ op = [p \in Replicas |-> Free]
      /\ stream = [x \in Streams |-> NoStream]
  BY DEF Init
<1>2. SessionTypes
  <2>1. NoSweep \in SweepSet
    BY BoundsAssumption DEF NoSweep, SweepSet
  <2> QED
    BY <1>1, <2>1, FreeFacts, BoundsAssumption DEF SessionTypes
<1>3. \A p \in Replicas : op[p].kind = "free"
  BY <1>1, FreeFacts
<1>4. \A p \in Replicas : OpSound(p)
  BY <1>3 DEF OpSound, Creating
<1>5. Active = {} /\ Claimed(Creating) = {} /\ Claimed({"create"}) = {}
  BY <1>1, <1>3 DEF Active, Claimed, Creating, Revives
<1>6. HeldBounded
  <2>1. IsFiniteSet({}) /\ Cardinality({}) = 0
    BY FS_EmptySet
  <2>2. Held = {} /\ \A u \in Subjects : HeldOf(u) = {}
    BY <1>5 DEF Held, HeldOf
  <2>3. 0 <= Total + Cardinality(Replicas) - 1 /\ 0 <= PerSubject + Cardinality(Replicas) - 1
    <3>1. Total \in Nat \ {0} /\ PerSubject \in Nat \ {0} /\ Cardinality(Replicas) \in Nat
      BY BoundsAssumption, ClaimedFew
    <3> QED
      BY <3>1
  <2> QED
    BY <1>1, <2>1, <2>2, <2>3 DEF HeldBounded
<1>7. /\ NoStream \in StreamSet /\ NoStream.replay = <<>> /\ NoStream.listed = <<>>
      /\ NoStream.channel = <<>> /\ NoStream.unsent = {} /\ NoStream.replica = None
      /\ NoStream.opening = FALSE /\ NoStream.seek = NoSeek
  <2>1. NoSeek \in [after : 0..MaxEvents + 1, oldest : 0..MaxEvents + 1]
    BY BoundsAssumption DEF NoSeek
  <2>2. <<>> \in Seq(1..MaxEvents) /\ 0 \in 0..MaxEvents
    BY BoundsAssumption
  <2> QED
    BY <2>1, <2>2 DEF NoStream, StreamSet
<1>8. StreamSound(NoStream)
  <2>1. Sought(NoStream)
    BY <1>7 DEF Sought
  <2> QED
    BY <1>7, <2>1, EmptySound
<1>9. StreamInv /\ stream \in [Streams -> StreamSet]
  BY <1>1, <1>7, <1>8 DEF StreamInv
<1> QED
  BY <1>2, <1>4, <1>6, <1>9, TypeHalves DEF IInv, SessionInv

\* A step of a process.
LEMMA OperationKeeps ==
    ASSUME IInv, NEW p \in Replicas, Operation(p)
    PROVE  IInv'
<1>1. SessionTypes /\ SessionInv
  BY TypeHalves DEF IInv
<1>2. ASSUME UNCHANGED stream, SessionTypes', SessionInv'
      PROVE  IInv'
  BY <1>2, StreamsStay, Halves
<1>3. ASSUME NEW s \in Sessions, NEW idle \in SUBSET cache[p], BeginCreate(p, s, idle)
      PROVE  IInv'
  <2>1. UNCHANGED stream
    BY <1>3 DEF BeginCreate, sessionVars
  <2> QED
    BY <1>1, <1>2, <1>3, <2>1, BeginCreateKeeps
<1>4. ASSUME NEW s \in Sessions,
             \/ \E idle \in SUBSET cache[p] : BeginTouch(p, s, idle)
             \/ BeginTerminate(p, s)
             \/ BeginAppend(p, s)
      PROVE  IInv'
  <2>1. UNCHANGED stream
    BY <1>4 DEF BeginTouch, BeginTerminate, BeginAppend, sessionVars
  <2> QED
    BY <1>1, <1>2, <1>4, <2>1, BeginKeeps
<1>5. CASE CountForSubject(p)
  <2>1. UNCHANGED stream
    BY <1>5 DEF CountForSubject, sessionVars
  <2> QED
    BY <1>1, <1>2, <1>5, <2>1, CountKeeps
<1>6. CASE CreateMCPSession(p)
  <2>1. UNCHANGED stream
    BY <1>6 DEF CreateMCPSession
  <2> QED
    BY <1>1, <1>2, <1>6, <2>1, CreateKeeps
<1>7. CASE TouchMCPSession(p) \/ AppendTouches(p)
  <2>1. UNCHANGED stream
    BY <1>7 DEF TouchMCPSession, AppendTouches
  <2> QED
    BY <1>1, <1>2, <1>7, <2>1, TouchKeeps
<1>8. CASE CloseMCPSession(p) \/ AppendMCPEvent(p)
  <2>1. UNCHANGED stream
    BY <1>8 DEF CloseMCPSession, AppendMCPEvent
  <2> QED
    BY <1>1, <1>2, <1>8, <2>1, OthersKeep
<1>9. CASE OperationFails(p) \/ Restart(p)
  <2>1. SessionTypes' /\ SessionInv'
    BY <1>1, <1>9, OthersKeep
  <2> QED
    BY <1>9, <2>1, StreamsCut, Halves
<1> QED
  BY <1>3, <1>4, <1>5, <1>6, <1>7, <1>8, <1>9 DEF Operation

\* Every step keeps the sessions and the streams sound.
LEMMA McpStep == IInv /\ [Next]_vars => IInv'
<1> SUFFICES ASSUME IInv, [Next]_vars PROVE IInv'
  OBVIOUS
<1>1. SessionTypes /\ SessionInv
  BY TypeHalves DEF IInv
<1>2. CASE \E p \in Replicas : Operation(p)
  BY <1>2, OperationKeeps
<1>3. ASSUME NEW x \in Streams, Streaming(x) PROVE IInv'
  <2>1. CASE \E p \in Replicas, s \in Sessions : BeginReplay(x, p, s)
    BY <2>1, BeginReplayKeeps
  <2>2. CASE ReplayAndSubscribe(x)
    BY <2>2, ReplayKeeps
  <2>3. CASE PollSeeks(x)
    BY <2>3, PollSeeksKeeps
  <2>4. CASE PollLists(x)
    BY <2>4, PollListsKeeps
  <2>5. CASE PollSends(x)
    BY <2>5, PollSendsKeeps
  <2>6. CASE WriteSSEEvent(x)
    BY <2>6, WriteKeeps
  <2>7. CASE Disconnect(x)
    BY <2>7, DisconnectKeeps
  <2> QED
    BY <1>3, <2>1, <2>2, <2>3, <2>4, <2>5, <2>6, <2>7 DEF Streaming
<1>4. CASE TimePasses
  <2>1. UNCHANGED stream
    BY <1>4 DEF TimePasses, RowGoesIdle, DeleteExpiredEvents, DeleteExpiredMCPSessions,
                SweepFails
  <2> QED
    BY <1>1, <1>4, <2>1, TimeKeeps, StreamsStay, Halves
<1>5. CASE UNCHANGED vars
  <2>1. UNCHANGED <<sessionVars, cache, op>> /\ UNCHANGED stream
    BY <1>5 DEF vars
  <2>2. SessionTypes' /\ SessionInv'
    BY <1>1, <2>1, SessionsStay
  <2> QED
    BY <2>1, <2>2, StreamsStay, Halves
<1> QED
  BY <1>2, <1>3, <1>4, <1>5 DEF Next, TimePasses

\* The inductive invariant: operations name the sessions they may yet make
\* active and those are within the bounds too; a stream's cursor, listing and
\* queue fit together.
THEOREM SessionsAndStreamsSound == Spec => []IInv
<1>1. Init => IInv
  BY McpInit
<1>2. IInv /\ [Next]_vars => IInv'
  BY McpStep
<1> QED
  BY <1>1, <1>2, PTL DEF Spec

\* The shape of the state; a process remembers only rows that were created.
THEOREM TypeCorrect == Spec => []TypeOK
<1>1. IInv => TypeOK
  BY DEF IInv
<1> QED
  BY <1>1, SessionsAndStreamsSound, PTL

\* However many replicas count before any of them inserts, and whatever touches
\* revive, a cap is passed by at most one session for each other replica.
THEOREM CapsHold == Spec => []SessionsBounded
<1>1. IInv => SessionsBounded
  <2> SUFFICES ASSUME IInv PROVE SessionsBounded
    OBVIOUS
  <2>1. HeldBounded
    BY DEF IInv, SessionInv
  <2>2. IsFiniteSet(Held) /\ \A u : IsFiniteSet(HeldOf(u))
    BY <2>1, HeldFinite DEF HeldBounded
  <2>3. Active \subseteq Held /\ \A u : ActiveOf(u) \subseteq HeldOf(u)
    BY DEF Held, HeldOf, ActiveOf
  <2>4. Cardinality(Active) <= Total + Cardinality(Replicas) - 1
    BY <2>1, <2>2, <2>3, CapsAreNumbers, LessHeld DEF HeldBounded
  <2>5. ASSUME NEW u \in Subjects
        PROVE  Cardinality(ActiveOf(u)) <= PerSubject + Cardinality(Replicas) - 1
    BY <2>1, <2>2, <2>3, CapsAreNumbers, LessHeld DEF HeldBounded
  <2> QED
    BY <2>4, <2>5 DEF SessionsBounded
<1> QED
  BY <1>1, SessionsAndStreamsSound, PTL

\* What a client gets is in order; between two events it gets, over whichever
\* connections and replicas, lie only ids that a full channel dropped or that
\* were deleted between the two queries of a listing.  (A client whose own id
\* was deleted may get nothing more: ResumePicksUpLaterEvents does not hold.)
THEOREM GapsAreAccounted == Spec => []NoSilentGap
<1>1. IInv => NoSilentGap
  <2> SUFFICES ASSUME IInv, NEW x \in Streams, NEW q \in Seq(Int), q = Queue(stream[x]),
                      NEW i \in 1..Len(q) - 1
               PROVE  q[i] < q[i + 1] /\ q[i] + 1..q[i + 1] - 1 \subseteq stream[x].unsent
    <3>1. \A x \in Streams : IInv => Queue(stream[x]) \in Seq(Int)
      BY OneStream, StreamFields
    <3> QED
      BY <3>1 DEF NoSilentGap, Queue, Known
  <2>1. /\ stream[x] \in StreamSet
        /\ Linked(Queue(stream[x]) \o stream[x].listed, stream[x].unsent)
    BY OneStream
  <2>2. stream[x].listed \in Seq(Int)
    BY <2>1, StreamFields
  <2>3. Linked(q, stream[x].unsent)
    BY <2>1, <2>2, LinkConcat
  <2> QED
    BY <2>3 DEF Linked, Joined
<1> QED
  BY <1>1, SessionsAndStreamsSound, PTL
=============================================================================
