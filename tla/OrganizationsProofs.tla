------------------------ MODULE OrganizationsProofs ------------------------
(* Proofs that an organization loses its owners only the way it may.       *)
EXTENDS Organizations, TLAPS

-----------------------------------------------------------------------------
(* Requests in flight.                                                     *)

RosterOps == {"deactivate", "update"}

\* What a request asks for is fit for its operation: a role list is never
\* empty, a member is named, and only ownership is decided in several steps.
Sound(r) ==
    \/ r = Idle
    \/ /\ r.op \in {"provision", "deactivate", "update", "team", "mint", "revoke"}
       /\ r.op \in {"provision", "update"} => r.roles # {}
       /\ r.op \notin {"mint", "revoke"} => r.to \in Users
       /\ r.op \in RosterOps => r.by # None /\ r.step # "none"
       /\ r.op \notin RosterOps => r.step = "write"

\* Before the organization exists there is nobody to ask for anything.
Unfounded ==
    (\A u \in Users : status[u] = "absent") =>
      /\ \A q \in Requests : req[q] = Idle
      /\ \A k \in Tokens : token[k] = "absent"

\* What a decision has found out still holds when it is used, unless the roster
\* changed since or its read of the target missed an owner.
Grants(r) == r.op = "update" /\ "owner" \in r.roles
Decided(r) ==
    r.op \in RosterOps /\ ~r.stale /\ ~r.missed =>
      /\ r.step # "target" => r.owned = (r.to \in Owners)
      /\ r.step = "last" => r.by \in Owners /\ ~Grants(r)
      /\ r.step = "write" =>
           /\ r.owned => r.by \in Owners
           /\ r.owned /\ ~Grants(r) => Owners \ {r.to} # {}

Deciding ==
    /\ \A q \in Requests : Sound(req[q]) /\ Decided(req[q])
    /\ Unfounded

IInv == TypeOK /\ Deciding

RequestSet ==
    [op : {"idle", "provision", "deactivate", "update", "team", "mint", "revoke"},
     by : Users \cup Tokens \cup {None}, to : Users \cup {None},
     roles : SUBSET Roles, owned : BOOLEAN,
     step : {"none", "target", "tier", "last", "write"},
     stale : BOOLEAN, missed : BOOLEAN]

\* No request is in flight and nobody is a member at first.
LEMMA DecidingInit == Init => IInv
<1> SUFFICES ASSUME Init PROVE IInv
  OBVIOUS
<1>1. \A q \in Requests : req[q] = Idle
  BY DEF Init
<1>2. Idle \in RequestSet
  BY DEF Idle, RequestSet
<1>5. req \in [Requests -> RequestSet]
  BY <1>2 DEF Init
<1>3. TypeOK
  BY <1>5 DEF Init, TypeOK, RequestSet
<1>4. Deciding
  BY <1>1 DEF Init, Deciding, Sound, Decided, Unfounded, RosterOps, Idle
<1> QED
  BY <1>3, <1>4 DEF IInv

\* Once the organization has a member it has one for good.
LEMMA StaysFounded ==
    ASSUME NEW u \in Users, status[u] # "absent",
           \A x \in Users : status[x] # "absent" => status'[x] # "absent"
    PROVE  Unfounded'
BY DEF Unfounded

\* A request in flight, or a credential, is a sign of a member.
LEMMA InFlightFounded ==
    ASSUME IInv, \/ \E q \in Requests : req[q] # Idle
                 \/ \E k \in Tokens : token[k] # "absent"
    PROVE  \E u \in Users : status[u] # "absent"
BY DEF IInv, Deciding, Unfounded

\* While the roster stands, so do its owners.
LEMMA RosterStands ==
    ASSUME UNCHANGED rosterVars
    PROVE  Owners' = Owners
BY DEF rosterVars, Owners, FindMemberRoles

\* A request that moves on, or ends, on a roster that stands.
LEMMA MovesOn ==
    ASSUME IInv, UNCHANGED <<rosterVars, granted, team, token>>,
           NEW q \in Requests, NEW r \in RequestSet,
           req' = [req EXCEPT ![q] = r], Sound(r), Decided(r),
           \E u \in Users : status[u] # "absent"
    PROVE  IInv'
<1>1. TypeOK'
  BY DEF IInv, TypeOK, RequestSet, rosterVars
<1>2. Unfounded'
  BY StaysFounded DEF rosterVars
<1>3. \A x \in Requests : req'[x] = IF x = q THEN r ELSE req[x]
  BY DEF IInv, TypeOK
<1>4. \A x \in Requests : Sound(req'[x]) /\ Decided(req'[x])
  BY <1>3 DEF IInv, Deciding
<1>5. \A x \in Requests : Decided(req[x])'
  BY <1>4, RosterStands DEF Decided, Grants
<1>6. \A x \in Requests : Sound(req[x])'
  BY <1>4 DEF Sound
<1> QED
  BY <1>1, <1>2, <1>5, <1>6 DEF IInv, Deciding

\* Passing the first check puts a sound request in flight.
LEMMA RequirePermissionKeeps ==
    ASSUME IInv, NEW q \in Requests, NEW op, NEW by \in Users \cup Tokens,
           NEW to \in Users \cup {None}, NEW list \in SUBSET Roles,
           RequirePermission(q, op, by, to, list),
           op \in {"provision", "deactivate", "update", "team", "mint", "revoke"},
           op \in {"provision", "update"} => list # {},
           op \notin {"mint", "revoke"} => to \in Users
    PROVE  IInv'
<1> DEFINE r == [op |-> op, by |-> IF FirstStep(op) = "target" THEN by ELSE None,
                 to |-> to, roles |-> list, owned |-> FALSE,
                 step |-> FirstStep(op), stale |-> FALSE, missed |-> FALSE]
<1>1. r \in RequestSet
  BY DEF RequestSet, FirstStep
<1>2. Sound(r)
  BY UsersAssumption DEF Sound, FirstStep, RosterOps
<1>3. Decided(r)
  BY DEF Decided, FirstStep, RosterOps
<1>4. \E u \in Users : status[u] # "absent"
  <2>1. CASE by \in Managers
    <3>1. FindMemberRoles(by) # {} /\ by \in Users
      BY <2>1 DEF Managers
    <3> QED
      BY <3>1 DEF FindMemberRoles
  <2>2. CASE by \in Tokens /\ token[by] = "active"
    BY <2>2, InFlightFounded
  <2> QED
    BY <2>1, <2>2 DEF RequirePermission, Permitted
<1>5. req' = [req EXCEPT ![q] = r] /\ UNCHANGED <<rosterVars, granted, team, token>>
  BY DEF RequirePermission
<1> HIDE DEF r
<1> QED
  BY <1>1, <1>2, <1>3, <1>4, <1>5, MovesOn

\* Reading the target records whether it is an owner, or that it missed one.
LEMMA ReadTargetKeeps ==
    ASSUME IInv, NEW q \in Requests, NEW failed \in BOOLEAN, ReadTarget(q, failed)
    PROVE  IInv'
<1> DEFINE owner == "owner" \in FindMemberRoles(req[q].to)
           owned == owner /\ ~failed
           missed == owner /\ failed
           r == [req[q] EXCEPT !.owned = owned, !.missed = missed,
                   !.step = IF owned \/ GrantsOwner(q) THEN "tier" ELSE "write"]
<1>0. req[q] \in RequestSet /\ Sound(req[q]) /\ req[q].step = "target" /\ req[q] # Idle
  BY DEF IInv, TypeOK, RequestSet, Deciding, ReadTarget, Idle
<1>1. req[q].op \in RosterOps /\ req[q].to \in Users
  BY <1>0 DEF Sound, RosterOps
<1>2. owner = (req[q].to \in Owners) /\ owned \in BOOLEAN /\ missed \in BOOLEAN
  BY <1>1 DEF Owners
<1>3. \E u \in Users : status[u] # "absent"
  BY <1>0, InFlightFounded
<1>4. /\ req' = [req EXCEPT ![q] = r] /\ UNCHANGED <<rosterVars, granted, team, token>>
  BY DEF ReadTarget, IInv, TypeOK, RequestSet
<1>8. ~missed => owned = (req[q].to \in Owners)
  BY <1>2
<1> HIDE DEF owned, missed
<1>5. /\ r.op = req[q].op /\ r.by = req[q].by /\ r.to = req[q].to
      /\ r.roles = req[q].roles /\ r.owned = owned /\ r.stale = req[q].stale
      /\ r.missed = missed
      /\ r.step = IF owned \/ GrantsOwner(q) THEN "tier" ELSE "write"
      /\ r \in RequestSet
  BY <1>0, <1>2 DEF RequestSet
<1> HIDE DEF r
<1>6. Sound(r)
  BY <1>0, <1>1, <1>5 DEF Sound, RosterOps
<1>7. Decided(r)
  BY <1>1, <1>2, <1>5, <1>8 DEF Decided, GrantsOwner, Grants
<1> QED
  BY <1>3, <1>4, <1>5, <1>6, <1>7, MovesOn

\* A check that passes or refuses, on what the roster says now.
LEMMA CheckedKeeps ==
    ASSUME IInv, NEW q \in Requests, NEW passed \in BOOLEAN, NEW step,
           Checked(q, passed, step), step \in {"last", "write"},
           req[q].op \in RosterOps, req[q] # Idle,
           passed => Decided([req[q] EXCEPT !.step = step])
    PROVE  IInv'
<1> DEFINE next == [req[q] EXCEPT !.step = step]
           r == IF passed THEN next ELSE Idle
<1>0. req[q] \in RequestSet /\ Sound(req[q])
  BY DEF IInv, TypeOK, RequestSet, Deciding
<1>1. /\ next.op = req[q].op /\ next.by = req[q].by /\ next.to = req[q].to
      /\ next.roles = req[q].roles /\ next.step = step
      /\ next \in RequestSet
  BY <1>0 DEF RequestSet
<1>2. Sound(next)
  <2> HIDE DEF next
  <2> QED
    BY <1>0, <1>1 DEF Sound, RosterOps
<1>3. Idle \in RequestSet /\ Sound(Idle) /\ Decided(Idle)
  BY DEF Idle, RequestSet, Sound, Decided, RosterOps
<1>4. \E u \in Users : status[u] # "absent"
  BY InFlightFounded
<1>5. req' = [req EXCEPT ![q] = r] /\ UNCHANGED <<rosterVars, granted, team, token>>
  BY DEF Checked, IInv, TypeOK, RequestSet
<1> HIDE DEF next
<1>6. r \in RequestSet /\ Sound(r) /\ Decided(r)
  BY <1>1, <1>2, <1>3 DEF next
<1> HIDE DEF r
<1> QED
  BY <1>4, <1>5, <1>6, MovesOn

\* The owner tier passes owners only.
LEMMA OwnerTierKeeps ==
    ASSUME IInv, NEW q \in Requests, NEW failed \in BOOLEAN,
           RequireOwnerTierActor(q, failed)
    PROVE  IInv'
<1> DEFINE step == IF req[q].owned /\ ~GrantsOwner(q) THEN "last" ELSE "write"
           next == [req[q] EXCEPT !.step = step]
<1>0. req[q] \in RequestSet /\ Sound(req[q]) /\ Decided(req[q]) /\ req[q].step = "tier"
  BY DEF IInv, TypeOK, RequestSet, Deciding, RequireOwnerTierActor
<1>1. req[q] # Idle /\ req[q].op \in RosterOps
  BY <1>0 DEF Sound, Idle
<1>2. /\ next.op = req[q].op /\ next.by = req[q].by /\ next.to = req[q].to
      /\ next.roles = req[q].roles /\ next.owned = req[q].owned
      /\ next.stale = req[q].stale /\ next.missed = req[q].missed
      /\ next.step = step
  BY <1>0 DEF RequestSet
<1>3. ASSUME OwnerTier(q)
      PROVE  Decided(next)
  <2> HIDE DEF next
  <2> QED
    BY <1>0, <1>1, <1>2, <1>3 DEF Decided, OwnerTier, GrantsOwner, Grants
<1>4. /\ Checked(q, ~failed /\ OwnerTier(q), step)
      /\ (~failed /\ OwnerTier(q)) \in BOOLEAN
  BY DEF RequireOwnerTierActor, OwnerTier
<1>5. step \in {"last", "write"}
  OBVIOUS
<1> HIDE DEF step
<1> QED
  BY <1>1, <1>3, <1>4, <1>5, CheckedKeeps

\* The count of owners passes only if another one is left.
LEMMA LastOwnerKeeps ==
    ASSUME IInv, NEW q \in Requests, NEW failed \in BOOLEAN,
           RequireNotLastActiveOwner(q, failed)
    PROVE  IInv'
<1> DEFINE next == [req[q] EXCEPT !.step = "write"]
<1>0. req[q] \in RequestSet /\ Sound(req[q]) /\ Decided(req[q]) /\ req[q].step = "last"
  BY DEF IInv, TypeOK, RequestSet, Deciding, RequireNotLastActiveOwner
<1>1. req[q] # Idle /\ req[q].op \in RosterOps
  BY <1>0 DEF Sound, Idle
<1>2. /\ next.op = req[q].op /\ next.by = req[q].by /\ next.to = req[q].to
      /\ next.roles = req[q].roles /\ next.owned = req[q].owned
      /\ next.stale = req[q].stale /\ next.missed = req[q].missed
      /\ next.step = "write"
  BY <1>0 DEF RequestSet
<1>3. ASSUME OtherOwner(q)
      PROVE  Decided(next)
  <2> HIDE DEF next
  <2> QED
    BY <1>0, <1>1, <1>2, <1>3 DEF Decided, OtherOwner, Grants
<1>4. /\ Checked(q, ~failed /\ OtherOwner(q), "write")
      /\ (~failed /\ OtherOwner(q)) \in BOOLEAN
  BY DEF RequireNotLastActiveOwner, OtherOwner
<1> QED
  BY <1>1, <1>3, <1>4, CheckedKeeps

\* A commit ends its request, and marks the others stale if it changed the
\* roster: none of them is left relying on what is no longer so.
LEMMA CommittedKeeps ==
    ASSUME IInv, NEW q \in Requests, NEW changed \in BOOLEAN, Committed(q, changed),
           ~changed => UNCHANGED rosterVars
    PROVE  /\ req' \in [Requests -> RequestSet] /\ req'[q] = Idle
           /\ \A x \in Requests : Sound(req[x])' /\ Decided(req[x])'
<1>0. \A x \in Requests : req[x] \in RequestSet /\ Sound(req[x]) /\ Decided(req[x])
  BY DEF IInv, TypeOK, RequestSet, Deciding
<1>1. Idle \in RequestSet /\ Idle.op = "idle"
  BY DEF Idle, RequestSet
<1>2. req'[q] = Idle
  BY DEF Committed
<1>3. ASSUME NEW x \in Requests
      PROVE  req'[x] \in RequestSet /\ Sound(req[x])' /\ Decided(req[x])'
  <2>1. CASE req'[x] = Idle
    BY <1>1, <2>1 DEF Sound, Decided, RosterOps
  <2>2. CASE x # q /\ req[x] # Idle /\ changed /\ FirstStep(req[x].op) = "target"
    <3>1. req'[x] = [req[x] EXCEPT !.stale = TRUE]
      BY <2>2 DEF Committed
    <3>2. /\ req'[x].op = req[x].op /\ req'[x].by = req[x].by /\ req'[x].to = req[x].to
          /\ req'[x].roles = req[x].roles /\ req'[x].step = req[x].step
          /\ req'[x].stale = TRUE /\ req'[x] \in RequestSet
      BY <1>0, <3>1 DEF RequestSet
    <3>3. Sound(req[x])'
      BY <1>0, <2>2, <3>2 DEF Sound
    <3> QED
      BY <3>2, <3>3 DEF Decided
  <2>3. CASE x # q /\ req[x] # Idle /\ ~changed
    <3>1. req'[x] = req[x] /\ Owners' = Owners
      BY <2>3, RosterStands DEF Committed
    <3> QED
      BY <1>0, <3>1 DEF Sound, Decided, Grants
  <2>5. CASE x # q /\ req[x] # Idle /\ FirstStep(req[x].op) # "target"
    <3>1. req'[x] = req[x] /\ req[x].op \notin RosterOps
      BY <2>5 DEF Committed, FirstStep, RosterOps
    <3> QED
      BY <1>0, <3>1 DEF Sound, Decided
  <2>4. x = q \/ req[x] = Idle => req'[x] = Idle
    <3>1. FirstStep(Idle.op) # "target"
      BY <1>1 DEF FirstStep
    <3> QED
      BY <1>2, <3>1 DEF Committed
  <2> QED
    BY <2>1, <2>2, <2>3, <2>4, <2>5
<1>4. req' \in [Requests -> RequestSet]
  BY <1>3 DEF Committed
<1> QED
  BY <1>2, <1>3, <1>4

\* The roster a write leaves is well formed.
LEMMA WriteKeeps ==
    ASSUME IInv, NEW q \in Requests, NEW changed \in BOOLEAN, Committed(q, changed),
           ~changed => UNCHANGED rosterVars, req[q] # Idle,
           status' \in [Users -> {"absent", "active", "deactivated"}],
           roles' \in [Users -> SUBSET Roles],
           \A u \in Users : roles'[u] = {} <=> status'[u] = "absent",
           \A u \in Users : status[u] # "absent" => status'[u] # "absent",
           team' \in SUBSET Users,
           token' \in [Tokens -> {"absent", "active", "revoked", "expired"}],
           UNCHANGED granted
    PROVE  IInv'
<1>1. /\ req' \in [Requests -> RequestSet]
      /\ \A x \in Requests : Sound(req[x])' /\ Decided(req[x])'
  BY CommittedKeeps
<1>2. Unfounded'
  BY InFlightFounded, StaysFounded
<1>3. TypeOK'
  BY <1>1 DEF IInv, TypeOK, RequestSet
<1> QED
  BY <1>1, <1>2, <1>3 DEF IInv, Deciding

\* Every step keeps what the decisions rest on.
LEMMA DecidingStep == IInv /\ [Next]_vars => IInv'
<1> SUFFICES ASSUME IInv, [Next]_vars PROVE IInv'
  OBVIOUS
<1>0. /\ TypeOK /\ \A q \in Requests : req[q] \in RequestSet /\ Sound(req[q])
  BY DEF IInv, TypeOK, RequestSet, Deciding
<1>1. ASSUME NEW u \in Users, CreateOrganization(u)
      PROVE  IInv'
  <2>1. \A q \in Requests : req[q] = Idle
    BY <1>1 DEF CreateOrganization, IInv, Deciding, Unfounded
  <2>2. TypeOK'
    <3>1. "owner" \in Roles
      BY RolesAssumption
    <3> QED
      BY <1>0, <1>1, <3>1 DEF CreateOrganization, TypeOK
  <2>3. Unfounded'
    BY <1>0, <1>1 DEF CreateOrganization, Unfounded, TypeOK
  <2>4. \A q \in Requests : req'[q] = Idle
    BY <1>1, <2>1 DEF CreateOrganization
  <2>5. \A q \in Requests : Sound(req[q])' /\ Decided(req[q])'
    <3>1. Idle.op = "idle"
      BY DEF Idle
    <3> QED
      BY <2>4, <3>1 DEF Sound, Decided, RosterOps
  <2> QED
    BY <2>2, <2>3, <2>5 DEF IInv, Deciding
<1>2. ASSUME NEW q \in Requests, RequestStep(q)
      PROVE  IInv'
  <2>0. \A op \in {"provision", "deactivate", "update", "team", "mint", "revoke"} :
          Writes(q, op) => req[q] # Idle /\ req[q].op = op
    BY DEF Writes, Idle
  <2>1. ASSUME NEW by \in Users \cup Tokens, NEW to \in Users,
               NEW op \in {"deactivate", "team"},
               RequirePermission(q, op, by, to, {})
        PROVE  IInv'
    BY <2>1, RequirePermissionKeeps
  <2>2. ASSUME NEW by \in Users \cup Tokens, NEW to \in Users,
               NEW op \in {"provision", "update"}, NEW list \in RoleLists,
               RequirePermission(q, op, by, to, list)
        PROVE  IInv'
    <3>1. list \in SUBSET Roles /\ list # {}
      BY RolesAssumption
    <3> QED
      BY <2>2, <3>1, RequirePermissionKeeps
  <2>3. ASSUME NEW by \in Users, NEW op \in {"mint", "revoke"},
               RequirePermission(q, op, by, None, {})
        PROVE  IInv'
    BY <2>3, RequirePermissionKeeps
  <2>4. CASE ProvisionMember(q)
    <3>1. Writes(q, "provision")
      BY <2>4 DEF ProvisionMember
    <3>2. /\ req[q].to \in Users /\ req[q].roles \in SUBSET Roles /\ req[q].roles # {}
          /\ req[q] # Idle
      BY <1>0, <2>0, <3>1 DEF Sound, RequestSet
    <3> QED
      BY <1>0, <2>4, <3>2, WriteKeeps DEF ProvisionMember, TypeOK, rosterVars
  <2>5. CASE DeactivateMember(q)
    <3>1. Writes(q, "deactivate")
      BY <2>5 DEF DeactivateMember
    <3>2. req[q].to \in Users /\ req[q] # Idle
      BY <1>0, <2>0, <3>1 DEF Sound
    <3>3. status[req[q].to] # "active" => status' = status
      BY <1>0, <2>5, <3>2 DEF DeactivateMember, TypeOK
    <3> QED
      BY <1>0, <2>5, <3>2, <3>3, WriteKeeps DEF DeactivateMember, TypeOK, rosterVars
  <2>6. CASE UpdateMemberRoles(q)
    <3>1. Writes(q, "update")
      BY <2>6 DEF UpdateMemberRoles
    <3>2. /\ req[q].to \in Users /\ req[q].roles \in SUBSET Roles /\ req[q].roles # {}
          /\ req[q] # Idle
      BY <1>0, <2>0, <3>1 DEF Sound, RequestSet
    <3> QED
      BY <1>0, <2>6, <3>2, WriteKeeps DEF UpdateMemberRoles, TypeOK, rosterVars
  <2>7. CASE AddTeamMember(q)
    <3>1. Writes(q, "team")
      BY <2>7 DEF AddTeamMember
    <3>2. req[q].to \in Users /\ req[q] # Idle
      BY <1>0, <2>0, <3>1 DEF Sound, RosterOps
    <3> QED
      BY <1>0, <2>7, <3>2, WriteKeeps DEF AddTeamMember, TypeOK, rosterVars
  <2>8. ASSUME NEW k \in Tokens, CreateCredential(q, k) \/ RevokeCredential(q, k)
        PROVE  IInv'
    <3>1. Writes(q, "mint") \/ Writes(q, "revoke")
      BY <2>8 DEF CreateCredential, RevokeCredential
    <3>2. req[q] # Idle
      BY <2>0, <3>1
    <3> QED
      BY <1>0, <2>8, <3>2, WriteKeeps
      DEF CreateCredential, RevokeCredential, TypeOK, rosterVars
  <2> QED
    BY <1>2, <2>1, <2>2, <2>3, <2>4, <2>5, <2>6, <2>7, <2>8, ReadTargetKeeps,
       OwnerTierKeeps, LastOwnerKeeps
    DEF RequestStep
<1>3. ASSUME NEW k \in Tokens, TokenExpires(k)
      PROVE  IInv'
  <2>1. TypeOK'
    BY <1>0, <1>3 DEF TokenExpires, TypeOK, rosterVars
  <2>2. Unfounded'
    BY <1>3, InFlightFounded, StaysFounded DEF TokenExpires, rosterVars
  <2>3. \A q \in Requests : Sound(req[q])' /\ Decided(req[q])'
    BY <1>3, RosterStands DEF TokenExpires, IInv, Deciding, Sound, Decided, Grants
  <2> QED
    BY <2>1, <2>2, <2>3 DEF IInv, Deciding
<1>4. CASE UNCHANGED vars
  BY <1>4 DEF vars, rosterVars, IInv, TypeOK, Deciding, Sound, Decided, Grants,
     Unfounded, Owners, FindMemberRoles
<1> QED
  BY <1>1, <1>2, <1>3, <1>4 DEF Next

\* The rows keep their shape, and what every decision in flight has found out still
\* stands, unless the roster changed since or its read of the target missed an owner.
THEOREM DecisionsStand == Spec => []IInv
BY DecidingInit, DecidingStep, PTL DEF Spec

-----------------------------------------------------------------------------
(* Losing an owner.                                                        *)

\* Owners go only when a write takes the role from the one it names, and a
\* decision that is not stale and missed no owner was an owner's and left another.
LEMMA OwnersGo ==
    ASSUME IInv, [Next]_vars, Owners \ Owners' # {}
    PROVE  \E q \in Requests :
             /\ Commits(q)
             /\ ~req[q].stale /\ ~req[q].missed => req[q].by \in Owners /\ Owners' # {}
<1>0. TypeOK /\ \A q \in Requests : Sound(req[q]) /\ Decided(req[q])
  BY DEF IInv, Deciding
<1>1. ~UNCHANGED rosterVars
  BY RosterStands
<1>2. ASSUME NEW u \in Users, CreateOrganization(u)
      PROVE  FALSE
  BY <1>2 DEF CreateOrganization, Owners, FindMemberRoles
<1>3. ASSUME NEW q \in Requests, ProvisionMember(q)
      PROVE  FALSE
  <2>1. req[q].to \in Users
    BY <1>0, <1>3 DEF ProvisionMember, Writes, Sound, Idle, RosterOps
  <2> QED
    BY <1>0, <1>3, <2>1 DEF ProvisionMember, TypeOK, Owners, FindMemberRoles
<1>4. ASSUME NEW q \in Requests, DeactivateMember(q) \/ UpdateMemberRoles(q)
      PROVE  /\ Commits(q)
             /\ ~req[q].stale /\ ~req[q].missed => req[q].by \in Owners /\ Owners' # {}
  <2>1. /\ req[q].op \in RosterOps /\ req[q].step = "write"
        /\ req[q].to \in Users
    BY <1>0, <1>4
    DEF DeactivateMember, UpdateMemberRoles, Writes, Sound, Idle, RosterOps
  <2>2. Commits(q)
    BY <1>4, <2>1, CommittedKeeps
    DEF DeactivateMember, UpdateMemberRoles, Committed, Commits
  <2>3. \A u \in Users : u # req[q].to => (u \in Owners' <=> u \in Owners)
    BY <1>0, <1>4, <2>1
    DEF DeactivateMember, UpdateMemberRoles, TypeOK, Owners, FindMemberRoles
  <2>4. Owners \subseteq Users /\ Owners' \subseteq Users
    BY DEF Owners
  <2>5. req[q].to \in Owners /\ req[q].to \notin Owners'
    BY <2>1, <2>3, <2>4
  <2>6. ~Grants(req[q])
    <3>1. SUFFICES ASSUME Grants(req[q]) PROVE FALSE
      OBVIOUS
    <3>2. UpdateMemberRoles(q) /\ "owner" \in req[q].roles
      BY <1>4, <3>1 DEF Grants, DeactivateMember, Writes
    <3>3. status[req[q].to] = "active"
      BY <2>5 DEF Owners, FindMemberRoles
    <3> QED
      BY <1>0, <2>1, <2>5, <3>2, <3>3
      DEF UpdateMemberRoles, TypeOK, Owners, FindMemberRoles
  <2>7. ASSUME ~req[q].stale, ~req[q].missed
        PROVE  req[q].by \in Owners /\ Owners' # {}
    <3>1. req[q].owned
      BY <1>0, <2>1, <2>5, <2>7 DEF Decided
    <3>2. req[q].by \in Owners /\ Owners \ {req[q].to} # {}
      BY <1>0, <2>1, <2>6, <2>7, <3>1 DEF Decided
    <3> QED
      BY <2>3, <2>4, <3>2
  <2> QED
    BY <2>2, <2>7
<1> QED
  BY <1>1, <1>2, <1>3, <1>4
  DEF Next, vars, RequestStep, RequirePermission, ReadTarget, RequireOwnerTierActor,
      RequireNotLastActiveOwner, Checked, AddTeamMember, CreateCredential,
      RevokeCredential, TokenExpires

\* The last owner is only ever lost to a decision taken on another roster, or by a
\* request that missed it because its read failed.
THEOREM LastOwnerKept == Spec => LastOwnerLostToStaleOrMissed
<1>1. IInv /\ [Next]_vars =>
        [Owners # {} /\ Owners' = {} =>
           \E q \in Requests : Commits(q) /\ (req[q].stale \/ req[q].missed)]_vars
  BY OwnersGo
<1> QED
  BY <1>1, DecisionsStand, PTL DEF Spec, LastOwnerLostToStaleOrMissed

\* Only an owner's decision, a stale one, or one that missed the owner because its
\* read failed, takes the role from an owner.
THEOREM OwnersRemoveOwners == Spec => OwnersRemovedByOwners
<1>1. IInv /\ [Next]_vars =>
        [Owners \ Owners' # {} =>
           \E q \in Requests :
             Commits(q) /\ (req[q].stale \/ req[q].missed \/ req[q].by \in Owners)]_vars
  BY OwnersGo
<1> QED
  BY <1>1, DecisionsStand, PTL DEF Spec, OwnersRemovedByOwners
=============================================================================
