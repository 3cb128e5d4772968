---------------------------- MODULE Organizations ----------------------------
(***************************************************************************)
(* One organization: its members and their roles, its team, the            *)
(* organization-wide credentials, and the requests that change them.       *)
(*                                                                         *)
(* A request is decided by several reads, each a statement of its own, and *)
(* then written; nothing is locked in between.  step is what it does next. *)
(* stale and missed are history: the roster changed since the request came *)
(* in, and the read of its target failed to see an owner.                  *)
(***************************************************************************)
EXTENDS Naturals, FiniteSets

CONSTANTS
    Users,
    Verified,   \* users whose email address is verified
    Tokens,     \* ids of the organization's credentials
    Requests,   \* requests in flight
    Roles,      \* roles a member may hold, among them "owner" and "admin"
    RoleLists,  \* the role lists a request may name
    TeamSize,   \* bound: members of the team
    None        \* no value

ASSUME RolesAssumption ==
    /\ {"owner", "admin"} \subseteq Roles
    /\ RoleLists \subseteq (SUBSET Roles) \ {{}}

ASSUME UsersAssumption ==
    /\ Verified \subseteq Users
    /\ Users \cap Tokens = {}
    /\ None \notin Users \cup Tokens
    /\ TeamSize \in Nat

VARIABLES
    status,   \* organization_memberships.status, "absent" without a row
    roles,    \* organization_membership_roles
    granted,  \* whether the organization got its signup grant
    team,     \* team_members of the organization's team
    token,    \* org_credentials.state; an active one may expire
    req       \* requests between two of their statements

rosterVars == <<status, roles>>
vars == <<rosterVars, granted, team, token, req>>

Idle == [op |-> "idle", by |-> None, to |-> None, roles |-> {}, owned |-> FALSE,
         step |-> "none", stale |-> FALSE, missed |-> FALSE]

Init ==
    /\ status = [u \in Users |-> "absent"]
    /\ roles = [u \in Users |-> {}]
    /\ granted = FALSE
    /\ team = {}
    /\ token = [k \in Tokens |-> "absent"]
    /\ req = [q \in Requests |-> Idle]

-----------------------------------------------------------------------------
(* Who may do what.                                                        *)

\* The roles that count: those of an active membership.
FindMemberRoles(u) == IF status[u] = "active" THEN roles[u] ELSE {}

Owners == {u \in Users : "owner" \in FindMemberRoles(u)}

\* CheckPermission for manage_members and manage_teams: an owner or an admin.
Managers == {u \in Users : FindMemberRoles(u) \cap {"owner", "admin"} # {}}

\* requirePermissionForActor: a credential of the organization is granted
\* everything; it was verified when the request came in.
Permitted == Managers \cup {k \in Tokens : token[k] = "active"}

-----------------------------------------------------------------------------
(* The decision.                                                           *)

CreateOrganization(u) ==
    /\ \A x \in Users : status[x] = "absent"
    /\ status' = [status EXCEPT ![u] = "active"]
    /\ roles' = [roles EXCEPT ![u] = {"owner"}]
    /\ granted' = (u \in Verified)
    /\ UNCHANGED <<team, token, req>>

FirstStep(op) == IF op \in {"deactivate", "update"} THEN "target" ELSE "write"

\* Credentials are managed by members only, over a session.  Who asks matters
\* after this check only where ownership may change.
RequirePermission(q, op, by, to, list) ==
    /\ req[q] = Idle
    /\ by \in Permitted
    /\ op \in {"mint", "revoke"} => by \in Users
    /\ req' = [req EXCEPT ![q] = [op |-> op,
                                  by |-> IF FirstStep(op) = "target" THEN by ELSE None,
                                  to |-> to, roles |-> list, owned |-> FALSE,
                                  step |-> FirstStep(op), stale |-> FALSE,
                                  missed |-> FALSE]]
    /\ UNCHANGED <<rosterVars, granted, team, token>>

\* A request goes on if its check passes, and is refused otherwise; a check
\* whose read fails refuses too.
Checked(q, passed, step) ==
    /\ req' = [req EXCEPT ![q] = IF passed THEN [@ EXCEPT !.step = step] ELSE Idle]
    /\ UNCHANGED <<rosterVars, granted, team, token>>

GrantsOwner(q) == req[q].op = "update" /\ "owner" \in req[q].roles

\* Ownership is about to change if the target is seen to have the role or is to
\* get it.  A read that fails (the query, or a role that does not parse) counts as
\* seeing no owner: the request goes on without the checks.
ReadTarget(q, failed) ==
    LET owner == "owner" \in FindMemberRoles(req[q].to)
        owned == owner /\ ~failed
    IN  /\ req[q].step = "target"
        /\ req' = [req EXCEPT
             ![q].owned = owned,
             ![q].missed = owner /\ failed,
             ![q].step = IF owned \/ GrantsOwner(q) THEN "tier" ELSE "write"]
        /\ UNCHANGED <<rosterVars, granted, team, token>>

\* requireOwnerTierActor: a member with the role, never a credential.
\* (Mutant: whoever manages members.)
AnyManager(q) == req[q].by \in Permitted
OwnerTier(q) == req[q].by \in Owners

RequireOwnerTierActor(q, failed) ==
    /\ req[q].step = "tier"
    /\ Checked(q, ~failed /\ OwnerTier(q),
               IF req[q].owned /\ ~GrantsOwner(q) THEN "last" ELSE "write")

\* requireNotLastActiveOwner.
\* (Mutant: the target itself is counted.)
SomeOwner(q) == Owners # {}
OtherOwner(q) == Owners \ {req[q].to} # {}

RequireNotLastActiveOwner(q, failed) ==
    /\ req[q].step = "last"
    /\ Checked(q, ~failed /\ OtherOwner(q), "write")

-----------------------------------------------------------------------------
(* The writes.  Each is one transaction, predicated on the membership row. *)

\* The decisions still in flight were taken on another roster.
Committed(q, changed) ==
    req' = [r \in Requests |->
              CASE r = q -> Idle
                [] r # q /\ changed /\ FirstStep(req[r].op) = "target" ->
                     [req[r] EXCEPT !.stale = TRUE]
                [] OTHER -> req[r]]

Writes(q, op) == req[q].op = op /\ req[q].step = "write"

\* One row per user, and no role is out of reach here.
ProvisionMember(q) ==
    LET u == req[q].to
        new == status[u] = "absent"
    IN  /\ Writes(q, "provision")
        /\ status' = IF new THEN [status EXCEPT ![u] = "active"] ELSE status
        /\ roles' = IF new THEN [roles EXCEPT ![u] = req[q].roles] ELSE roles
        /\ Committed(q, new)
        /\ UNCHANGED <<granted, team, token>>

\* The roles stay on the row, and a team keeps the member.
DeactivateMember(q) ==
    LET u == req[q].to
    IN  /\ Writes(q, "deactivate")
        /\ status' = [status EXCEPT ![u] = IF @ = "active" THEN "deactivated" ELSE @]
        /\ Committed(q, status[u] = "active")
        /\ UNCHANGED <<roles, granted, team, token>>

UpdateMemberRoles(q) ==
    LET u == req[q].to
        found == status[u] = "active"
    IN  /\ Writes(q, "update")
        /\ roles' = IF found THEN [roles EXCEPT ![u] = req[q].roles] ELSE roles
        /\ Committed(q, found)
        /\ UNCHANGED <<status, granted, team, token>>

\* AddTeamMemberByEmail takes any user, in the organization or not.
AddTeamMember(q) ==
    /\ Writes(q, "team")
    /\ Cardinality(team) < TeamSize
    /\ team' = team \cup {req[q].to}
    /\ Committed(q, FALSE)
    /\ UNCHANGED <<rosterVars, granted, token>>

CreateCredential(q, k) ==
    /\ Writes(q, "mint")
    /\ token[k] = "absent"
    /\ token' = [token EXCEPT ![k] = "active"]
    /\ Committed(q, FALSE)
    /\ UNCHANGED <<rosterVars, granted, team>>

RevokeCredential(q, k) ==
    /\ Writes(q, "revoke")
    /\ token' = [token EXCEPT ![k] = IF @ = "active" THEN "revoked" ELSE @]
    /\ Committed(q, FALSE)
    /\ UNCHANGED <<rosterVars, granted, team>>

TokenExpires(k) ==
    /\ token[k] = "active"
    /\ token' = [token EXCEPT ![k] = "expired"]
    /\ UNCHANGED <<rosterVars, granted, team, req>>

RequestStep(q) ==
    \/ \E by \in Users \cup Tokens, to \in Users :
         \/ \E op \in {"deactivate", "team"} : RequirePermission(q, op, by, to, {})
         \/ \E op \in {"provision", "update"}, list \in RoleLists :
              RequirePermission(q, op, by, to, list)
    \/ \E by \in Users, op \in {"mint", "revoke"} : RequirePermission(q, op, by, None, {})
    \/ \E failed \in BOOLEAN :
         \/ ReadTarget(q, failed)
         \/ RequireOwnerTierActor(q, failed)
         \/ RequireNotLastActiveOwner(q, failed)
    \/ ProvisionMember(q)
    \/ DeactivateMember(q)
    \/ UpdateMemberRoles(q)
    \/ AddTeamMember(q)
    \/ \E k \in Tokens : CreateCredential(q, k) \/ RevokeCredential(q, k)

Next ==
    \/ \E u \in Users : CreateOrganization(u)
    \/ \E q \in Requests : RequestStep(q)
    \/ \E k \in Tokens : TokenExpires(k)

Spec == Init /\ [][Next]_vars

-----------------------------------------------------------------------------
(* Properties.                                                             *)

\* The shape of the state.
TypeOK ==
    /\ status \in [Users -> {"absent", "active", "deactivated"}]
    /\ roles \in [Users -> SUBSET Roles]
    /\ \A u \in Users : roles[u] = {} <=> status[u] = "absent"
    /\ granted \in BOOLEAN
    /\ team \subseteq Users
    /\ token \in [Tokens -> {"absent", "active", "revoked", "expired"}]
    /\ req \in [Requests ->
         [op : {"idle", "provision", "deactivate", "update", "team", "mint", "revoke"},
          by : Users \cup Tokens \cup {None}, to : Users \cup {None},
          roles : SUBSET Roles, owned : BOOLEAN,
          step : {"none", "target", "tier", "last", "write"},
          stale : BOOLEAN, missed : BOOLEAN]]

\* The request a step commits.
Commits(q) == req[q].step = "write" /\ req'[q] = Idle

\* An organization does lose its last owner, but to two causes only: the request
\* could not read its target, or the roster changed after the request came in.
\* Requests that do not overlap and whose reads succeed, however many, leave it one.
LastOwnerLostToStaleOrMissed ==
    [][Owners # {} /\ Owners' = {} =>
         \E q \in Requests : Commits(q) /\ (req[q].stale \/ req[q].missed)]_vars

\* An admin or a credential takes the role from an owner, by deactivating or by new
\* roles, only if the target could not be read or the roster changed under the
\* decision.
OwnersRemovedByOwners ==
    [][Owners \ Owners' # {} =>
         \E q \in Requests :
           Commits(q) /\ (req[q].stale \/ req[q].missed \/ req[q].by \in Owners)]_vars

\* What the comment on requireNotLastActiveOwner promises: an organization that
\* exists has an owner.  It does not hold: the deactivation of the only owner
\* goes on past the checks when its target cannot be read.
NeverOwnerless == (\E u \in Users : status[u] # "absent") => Owners # {}

\* The same promise for a request whose reads all succeed: at most a failed read
\* costs the last owner.  It does not hold: one made owner after the request read
\* its target goes unchecked, and two owners who step down together each count
\* the other one.
LastOwnerSurvivesRaces ==
    [][Owners # {} /\ Owners' = {} =>
         \E q \in Requests : Commits(q) /\ req[q].missed]_vars

\* What the comment on requireOwnerTierActor promises: nobody but a member who is an
\* owner removes an owner.  It does not hold where the target cannot be read.
AdminsRemoveNoOwner ==
    [][Owners \ Owners' # {} =>
         \E q \in Requests : Commits(q) /\ req[q].by \in Owners]_vars
=============================================================================
