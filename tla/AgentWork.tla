------------------------------ MODULE AgentWork ------------------------------
(***************************************************************************)
(* The work budgets of one user's agent credentials: how many tasks a      *)
(* credential may take on in a UTC day, how many reservations it may have  *)
(* active at once, and how many credits it may spend in a day.             *)
(*                                                                         *)
(* A request is verified once and works with the policy read then.  Its    *)
(* transaction locks the credential's row, checks and charges, and commits *)
(* or rolls back later: what it charged shows only when it commits.        *)
(***************************************************************************)
EXTENDS Integers, FiniteSets, FiniteSetsExt

CONSTANTS
    Creds,         \* agent credentials of one user
    Tasks,         \* tasks the user may work on
    Direct,        \* those of open participation, submitted to directly
    Reservations,  \* ids of the user's reservations
    Policies,      \* the enabled work policies the owner may set
    Requests,      \* requests an agent may make
    Amounts,       \* credits a request may spend
    LastDay,       \* bound: UTC days counted from 0
    Retention,     \* workDayRetention, in days
    None           \* an allowance that is not configured, or a SQL null

Disabled == [tasks |-> 0, cap |-> None, spend |-> None, suits |-> {}]

ASSUME PolicyAssumption ==
    /\ Direct \subseteq Tasks
    /\ None \notin Nat \cup Tasks \cup Creds
    /\ Policies \subseteq [tasks : Nat \ {0}, cap : (Nat \ {0}) \cup {None},
                           spend : (Nat \ {0}) \cup {None}, suits : SUBSET Tasks]

ASSUME DayAssumption ==
    /\ LastDay \in Nat
    /\ Retention \in Nat \ {0}
    /\ Amounts \subseteq Nat \ {0}

VARIABLES
    cred,     \* state of each credential and the task it is scoped to
    policy,   \* the work policy on each credential's row
    request,  \* requests and the transaction each has open
    res,      \* task_reservations
    used,     \* work_day_counters of tasks, per credential and day
    spent,    \* work_day_counters of spending, per credential and day
    refused,  \* work_day_counters of refusals, per day
    day,      \* the UTC day
    granted   \* history: every enabled policy a credential has had

counterVars == <<used, spent, refused>>
vars == <<cred, policy, request, res, counterVars, day, granted>>

Calendar == 0..LastDay

\* outdated is history: the policy was set again since the verification.
NoRequest == [step |-> "unused", cred |-> None, policy |-> Disabled,
              op |-> "none", task |-> None, amount |-> 0, day |-> 0,
              outdated |-> FALSE]

\* revived is history: a request for changes made the row active again.
NoReservation == [state |-> "absent", task |-> None, via |-> None, revived |-> FALSE]

Init ==
    /\ cred = [c \in Creds |-> [state |-> "absent", scope |-> None]]
    /\ policy = [c \in Creds |-> Disabled]
    /\ request = [q \in Requests |-> NoRequest]
    /\ res = [r \in Reservations |-> NoReservation]
    /\ used = [c \in Creds |-> [d \in Calendar |-> 0]]
    /\ spent = [c \in Creds |-> [d \in Calendar |-> 0]]
    /\ refused = [d \in Calendar |-> 0]
    /\ day = 0
    /\ granted = [c \in Creds |-> {}]

InFlight(c) ==
    {q \in Requests : request[q].step \in {"verified", "charged"} /\ request[q].cred = c}

\* select ... from agent_credentials where id = ... for update
\* The charge also locks the day counter's row and checks the sum it finds there;
\* under this lock it never has to wait.
Locked(c) == \E q \in InFlight(c) : request[q].step = "charged"

\* select ... from tasks where id = ... for update
TaskLocked(t) ==
    \E q \in Requests : /\ request[q].step = "charged"
                        /\ request[q].op = "reserve"
                        /\ request[q].task = t

-----------------------------------------------------------------------------
(* Credentials.                                                            *)

CreateCredential(c) ==
    /\ cred[c].state = "absent"
    /\ cred' = [cred EXCEPT ![c].state = "active"]
    /\ UNCHANGED <<policy, request, res, counterVars, day, granted>>

\* Issued after a reservation was made, and good for its task only.
IssueTaskWorkerCredential(c, r) ==
    /\ cred[c].state = "absent"
    /\ res[r].state = "active"
    /\ cred' = [cred EXCEPT ![c] = [state |-> "active", scope |-> res[r].task]]
    /\ UNCHANGED <<policy, request, res, counterVars, day, granted>>

RevokeCredential(c) ==
    /\ cred[c].state \in {"active", "expired"}
    /\ ~Locked(c)
    /\ cred' = [cred EXCEPT ![c].state = "revoked"]
    /\ UNCHANGED <<policy, request, res, counterVars, day, granted>>

\* expires_at has passed; the row's state stays active.
CredentialExpires(c) ==
    /\ cred[c].state = "active"
    /\ cred' = [cred EXCEPT ![c].state = "expired"]
    /\ UNCHANGED <<policy, request, res, counterVars, day, granted>>

UpdateWorkPolicy(c, p) ==
    /\ cred[c].state \in {"active", "expired"}
    /\ cred[c].scope = None
    /\ ~Locked(c)
    /\ policy' = [policy EXCEPT ![c] = p]
    /\ granted' = [granted EXCEPT ![c] = @ \cup ({p} \ {Disabled})]
    /\ request' = [q \in Requests |->
                     IF q \in InFlight(c) THEN [request[q] EXCEPT !.outdated = TRUE]
                     ELSE request[q]]
    /\ UNCHANGED <<cred, res, counterVars, day>>

-----------------------------------------------------------------------------
(* Requests.                                                               *)

Verified(q, c, p) ==
    [request EXCEPT ![q] = [NoRequest EXCEPT !.step = "verified", !.cred = c,
                                             !.policy = p]]

\* (Mutant: credentials are cached with the policy of an earlier request.)
VerifyCached(q, c) ==
    /\ request[q] = NoRequest
    /\ cred[c].state = "active"
    /\ \E p \in granted[c] \cup {policy[c]} : request' = Verified(q, c, p)
    /\ UNCHANGED <<cred, policy, res, counterVars, day, granted>>

\* Verify: the request carries the policy of this moment to its end.
VerifyCredential(q, c) ==
    /\ request[q] = NoRequest
    /\ cred[c].state = "active"
    /\ request' = Verified(q, c, policy[c])
    /\ UNCHANGED <<cred, policy, res, counterVars, day, granted>>

Finish(q) == request' = [request EXCEPT ![q] = [NoRequest EXCEPT !.step = "over"]]

\* The transaction is open and holds its locks.
Charge(q, op, t, n) ==
    request' = [request EXCEPT ![q].step = "charged", ![q].op = op,
                               ![q].task = t, ![q].amount = n, ![q].day = day]

ActiveVia(c) == {r \in Reservations : res[r].state = "active" /\ res[r].via = c}

\* (Mutant: the count before the charge is checked.)
ExhaustedBefore(counter, n, limit) == counter > limit

\* chargeWorkDayCounter
Exhausted(counter, n, limit) == counter + n > limit

\* (Mutant: one reservation more than the cap.)
ReservationBudgetLoose(q) ==
    LET c == request[q].cred
        p == request[q].policy
    IN  /\ p.cap # None => Cardinality(ActiveVia(c)) <= p.cap
        /\ ~Exhausted(used[c][day], 1, p.tasks)

\* consumeReservationBudget
ReservationBudget(q) ==
    LET c == request[q].cred
        p == request[q].policy
    IN  /\ p.cap # None => Cardinality(ActiveVia(c)) < p.cap
        /\ ~Exhausted(used[c][day], 1, p.tasks)

TaskBudget(q) == ~Exhausted(used[request[q].cred][day], 1, request[q].policy.tasks)

\* applySpendCharge
SpendBudget(q, n) == ~Exhausted(spent[request[q].cred][day], n, request[q].policy.spend)

\* reservationOriginFor and WorkBudgetForSubmission: a task-scoped credential
\* never seeks work, another one only if enabled and the task suits it.
MaySeekWork(q, t) ==
    /\ request[q].step = "verified"
    /\ cred[request[q].cred].scope = None
    /\ request[q].policy # Disabled
    /\ t \in request[q].policy.suits
    /\ ~Locked(request[q].cred)

\* The unique index admits one active reservation per task.
Reservable(t) ==
    /\ t \notin Direct
    /\ ~TaskLocked(t)
    /\ \A r \in Reservations : ~(res[r].task = t /\ res[r].state = "active")

ReserveTask(q, t) ==
    /\ MaySeekWork(q, t)
    /\ Reservable(t)
    /\ ReservationBudget(q)
    /\ Charge(q, "reserve", t, 1)
    /\ UNCHANGED <<cred, policy, res, counterVars, day, granted>>

SubmitDirectly(q, t) ==
    /\ MaySeekWork(q, t)
    /\ t \in Direct
    /\ TaskBudget(q)
    /\ Charge(q, "submit", t, 1)
    /\ UNCHANGED <<cred, policy, res, counterVars, day, granted>>

\* Only an enabled policy with a spend cap is charged; the work-seeking state
\* does not gate spending.
MaySpend(q) ==
    /\ request[q].step = "verified"
    /\ cred[request[q].cred].scope = None

SpendCredits(q, n) ==
    /\ MaySpend(q)
    /\ request[q].policy.spend # None
    /\ ~Locked(request[q].cred)
    /\ SpendBudget(q, n)
    /\ Charge(q, "spend", None, n)
    /\ UNCHANGED <<cred, policy, res, counterVars, day, granted>>

SpendUncharged(q) ==
    /\ MaySpend(q)
    /\ request[q].policy.spend = None
    /\ Finish(q)
    /\ UNCHANGED <<cred, policy, res, counterVars, day, granted>>

\* A refusal rolls back; its count is written outside the transaction.
RefuseOverBudget(q) ==
    /\ \/ \E t \in Tasks : MaySeekWork(q, t) /\ Reservable(t) /\ ~ReservationBudget(q)
       \/ \E t \in Direct : MaySeekWork(q, t) /\ ~TaskBudget(q)
       \/ /\ MaySpend(q)
          /\ request[q].policy.spend # None
          /\ ~Locked(request[q].cred)
          /\ \E n \in Amounts : ~SpendBudget(q, n)
    /\ Finish(q)
    /\ refused' = [refused EXCEPT ![day] = @ + 1]
    /\ UNCHANGED <<cred, policy, res, used, spent, day, granted>>

\* Reserved work was budgeted when it was reserved: any credential of the
\* user brings it in, a task-scoped one for its own task.
SubmitReserved(q, r) ==
    /\ request[q].step = "verified"
    /\ cred[request[q].cred].scope \in {None, res[r].task}
    /\ res[r].state = "active"
    /\ res' = [res EXCEPT ![r].state = "submitted"]
    /\ Finish(q)
    /\ UNCHANGED <<cred, policy, counterVars, day, granted>>

Booked(counters, q) ==
    [counters EXCEPT ![request[q].cred][request[q].day] = @ + request[q].amount]

NewReservation(t, c) == [state |-> "active", task |-> t, via |-> c, revived |-> FALSE]

CommitReservation(q, r) ==
    /\ request[q].step = "charged" /\ request[q].op = "reserve"
    /\ res[r] = NoReservation
    /\ res' = [res EXCEPT ![r] = NewReservation(request[q].task, request[q].cred)]
    /\ used' = Booked(used, q)
    /\ Finish(q)
    /\ UNCHANGED <<cred, policy, spent, refused, day, granted>>

CommitSubmission(q) ==
    /\ request[q].step = "charged" /\ request[q].op = "submit"
    /\ used' = Booked(used, q)
    /\ Finish(q)
    /\ UNCHANGED <<cred, policy, res, spent, refused, day, granted>>

CommitSpend(q) ==
    /\ request[q].step = "charged" /\ request[q].op = "spend"
    /\ spent' = Booked(spent, q)
    /\ Finish(q)
    /\ UNCHANGED <<cred, policy, res, used, refused, day, granted>>

\* Anything after the charge fails, or the server stops.
Rollback(q) ==
    /\ request[q].step = "charged"
    /\ Finish(q)
    /\ UNCHANGED <<cred, policy, res, counterVars, day, granted>>

-----------------------------------------------------------------------------
(* Everyone else: the user in person, the requesters, and the clock.       *)

ReserveInPerson(r, t) ==
    /\ res[r] = NoReservation
    /\ Reservable(t)
    /\ res' = [res EXCEPT ![r] = NewReservation(t, None)]
    /\ UNCHANGED <<cred, policy, request, counterVars, day, granted>>

\* A cancel, an expiry or a rejection: the row is never active again.
ReservationEnds(r) ==
    /\ res[r].state \in {"active", "submitted"}
    /\ res' = [res EXCEPT ![r].state = "ended"]
    /\ UNCHANGED <<cred, policy, request, counterVars, day, granted>>

Submitted(t) == {r \in Reservations : res[r].task = t /\ res[r].state = "submitted"}

\* RequestChanges puts the worker's reservation back and asks no budget; the
\* unique index refuses it when the task has an active one.
RequestChanges(t) ==
    /\ Cardinality(Submitted(t)) = 1
    /\ Reservable(t)
    /\ res' = [r \in Reservations |->
                 IF r \in Submitted(t)
                 THEN [res[r] EXCEPT !.state = "active", !.revived = TRUE]
                 ELSE res[r]]
    /\ UNCHANGED <<cred, policy, request, counterVars, day, granted>>

NextDay ==
    /\ day < LastDay
    /\ day' = day + 1
    /\ UNCHANGED <<cred, policy, request, res, counterVars, granted>>

Evicted(counter) == [d \in Calendar |-> IF d < day - Retention THEN 0 ELSE counter[d]]

EvictStaleWorkDayCounters ==
    /\ used' = [c \in Creds |-> Evicted(used[c])]
    /\ spent' = [c \in Creds |-> Evicted(spent[c])]
    /\ refused' = Evicted(refused)
    /\ UNCHANGED <<cred, policy, request, res, day, granted>>

-----------------------------------------------------------------------------
CredentialStep ==
    \E c \in Creds :
      \/ CreateCredential(c)
      \/ \E r \in Reservations : IssueTaskWorkerCredential(c, r)
      \/ RevokeCredential(c)
      \/ CredentialExpires(c)
      \/ \E p \in Policies \cup {Disabled} : UpdateWorkPolicy(c, p)

RequestStep ==
    \E q \in Requests :
      \/ \E c \in Creds : VerifyCredential(q, c)
      \/ \E t \in Tasks : ReserveTask(q, t) \/ SubmitDirectly(q, t)
      \/ \E n \in Amounts : SpendCredits(q, n)
      \/ SpendUncharged(q)
      \/ RefuseOverBudget(q)
      \/ \E r \in Reservations : SubmitReserved(q, r) \/ CommitReservation(q, r)
      \/ CommitSubmission(q)
      \/ CommitSpend(q)
      \/ Rollback(q)

ElsewhereStep ==
    \/ \E r \in Reservations, t \in Tasks : ReserveInPerson(r, t)
    \/ \E r \in Reservations : ReservationEnds(r)
    \/ \E t \in Tasks : RequestChanges(t)
    \/ NextDay
    \/ EvictStaleWorkDayCounters

Next == CredentialStep \/ RequestStep \/ ElsewhereStep

Spec == Init /\ [][Next]_vars

-----------------------------------------------------------------------------
(* Properties.                                                             *)

RequestSet ==
    [step : {"unused", "verified", "charged", "over"}, cred : Creds \cup {None},
     policy : Policies \cup {Disabled}, op : {"none", "reserve", "submit", "spend"},
     task : Tasks \cup {None}, amount : Nat, day : Calendar, outdated : BOOLEAN]

\* The shape of every row; a task-scoped credential carries no policy.
TypeOK ==
    /\ cred \in [Creds -> [state : {"absent", "active", "expired", "revoked"},
                           scope : Tasks \cup {None}]]
    /\ policy \in [Creds -> Policies \cup {Disabled}]
    /\ \A c \in Creds : cred[c].scope # None => policy[c] = Disabled
    /\ request \in [Requests -> RequestSet]
    /\ res \in [Reservations -> [state : {"absent", "active", "submitted", "ended"},
                                 task : Tasks \cup {None}, via : Creds \cup {None},
                                 revived : BOOLEAN]]
    /\ used \in [Creds -> [Calendar -> Nat]]
    /\ spent \in [Creds -> [Calendar -> Nat]]
    /\ refused \in [Calendar -> Nat]
    /\ day \in Calendar
    /\ granted \in [Creds -> SUBSET Policies]

\* However many requests race through one credential, no day holds more tasks, or
\* more spending that is charged, than the most generous policy it was ever given
\* allows.
WithinGrantedBudget ==
    \A c \in Creds, d \in Calendar :
      /\ used[c][d] <= Max({0} \cup {p.tasks : p \in granted[c]})
      /\ spent[c][d] <= Max({0} \cup {p.spend : p \in {x \in granted[c] : x.spend # None}})

\* A credential's active reservations do exceed its caps (see ActiveWithinCap),
\* but requests for changes alone make them: those it established itself and
\* that were never handed in stay within the largest cap it has had.
CapExceededOnlyByChanges ==
    \A c \in Creds :
      (\A p \in granted[c] : p.cap # None) =>
        Cardinality({r \in ActiveVia(c) : ~res[r].revived})
          <= Max({0} \cup {p.cap : p \in granted[c]})

\* What the documentation of the policy promises: the active reservations that were
\* established through a credential stay within the largest cap it has had.  It
\* does not hold: a request for changes puts a submitted one back beside those that
\* were made since.
ActiveWithinCap ==
    \A c \in Creds :
      (\A p \in granted[c] : p.cap # None) =>
        Cardinality(ActiveVia(c)) <= Max({0} \cup {p.cap : p \in granted[c]})

\* A new policy binds every request verified after it: once those it overtook
\* are over, no task is charged beyond it.  (Those it overtook go by the old one.)
PolicyChangeTakesHold ==
    [][\A c \in Creds, d \in Calendar :
         /\ \A q \in InFlight(c) : ~request[q].outdated
         /\ used'[c][d] > used[c][d]
         => used'[c][d] <= policy[c].tasks]_vars
=============================================================================
