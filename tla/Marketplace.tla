---------------------------- MODULE Marketplace ----------------------------
(***************************************************************************)
(* The transactional core of Sharecrop: tasks and their life cycle, the    *)
(* credit ledger and the escrow it funds, collectible rewards,             *)
(* reservations, submissions and their review.                             *)
(*                                                                         *)
(* One action is one committed database transaction of a handler, with     *)
(* everything that transaction writes.  A refused request rolls back and   *)
(* is a stuttering step, so only what commits is modelled.  Two handlers   *)
(* decide outside their transaction on a row they read earlier (changing a *)
(* task's state, submitting); they are two actions, Begin... (the read and *)
(* the decision) and the write, with the decision carried in req.          *)
(*                                                                         *)
(* Callers are user sessions or organization credentials; agent budgets,   *)
(* task series and the event outbox are left to their own modules.         *)
(***************************************************************************)
EXTENDS Integers, FiniteSets, Functions

CONSTANTS
    Users,          \* registered users, each with a credit account
    Orgs,           \* organizations, each with a credit account
    Teams,          \* teams that may be assigned a task
    Staff,          \* [Orgs -> SUBSET Users]: members who may review and fund
    Members,        \* [Teams -> SUBSET Users]
    Tasks,          \* ids of the tasks that may be created
    Creator,        \* [Tasks -> Users]: created_by_user_id
    OwnerOrg,       \* [Tasks -> Orgs or None]: organization_id
    Policy,         \* [Tasks -> Policies]: participation_policy
    Scope,          \* [Tasks -> Scopes]: assignee_scope
    InitialKind,    \* [Tasks -> RewardKinds]: the reward declared on create
    InitialAmount,  \* [Tasks -> Nat]: its credits, 0 when it has none
    Expires,        \* [Tasks -> Nat or None]: expires_at, fixed on create
    Collectibles,   \* non-unique catalog collectibles
    Giftable,       \* those whose transfer policy allows a tip or a gift
    Submissions,    \* ids of the submissions that may be made
    Reservations,   \* ids of the reservations that may be made
    Requests,       \* requests in flight between their check and their write
    Keys,           \* client-chosen idempotency keys
    Amounts,        \* credit amounts a client may name
    InitialCredits, \* the signup grant of every account
    CreditSupply,   \* bound: credits ever issued by grants
    DailyCeiling,   \* DailyPeerTransferCeilingCredits
    None            \* a SQL null

Accounts == Users \cup Orgs

RewardKinds == {"none", "credit", "collectible", "bundle"}
CreditKinds == {"credit", "bundle"}
CollectibleKinds == {"collectible", "bundle"}
Policies == {"open", "reservation_required"}
Scopes == {"user", "team"}
TaskStates == {"absent", "draft", "open", "closed", "cancelled", "expired"}
SubmissionStates ==
    {"absent", "submitted", "invalid", "accepted", "rejected",
     "changes_requested", "superseded"}
ReservationStates ==
    {"absent", "active", "submitted", "expired", "cancelled_by_worker",
     "cancelled_by_requester"}
Held == {"active", "submitted"}
CollectibleStates == {"minted", "escrowed", "withdrawn"}

ASSUME PartiesAssumption ==
    /\ None \notin Accounts \cup Teams \cup Tasks \cup Collectibles \cup Keys
    /\ Users \cap Teams = {}
    /\ Staff \in [Orgs -> SUBSET Users]
    /\ Members \in [Teams -> SUBSET Users]

ASSUME TasksAssumption ==
    /\ Creator \in [Tasks -> Users]
    /\ OwnerOrg \in [Tasks -> Orgs \cup {None}]
    /\ Policy \in [Tasks -> Policies]
    /\ Scope \in [Tasks -> Scopes]
    /\ InitialKind \in [Tasks -> RewardKinds]
    /\ InitialAmount \in [Tasks -> Nat]
    /\ Expires \in [Tasks -> Nat \cup {None}]
    /\ \A t \in Tasks : InitialKind[t] \in CreditKinds <=> InitialAmount[t] > 0

\* Accounts and tasks are rows of tables; credits are added up over them.
ASSUME RowsAssumption == IsFiniteSet(Accounts) /\ IsFiniteSet(Tasks)

ASSUME CreditAssumption ==
    /\ Amounts \subseteq Nat \ {0}
    /\ InitialCredits \in Nat
    /\ CreditSupply \in Nat
    /\ DailyCeiling \in Nat

VARIABLES
    state,     \* tasks.state, "absent" before CreateTask
    kind,      \* tasks.reward_kind
    declared,  \* tasks.reward_credit_amount (0 for null)
    due,       \* whether tasks.expires_at has passed
    fund,      \* task_funds.credit_amount (0: no row)
    funder,    \* task_funds.funder_account_id
    balance,   \* sum(ledger_entries.amount) of each account
    keyed,     \* the ledger entries that carry an idempotency key
    books,     \* what the ledger says is set aside for each task: minus the
               \* sum of its task_fund, task_payout and task_refund entries
    issued,    \* the sum of the signup_grant and manual_adjustment entries
    sent,      \* work_day_counters of today's peer sends, per account
    cstate,    \* collectibles.state
    cowner,    \* collectibles.owner_user_id
    held,      \* task_fund_collectibles: pairs <<task, collectible>>
    sub,       \* submissions
    res,       \* task_reservations
    bans,      \* task_implementor_bans: pairs <<task, user>>
    req        \* requests between their check and their transaction

taskVars == <<state, kind, declared, due>>
escrowVars == <<fund, funder, books>>
ledgerVars == <<balance, keyed, issued, sent>>
collectibleVars == <<cstate, cowner, held>>
workVars == <<sub, res, bans>>
vars == <<taskVars, escrowVars, ledgerVars, collectibleVars, workVars, req>>

Idle == [op |-> "idle", task |-> None, user |-> None]
NoSubmission == [state |-> "absent", task |-> None, user |-> None]
NoReservation ==
    [state |-> "absent", task |-> None, assignee |-> None, lapsed |-> FALSE]

-----------------------------------------------------------------------------
(* Ledger entries and their idempotency keys.                              *)

Bare(k) == [use |-> "bare", id |-> k]
Derived(use, k) == [use |-> use, id |-> k]
KeyUses == {"bare", "tip-debit", "tip-credit", "send-debit", "send-credit",
            "expire"}
EntryKinds == {"task_fund", "task_payout", "task_refund", "task_tip",
               "peer_transfer", "manual_adjustment"}

Entry(a, key, entryKind, t, n) ==
    [acct |-> a, key |-> key, kind |-> entryKind, task |-> t, amount |-> n]

\* The unique index on (account_id, idempotency_key) admits a new entry.
Fresh(a, key) == \A e \in keyed : ~(e.acct = a /\ e.key = key)

\* The balances b after an entry of n credits on account a (none if a is null).
Posted(b, a, n) == IF a \in Accounts THEN [b EXCEPT ![a] = @ + n] ELSE b

\* The balances b after a double entry that moves n credits from x to y.
\* (Mutant: only one side is posted.)
TransferredOneSided(b, x, y, n) == Posted(b, y, n)
Transferred(b, x, y, n) == Posted(Posted(b, x, -n), y, n)

HeldFor(t) == {c \in Collectibles : <<t, c>> \in held}

-----------------------------------------------------------------------------
Init ==
    /\ state = [t \in Tasks |-> "absent"]
    /\ kind = InitialKind
    /\ declared = InitialAmount
    /\ due = [t \in Tasks |-> FALSE]
    /\ fund = [t \in Tasks |-> 0]
    /\ funder = [t \in Tasks |-> None]
    /\ balance = [a \in Accounts |-> InitialCredits]
    /\ keyed = {}
    /\ books = [t \in Tasks |-> 0]
    /\ issued = 0
    /\ sent = [a \in Accounts |-> 0]
    /\ cstate = [c \in Collectibles |-> "minted"]
    /\ cowner \in [Collectibles -> Users]
    /\ held = {}
    /\ sub = [s \in Submissions |-> NoSubmission]
    /\ res = [r \in Reservations |-> NoReservation]
    /\ bans = {}
    /\ req = [q \in Requests |-> Idle]

-----------------------------------------------------------------------------
(* Creating and funding a task.                                            *)

\* requireEscrowableCollectible
\* (Mutant: the state of the collectible is not checked.)
EscrowableInAnyState(c, u) == cowner[c] = u
Escrowable(c, u) == cowner[c] = u /\ cstate[c] = "minted"

\* t expires before u does; a task without an instant never expires.
ExpiresBefore(t, u) ==
    Expires[t] # None /\ Expires[u] # None /\ Expires[t] < Expires[u]

\* CreateTask escrows every collectible named by the command, or none: a
\* collectible reward names at least one, a bundle may name none yet.  The
\* expiry it names lies in the future.
CreateTask(t, chosen) ==
    /\ state[t] = "absent"
    /\ Expires[t] # None => \A u \in Tasks : due[u] => ExpiresBefore(u, t)
    /\ chosen # {} => kind[t] \in CollectibleKinds
    /\ kind[t] = "collectible" => chosen # {}
    /\ \A c \in chosen : Escrowable(c, Creator[t])
    /\ state' = [state EXCEPT ![t] = "draft"]
    /\ cstate' = [c \in Collectibles |->
                    IF c \in chosen THEN "escrowed" ELSE cstate[c]]
    /\ held' = held \cup ({t} \X chosen)
    /\ UNCHANGED <<kind, declared, due, escrowVars, ledgerVars, cowner,
                   workVars, req>>

\* requireFundableTask: a draft, and the amount matches what is declared; a
\* first credit funding turns none into credit and collectible into bundle.
\* (Mutant: a collectible reward that gains credits is not recorded as both.)
DeclareCreditsOnly(t, n) ==
    /\ kind[t] \in CreditKinds => declared[t] = n
    /\ kind' = [kind EXCEPT ![t] = IF @ = "none" THEN "credit" ELSE @]
    /\ declared' = [declared EXCEPT ![t] = n]
DeclareCredits(t, n) ==
    /\ kind[t] \in CreditKinds => declared[t] = n
    /\ kind' = [kind EXCEPT ![t] =
                  CASE @ \in CreditKinds -> @
                    [] @ = "collectible" -> "bundle"
                    [] OTHER -> "credit"]
    /\ declared' = [declared EXCEPT ![t] = n]

\* (Mutant: a task past its draft may be funded too.)
RequireFundableAnyState(t, n) == state[t] # "absent" /\ DeclareCredits(t, n)
RequireFundableTask(t, n) == state[t] = "draft" /\ DeclareCredits(t, n)

\* completeFunding: one fund row per task, paid from a sufficient balance.
SetAside(a, t, n, k) ==
    /\ fund' = [fund EXCEPT ![t] = n]
    /\ funder' = [funder EXCEPT ![t] = a]
    /\ balance' = Posted(balance, a, -n)
    /\ keyed' = keyed \cup {Entry(a, Bare(k), "task_fund", t, -n)}
    /\ books' = [books EXCEPT ![t] = @ + n]

\* (Mutant: an existing fund row is overwritten.)
CompleteFundingTwice(a, t, n, k) == balance[a] >= n /\ SetAside(a, t, n, k)
CompleteFunding(a, t, n, k) ==
    /\ fund[t] = 0
    /\ balance[a] >= n
    /\ SetAside(a, t, n, k)

Fund(a, t, n, k) ==
    /\ Fresh(a, Bare(k))
    /\ RequireFundableTask(t, n)
    /\ CompleteFunding(a, t, n, k)
    /\ UNCHANGED <<state, due, issued, sent, collectibleVars, workVars, req>>

FundTask(t, n, k) == Fund(Creator[t], t, n, k)

FundTaskFromOrganization(t, n, k) ==
    /\ OwnerOrg[t] # None
    /\ Fund(OwnerOrg[t], t, n, k)

FundCollectibleReward(t, c) ==
    /\ Escrowable(c, Creator[t])
    /\ state[t] = "draft"
    /\ kind' = [kind EXCEPT ![t] =
                  CASE @ = "none" -> "collectible"
                    [] @ = "credit" -> "bundle"
                    [] OTHER -> @]
    /\ cstate' = [cstate EXCEPT ![c] = "escrowed"]
    /\ held' = held \cup {<<t, c>>}
    /\ UNCHANGED <<state, declared, due, escrowVars, ledgerVars, cowner,
                   workVars, req>>

-----------------------------------------------------------------------------
(* Settling a task that will not be awarded.                               *)

\* The fund row goes back to its funder: refundTaskCreditFunding, RefundTask.
\* (Mutants: the row is not deleted; the creator is refunded, not the funder.)
RefundCreditsKeepingRow(t) ==
    /\ balance' = Posted(balance, funder[t], fund[t])
    /\ books' = [books EXCEPT ![t] = @ - fund[t]]
    /\ UNCHANGED <<fund, funder>>
RefundCreditsToCreator(t) ==
    /\ balance' = Posted(balance, Creator[t], fund[t])
    /\ fund' = [fund EXCEPT ![t] = 0]
    /\ funder' = [funder EXCEPT ![t] = None]
    /\ books' = [books EXCEPT ![t] = @ - fund[t]]
RefundCredits(t) ==
    /\ balance' = Posted(balance, funder[t], fund[t])
    /\ fund' = [fund EXCEPT ![t] = 0]
    /\ funder' = [funder EXCEPT ![t] = None]
    /\ books' = [books EXCEPT ![t] = @ - fund[t]]

\* refundHeldCollectibleReward
ReturnCollectibles(t) ==
    /\ cstate' = [c \in Collectibles |->
                    IF c \in HeldFor(t) THEN "minted" ELSE cstate[c]]
    /\ held' = {p \in held : p[1] # t}
    /\ UNCHANGED cowner

\* releaseReservationsOnCancel
\* (Mutant: reservations under review are forgotten.)
HeldReservations(t, states) ==
    {r \in Reservations : res[r].task = t /\ res[r].state \in states}
Dropped(ended) ==
    [r \in Reservations |->
       IF r \in ended THEN [res[r] EXCEPT !.state = "cancelled_by_requester"]
       ELSE res[r]]
ReleaseActiveReservations(t) == res' = Dropped(HeldReservations(t, {"active"}))
ReleaseReservations(t) == res' = Dropped(HeldReservations(t, Held))

\* lockTaskRefundable: the creator or the active holder may ask; the
\* creator always can, so only the state of the task decides.
Refundable(t) == state[t] \in {"draft", "open"}

\* RefundTask: a key already on the task or on the funder's account refuses.
RefundTask(t, k) ==
    /\ Refundable(t)
    /\ fund[t] > 0
    /\ \A e \in keyed : ~(e.task = t /\ e.key = Bare(k))
    /\ Fresh(funder[t], Bare(k))
    /\ RefundCredits(t)
    /\ keyed' = keyed \cup
                  {Entry(funder[t], Bare(k), "task_refund", t, fund[t])}
    /\ ReturnCollectibles(t)
    /\ ReleaseReservations(t)
    /\ state' = [state EXCEPT ![t] = "cancelled"]
    /\ UNCHANGED <<kind, declared, due, issued, sent, sub, bans, req>>

RefundCollectibleReward(t) ==
    /\ Refundable(t)
    /\ kind[t] # "bundle"
    /\ HeldFor(t) # {}
    /\ ReturnCollectibles(t)
    /\ ReleaseReservations(t)
    /\ state' = [state EXCEPT ![t] = "cancelled"]
    /\ UNCHANGED <<kind, declared, due, escrowVars, ledgerVars, sub, bans, req>>

-----------------------------------------------------------------------------
(* Opening, unpublishing and cancelling.                                   *)

\* OpenState, CancelState and UnpublishState, on the state the service read.
TransitionAllowed(from, target) ==
    CASE target = "open" -> from = "draft"
      [] target = "cancelled" -> from \in {"draft", "open"}
      [] target = "draft" -> from = "open"

\* changeState: the owner's request is validated on a task read outside the
\* transaction that will write it.
BeginChangeState(q, t, target) ==
    /\ req[q] = Idle
    /\ state[t] # "absent"
    /\ TransitionAllowed(state[t], target)
    /\ req' = [req EXCEPT ![q] = [op |-> target, task |-> t, user |-> None]]
    /\ UNCHANGED <<taskVars, escrowVars, ledgerVars, collectibleVars, workVars>>

\* requireOpenableReward
\* (Mutant: only the credits are checked.)
OpenableOnCredits(t) ==
    kind[t] \in CreditKinds => fund[t] > 0 /\ fund[t] = declared[t]
Openable(t) ==
    /\ kind[t] \in CreditKinds => fund[t] > 0 /\ fund[t] = declared[t]
    /\ kind[t] \in CollectibleKinds => HeldFor(t) # {}

\* ChangeTaskState locks the row and writes the target; its UPDATE is
\* predicated on the state it just locked, whatever that is.
OpenTask(q) ==
    LET t == req[q].task
    IN  /\ req[q].op = "open"
        /\ req' = [req EXCEPT ![q] = Idle]
        /\ state' = IF Openable(t) THEN [state EXCEPT ![t] = "open"] ELSE state
        /\ UNCHANGED <<kind, declared, due, escrowVars, ledgerVars,
                       collectibleVars, workVars>>

UnpublishTask(q) ==
    LET t == req[q].task
    IN  /\ req[q].op = "draft"
        /\ req' = [req EXCEPT ![q] = Idle]
        /\ state' = [state EXCEPT ![t] = "draft"]
        /\ UNCHANGED <<kind, declared, due, escrowVars, ledgerVars,
                       collectibleVars, workVars>>

\* A cancel settles the escrow (with no idempotency key) and releases the
\* reservations in the transaction that writes the state.
CancelTask(q) ==
    LET t == req[q].task
    IN  /\ req[q].op = "cancelled"
        /\ req' = [req EXCEPT ![q] = Idle]
        /\ RefundCredits(t)
        /\ ReturnCollectibles(t)
        /\ ReleaseReservations(t)
        /\ state' = [state EXCEPT ![t] = "cancelled"]
        /\ UNCHANGED <<kind, declared, due, keyed, issued, sent, sub, bans>>

-----------------------------------------------------------------------------
(* The clock and the lifecycle sweeps.                                     *)

TaskFallsDue(t) ==
    /\ state[t] # "absent" /\ ~due[t] /\ Expires[t] # None
    /\ \A u \in Tasks : state[u] # "absent" /\ ExpiresBefore(u, t) => due[u]
    /\ due' = [due EXCEPT ![t] = TRUE]
    /\ UNCHANGED <<state, kind, declared, escrowVars, ledgerVars,
                   collectibleVars, workVars, req>>

ReservationLapses(r) ==
    /\ res[r].state \in Held /\ ~res[r].lapsed
    /\ res' = [res EXCEPT ![r].lapsed = TRUE]
    /\ UNCHANGED <<taskVars, escrowVars, ledgerVars, collectibleVars, sub,
                   bans, req>>

\* work_day_counters are keyed by UTC day, so midnight starts a new count.
NewDay ==
    /\ \E a \in Accounts : sent[a] > 0
    /\ sent' = [a \in Accounts |-> 0]
    /\ UNCHANGED <<taskVars, escrowVars, balance, keyed, issued,
                   collectibleVars, workVars, req>>

\* expireOneTask: an open task past its expiry is settled under the derived
\* key expire:<task>; a second entry with that key is a unique violation.
\* (Mutant: the sweep looks for funded tasks only.)
DueAndFunded(t) == state[t] = "open" /\ due[t] /\ fund[t] > 0
DueForExpiry(t) == state[t] = "open" /\ due[t]
Expirable(t) == fund[t] > 0 => Fresh(funder[t], Derived("expire", t))
ExpireTask(t) ==
    /\ DueForExpiry(t)
    /\ Expirable(t)
    /\ RefundCredits(t)
    /\ keyed' = IF fund[t] > 0
                THEN keyed \cup {Entry(funder[t], Derived("expire", t),
                                       "task_refund", t, fund[t])}
                ELSE keyed
    /\ ReturnCollectibles(t)
    /\ ReleaseReservations(t)
    /\ state' = [state EXCEPT ![t] = "expired"]
    /\ UNCHANGED <<kind, declared, due, issued, sent, sub, bans, req>>

\* releaseExpiredReservationsInTx
\* (Mutant: the reservations of a task that is no longer open are skipped.)
ReleasedWhileOpen ==
    [r \in Reservations |->
       IF /\ res[r].state = "active" /\ res[r].lapsed
          /\ state[res[r].task] = "open"
       THEN [res[r] EXCEPT !.state = "expired"]
       ELSE res[r]]
Released ==
    [r \in Reservations |->
       IF res[r].state = "active" /\ res[r].lapsed
       THEN [res[r] EXCEPT !.state = "expired"]
       ELSE res[r]]

ExpireDueReservations ==
    /\ Released # res
    /\ res' = Released
    /\ UNCHANGED <<taskVars, escrowVars, ledgerVars, collectibleVars, sub,
                   bans, req>>

-----------------------------------------------------------------------------
(* Reservations and submissions.                                           *)

\* Who may be named on a reservation of t, on whose behalf the requester acts.
Assignees(t) ==
    IF Scope[t] = "user"
    THEN Users \ {Creator[t]}
    ELSE {m \in Teams : Members[m] \ {Creator[t]} # {}}

\* reserve and CreateReservation: lapsed reservations are released first, and
\* the unique index admits one active reservation per task.
Reserve(r, t, a) ==
    /\ res[r].state = "absent"
    /\ state[t] = "open"
    /\ Policy[t] = "reservation_required"
    /\ a \in Assignees(t)
    /\ <<t, a>> \notin bans
    /\ \A x \in Reservations :
         ~(Released[x].task = t /\ Released[x].state = "active")
    /\ res' = [Released EXCEPT ![r] = [state |-> "active", task |-> t,
                                       assignee |-> a, lapsed |-> FALSE]]
    /\ UNCHANGED <<taskVars, escrowVars, ledgerVars, collectibleVars, sub,
                   bans, req>>

\* CancelReservation: the holder and the task's owner record different ends.
CancelReservation(r, end) ==
    /\ Released[r].state = "active"
    /\ res' = [Released EXCEPT ![r].state = end]
    /\ UNCHANGED <<taskVars, escrowVars, ledgerVars, collectibleVars, sub,
                   bans, req>>

\* The assignee is the user, or a team the user belongs to.
ActsFor(u, a) == a = u \/ (a \in Teams /\ u \in Members[a])

\* CheckSubmissionEligibility, after it released the lapsed reservations.
Eligible(t, u) ==
    /\ <<t, u>> \notin bans
    /\ \/ Policy[t] = "open"
       \/ \E r \in Reservations : /\ Released[r].task = t
                                  /\ Released[r].state = "active"
                                  /\ ActsFor(u, Released[r].assignee)

\* Submit checks the task and the submitter, outside any transaction.
BeginSubmit(q, t, u) ==
    /\ req[q] = Idle
    /\ state[t] = "open"
    /\ Eligible(t, u)
    /\ res' = Released
    /\ req' = [req EXCEPT ![q] = [op |-> "submit", task |-> t, user |-> u]]
    /\ UNCHANGED <<taskVars, escrowVars, ledgerVars, collectibleVars, sub, bans>>

\* CreateSubmission: only a schema-valid response consumes the submitter's
\* own active reservation; a team's reservation stays active.
CreateSubmission(q, s, outcome) ==
    LET t == req[q].task
        u == req[q].user
    IN  /\ req[q].op = "submit"
        /\ sub[s].state = "absent"
        /\ req' = [req EXCEPT ![q] = Idle]
        /\ sub' = [sub EXCEPT ![s] = [state |-> outcome, task |-> t,
                                      user |-> u]]
        /\ res' = [r \in Reservations |->
                     IF /\ outcome = "submitted"
                        /\ res[r].task = t /\ res[r].assignee = u
                        /\ res[r].state = "active"
                     THEN [res[r] EXCEPT !.state = "submitted"]
                     ELSE res[r]]
        /\ UNCHANGED <<taskVars, escrowVars, ledgerVars, collectibleVars, bans>>

-----------------------------------------------------------------------------
(* Review.  The idempotency key a review stores on its submission only      *)
(* tells a replay from a refusal; neither writes, so it is not kept.        *)

\* lockTaskForReview: the creator, the owning organization's reviewers, or
\* the organization itself through its credential.
Reviewers(t) ==
    {Creator[t]} \cup
    (IF OwnerOrg[t] = None THEN {} ELSE Staff[OwnerOrg[t]] \cup {OwnerOrg[t]})

\* Work is reviewed once.
Reviewable(t, s) == sub[s].task = t /\ sub[s].state = "submitted"

\* payCreditTip out of balances b: a user tips from a sufficient balance.
\* (Mutant: the balance is not checked.)
TipUncovered(b, v, w, k, tip) ==
    tip > 0 => /\ v \in Users
               /\ Fresh(v, Derived("tip-debit", k))
               /\ Fresh(w, Derived("tip-credit", k))
TipAllowed(b, v, w, k, tip) ==
    tip > 0 => /\ v \in Users
               /\ b[v] >= tip
               /\ Fresh(v, Derived("tip-debit", k))
               /\ Fresh(w, Derived("tip-credit", k))

TipEntries(v, w, t, k, tip) ==
    IF tip = 0 THEN {}
    ELSE {Entry(v, Derived("tip-debit", k), "task_tip", t, -tip),
          Entry(w, Derived("tip-credit", k), "task_tip", t, tip)}

\* payReviewFund: a payout of n from the fund row of t, under the bare key.
\* (Mutant: the payout may exceed the fund.)
PayoutUncapped(w, t, k, n) == n > 0 => Fresh(w, Bare(k))
PayoutAllowed(w, t, k, n) ==
    /\ n <= fund[t]
    /\ n > 0 => Fresh(w, Bare(k))

PayoutEntries(w, t, k, n) ==
    IF n = 0 THEN {} ELSE {Entry(w, Bare(k), "task_payout", t, n)}

\* The unique index on accepted submissions admits one per task.
\* (Mutant: the index is missing.)
AcceptUnchecked(t) == TRUE
NoneAccepted(t) ==
    \A x \in Submissions : ~(sub[x].task = t /\ sub[x].state = "accepted")

\* The payout the reviewer selects, and the balances once it is made and the
\* rest of the fund is back with its funder.
Payout(t, pay) == IF pay = 0 THEN fund[t] ELSE pay
Settled(w, t, n) == Posted(Posted(balance, w, n), funder[t], fund[t] - n)

\* AcceptSubmission: pay = 0 selects the full escrow, pay > 0 a part of it
\* with the rest refunded; the task closes and competing work is superseded.
AcceptSubmission(v, t, s, k, pay, tip, gift) ==
    LET w == sub[s].user
        n == Payout(t, pay)
        paid == Settled(w, t, n)
        owner == [c \in Collectibles |-> IF c \in HeldFor(t) THEN w ELSE cowner[c]]
    IN  /\ v \in Reviewers(t)
        /\ Reviewable(t, s)
        /\ state[t] = "open"
        /\ NoneAccepted(t)
        /\ PayoutAllowed(w, t, k, n)
        /\ kind[t] \in CreditKinds => fund[t] > 0 \/ HeldFor(t) # {}
        /\ TipAllowed(paid, v, w, k, tip)
        /\ gift # None =>
             /\ v \in Users
             /\ \/ owner[gift] = w
                \/ owner[gift] = v /\ cstate[gift] = "minted" /\ gift \in Giftable
        /\ sub' = [x \in Submissions |->
                     CASE x = s -> [sub[x] EXCEPT !.state = "accepted"]
                       [] x # s /\ sub[x].task = t /\ sub[x].state = "submitted"
                            -> [sub[x] EXCEPT !.state = "superseded"]
                       [] OTHER -> sub[x]]
        /\ state' = [state EXCEPT ![t] = "closed"]
        /\ fund' = [fund EXCEPT ![t] = 0]
        /\ funder' = [funder EXCEPT ![t] = None]
        /\ books' = [books EXCEPT ![t] = @ - n - (fund[t] - n)]
        /\ balance' = Transferred(paid, v, w, tip)
        /\ keyed' = keyed \cup PayoutEntries(w, t, k, n)
                          \cup TipEntries(v, w, t, k, tip)
        /\ cstate' = [c \in Collectibles |->
                        IF c \in HeldFor(t) THEN "minted" ELSE cstate[c]]
        /\ cowner' = [c \in Collectibles |-> IF c = gift THEN w ELSE owner[c]]
        /\ held' = {p \in held : p[1] # t}
        /\ UNCHANGED <<kind, declared, due, issued, sent, res, bans, req>>

\* The reservations a request for changes puts back to active.
\* (Mutant: the ones that expired too.)
ReactivatedIfExpired(t, w) ==
    {r \in Reservations : /\ res[r].task = t /\ res[r].assignee = w
                          /\ res[r].state \in {"submitted", "expired"}}
Reactivated(t, w) ==
    {r \in Reservations : /\ res[r].task = t /\ res[r].assignee = w
                          /\ res[r].state = "submitted"}

\* One active reservation per task: the unique index refuses a second one.
\* (Mutant: the index is missing.)
ReactivationUnchecked(t, w) == TRUE
ReactivationAllowed(t, w) ==
    Reactivated(t, w) # {} =>
      /\ \A r1, r2 \in Reactivated(t, w) : r1 = r2
      /\ \A r \in Reservations : ~(res[r].task = t /\ res[r].state = "active")

RequestChanges(t, s) ==
    LET w == sub[s].user
    IN  /\ state[t] = "open"
        /\ Reviewable(t, s)
        /\ ReactivationAllowed(t, w)
        /\ sub' = [sub EXCEPT ![s].state = "changes_requested"]
        /\ res' = [r \in Reservations |->
                     IF r \in Reactivated(t, w)
                     THEN [res[r] EXCEPT !.state = "active"]
                     ELSE res[r]]
        /\ UNCHANGED <<taskVars, escrowVars, ledgerVars, collectibleVars,
                       bans, req>>

\* A rejection ends the worker's own reservations of the task.
\* (Mutant: only an active one.)
EndActiveReservations(t, w) ==
    res' = Dropped({r \in HeldReservations(t, {"active"}) : res[r].assignee = w})
EndReservations(t, w) ==
    res' = Dropped({r \in HeldReservations(t, Held) : res[r].assignee = w})

\* RejectSubmission: a part of the escrow may be paid for the effort, the
\* rest stays set aside; the worker's reservations end, a ban is optional.
RejectSubmission(v, t, s, k, pay, tip, ban) ==
    LET w == sub[s].user
        paid == Posted(balance, w, pay)
    IN  /\ v \in Reviewers(t)
        /\ state[t] = "open"
        /\ Reviewable(t, s)
        /\ PayoutAllowed(w, t, k, pay)
        /\ TipAllowed(paid, v, w, k, tip)
        /\ ban => v \in Users
        /\ sub' = [sub EXCEPT ![s].state = "rejected"]
        /\ fund' = [fund EXCEPT ![t] = @ - pay]
        /\ funder' = [funder EXCEPT ![t] = IF fund[t] = pay THEN None ELSE @]
        /\ books' = [books EXCEPT ![t] = @ - pay]
        /\ balance' = Transferred(paid, v, w, tip)
        /\ keyed' = keyed \cup PayoutEntries(w, t, k, pay)
                          \cup TipEntries(v, w, t, k, tip)
        /\ EndReservations(t, w)
        /\ bans' = IF ban THEN bans \cup {<<t, w>>} ELSE bans
        /\ UNCHANGED <<taskVars, issued, sent, collectibleVars, req>>

-----------------------------------------------------------------------------
(* Credits and collectibles that move outside a task.                      *)

\* GrantCredits: a platform administrator's manual_adjustment.
GrantCredits(a, n, k) ==
    /\ issued + n <= CreditSupply
    /\ Fresh(a, Bare(k))
    /\ balance' = Posted(balance, a, n)
    /\ keyed' = keyed \cup {Entry(a, Bare(k), "manual_adjustment", None, n)}
    /\ issued' = issued + n
    /\ UNCHANGED <<taskVars, escrowVars, sent, collectibleVars, workVars, req>>

\* PeerTransfer: a double entry under two keys derived from the client's,
\* within the sender's balance and daily ceiling.
SendCovered(a, n) == balance[a] >= n /\ sent[a] + n <= DailyCeiling
PeerTransfer(a, b, n, k) ==
    /\ a # b
    /\ Fresh(a, Derived("send-debit", k))
    /\ SendCovered(a, n)
    /\ Fresh(b, Derived("send-credit", k))
    /\ balance' = Transferred(balance, a, b, n)
    /\ keyed' = keyed \cup
         {Entry(a, Derived("send-debit", k), "peer_transfer", None, -n),
          Entry(b, Derived("send-credit", k), "peer_transfer", None, n)}
    /\ sent' = [sent EXCEPT ![a] = @ + n]
    /\ UNCHANGED <<taskVars, escrowVars, issued, collectibleVars, workVars, req>>

GiftCollectible(c, u) ==
    /\ cowner[c] # u
    /\ cstate[c] = "minted"
    /\ c \in Giftable
    /\ cowner' = [cowner EXCEPT ![c] = u]
    /\ UNCHANGED <<taskVars, escrowVars, ledgerVars, cstate, held, workVars, req>>

WithdrawCollectible(c) ==
    /\ cstate[c] = "minted"
    /\ cstate' = [cstate EXCEPT ![c] = "withdrawn"]
    /\ UNCHANGED <<taskVars, escrowVars, ledgerVars, cowner, held, workVars, req>>

ReleaseCollectible(c) ==
    /\ cstate[c] = "withdrawn"
    /\ cstate' = [cstate EXCEPT ![c] = "minted"]
    /\ UNCHANGED <<taskVars, escrowVars, ledgerVars, cowner, held, workVars, req>>

-----------------------------------------------------------------------------
Targets == {"open", "draft", "cancelled"}
ReservationEnds == {"cancelled_by_worker", "cancelled_by_requester"}

FundingStep ==
    \E t \in Tasks :
      \/ \E chosen \in SUBSET Collectibles : CreateTask(t, chosen)
      \/ \E n \in Amounts, k \in Keys : FundTask(t, n, k)
      \/ \E n \in Amounts, k \in Keys : FundTaskFromOrganization(t, n, k)
      \/ \E c \in Collectibles : FundCollectibleReward(t, c)
      \/ \E k \in Keys : RefundTask(t, k)
      \/ RefundCollectibleReward(t)

LifecycleStep ==
    \/ \E q \in Requests, t \in Tasks, target \in Targets :
         BeginChangeState(q, t, target)
    \/ \E q \in Requests : OpenTask(q) \/ UnpublishTask(q) \/ CancelTask(q)
    \/ \E t \in Tasks : TaskFallsDue(t) \/ ExpireTask(t)

WorkStep ==
    \/ \E r \in Reservations, t \in Tasks, a \in Users \cup Teams : Reserve(r, t, a)
    \/ \E r \in Reservations, end \in ReservationEnds : CancelReservation(r, end)
    \/ \E r \in Reservations : ReservationLapses(r)
    \/ ExpireDueReservations
    \/ \E q \in Requests, t \in Tasks, u \in Users : BeginSubmit(q, t, u)
    \/ \E q \in Requests, s \in Submissions, outcome \in {"submitted", "invalid"} :
         CreateSubmission(q, s, outcome)

ReviewStep ==
    \E t \in Tasks, s \in Submissions, k \in Keys :
      \/ \E v \in Accounts, pay, tip \in Amounts \cup {0},
            gift \in Collectibles \cup {None} :
           AcceptSubmission(v, t, s, k, pay, tip, gift)
      \/ RequestChanges(t, s)
      \/ \E v \in Accounts, pay, tip \in Amounts \cup {0}, ban \in BOOLEAN :
           RejectSubmission(v, t, s, k, pay, tip, ban)

MovementStep ==
    \/ \E a \in Accounts, n \in Amounts, k \in Keys : GrantCredits(a, n, k)
    \/ \E a, b \in Accounts, n \in Amounts, k \in Keys : PeerTransfer(a, b, n, k)
    \/ NewDay
    \/ \E c \in Collectibles :
         \/ \E u \in Users : GiftCollectible(c, u)
         \/ WithdrawCollectible(c)
         \/ ReleaseCollectible(c)

Next == FundingStep \/ LifecycleStep \/ WorkStep \/ ReviewStep \/ MovementStep

Spec == Init /\ [][Next]_vars

\* ExpireDueTasks takes the due tasks in the order of their expires_at and gives
\* up at the first it cannot expire: a pass reaches t if that is none of those
\* before it.
SweepReaches(t) ==
    \A u \in Tasks : DueForExpiry(u) /\ u # t /\ ~ExpiresBefore(t, u) => Expirable(u)

\* The lifecycle runner repeats both sweeps on a fixed cadence.
Fairness ==
    /\ \A t \in Tasks : WF_vars(SweepReaches(t) /\ ExpireTask(t))
    /\ WF_vars(ExpireDueReservations)

FairSpec == Spec /\ Fairness

-----------------------------------------------------------------------------
(* Safety.                                                                 *)

KeySet == [use : KeyUses, id : Keys \cup Tasks]
EntrySet == [acct : Accounts, key : KeySet, kind : EntryKinds,
             task : Tasks \cup {None}, amount : Int]

TaskTypes ==
    /\ state \in [Tasks -> TaskStates]
    /\ kind \in [Tasks -> RewardKinds]
    /\ declared \in [Tasks -> Nat]
    /\ due \in [Tasks -> BOOLEAN]
EscrowTypes ==
    /\ fund \in [Tasks -> Nat]
    /\ funder \in [Tasks -> Accounts \cup {None}]
    /\ \A t \in Tasks : fund[t] > 0 => funder[t] # None
    /\ books \in [Tasks -> Int]
LedgerTypes ==
    /\ balance \in [Accounts -> Int]
    /\ keyed \subseteq EntrySet
    /\ issued \in Nat
    /\ sent \in [Accounts -> Nat]
CollectibleTypes ==
    /\ cstate \in [Collectibles -> CollectibleStates]
    /\ cowner \in [Collectibles -> Users]
    /\ held \subseteq Tasks \X Collectibles
SubmissionSet ==
    {NoSubmission} \cup [state : SubmissionStates \ {"absent"}, task : Tasks,
                         user : Users]
ReservationSet ==
    {NoReservation} \cup [state : ReservationStates \ {"absent"}, task : Tasks,
                          assignee : Users \cup Teams, lapsed : BOOLEAN]
RequestSet ==
    {Idle} \cup [op : Targets, task : Tasks, user : {None}]
           \cup [op : {"submit"}, task : Tasks, user : Users]
WorkTypes ==
    /\ sub \in [Submissions -> SubmissionSet]
    /\ res \in [Reservations -> ReservationSet]
    /\ bans \subseteq Tasks \X Users
    /\ req \in [Requests -> RequestSet]

\* The shape of every row.  A fund row has a funder and is never negative
\* (task_funds_credit_amount_check), and rows refer to rows that exist.
TypeOK ==
    /\ TaskTypes
    /\ EscrowTypes
    /\ LedgerTypes
    /\ CollectibleTypes
    /\ WorkTypes

\* No account is ever overdrawn: funding, tips and sends all spend from a
\* balance summed inside their own transaction, after what it already paid.
NoOverdraft == \A a \in Accounts : balance[a] >= 0

\* The ledger's entries for a task and its task_funds row agree: what was
\* paid in and not yet paid out or refunded is exactly what the row holds.
TaskBooks == \A t \in Tasks : books[t] = fund[t]

\* Credits are neither created nor destroyed: balances and escrow add up to
\* the signup grants and what administrators issued.
Conservation ==
    SumFunction(balance) + SumFunction(fund) = Cardinality(Accounts) * InitialCredits + issued

\* Only a task that can still be awarded, cancelled or refunded holds escrow,
\* so no credits or collectibles are stranded on a finished task.
NoOrphanedEscrow ==
    \A t \in Tasks :
      fund[t] > 0 \/ HeldFor(t) # {} => state[t] \in {"draft", "open"}

\* The reward kind of a task names everything that is set aside for it, so a
\* path that settles by kind (refunding a collectible reward) misses nothing.
RewardRecorded ==
    \A t \in Tasks :
      /\ fund[t] > 0 => kind[t] \in CreditKinds
      /\ HeldFor(t) # {} => kind[t] \in CollectibleKinds

\* A collectible is escrowed exactly when one task, and only one, holds it.
EscrowExclusive ==
    \A c \in Collectibles :
      /\ cstate[c] = "escrowed" <=> \E t \in Tasks : <<t, c>> \in held
      /\ \A t1, t2 \in Tasks : <<t1, c>> \in held /\ <<t2, c>> \in held => t1 = t2

\* What an open task promises is set aside for it: its collectibles, and its
\* credits in full unless a rejected submission was already paid from them.
OpenRewardBacked ==
    \A t \in Tasks : state[t] = "open" =>
      /\ kind[t] \in CollectibleKinds => HeldFor(t) # {}
      /\ kind[t] \in CreditKinds =>
           \/ fund[t] = declared[t]
           \/ \E e \in keyed : e.task = t /\ e.kind = "task_payout"

\* At most one submission of a task is ever accepted, even when a stale
\* unpublish reopens a closed task for a second round of review.
OneAccepted ==
    \A s1, s2 \in Submissions :
      /\ sub[s1].state = "accepted" /\ sub[s2].state = "accepted"
      /\ sub[s1].task = sub[s2].task
      => s1 = s2

\* At most one reservation of a task is active, whether it was just made or
\* put back by a request for changes.
OneActiveReservation ==
    \A r1, r2 \in Reservations :
      /\ res[r1].state = "active" /\ res[r2].state = "active"
      /\ res[r1].task = res[r2].task
      => r1 = r2

\* A user banned from a task holds no reservation of it and never regains one.
NoBannedHolder ==
    \A r \in Reservations :
      res[r].state \in Held => <<res[r].task, res[r].assignee>> \notin bans

\* A cancelled or expired task leaves no worker recorded as holding it.
NoDanglingReservation ==
    \A r \in Reservations, t \in Tasks :
      /\ res[r].state \in Held /\ res[r].task = t
      => state[t] \notin {"cancelled", "expired"}

\* A reservation waiting on review has work of its holder waiting too, unless
\* the task was already awarded: no rejection or request for changes leaves
\* a worker parked in the submitted state.
SubmittedAwaitsReview ==
    \A r \in Reservations :
      res[r].state = "submitted" =>
        \E s \in Submissions :
          /\ sub[s].task = res[r].task
          /\ \/ sub[s].state = "submitted" /\ sub[s].user = res[r].assignee
             \/ sub[s].state = "accepted"

-----------------------------------------------------------------------------
(* What a step may never do.                                               *)

\* A reservation that expired or was cancelled never comes back.
EndedReservationsStayEnded ==
    [][\A r \in Reservations :
         res[r].state \notin Held \cup {"absent"} => res'[r] = res[r]]_vars

\* Escrowed credits leave a task only for the account that funded it or for
\* a user whose submission to that task was awaiting review.
EscrowGoesToFunderOrWorker ==
    [][\A t \in Tasks, a \in Accounts :
         fund'[t] < fund[t] /\ balance'[a] > balance[a] =>
           \/ a = funder[t]
           \/ \E s \in Submissions : /\ sub[s].task = t /\ sub[s].user = a
                                     /\ sub[s].state = "submitted"]_vars

-----------------------------------------------------------------------------
(* What must eventually happen.                                            *)

\* A lapsed reservation does not stay active: some release reaches it.
LapsedReservationsEnd ==
    \A r \in Reservations :
      res[r].state = "active" /\ res[r].lapsed
        ~> ~(res[r].state = "active" /\ res[r].lapsed)

\* The key of t's own expiry was not spent by an earlier one.
Unswept(t) == \A a \in Accounts : Fresh(a, Derived("expire", t))

\* An open task past its expiry leaves the open state, if it was not expired and
\* refunded before, unless a task the sweep takes first keeps failing: that one
\* holds up every pass.
UnsweptTasksExpire ==
    \A t \in Tasks :
      <>[]SweepReaches(t) =>
        (state[t] = "open" /\ due[t] /\ Unswept(t) ~> state[t] # "open")

\* What the comment on ExpireDueTasks promises: every open task past its expiry is
\* expired, at least if it never was before.  It does not hold: a task expired
\* once, reopened and funded again fails each pass ahead of those due after it.
DueTasksExpire ==
    \A t \in Tasks :
      state[t] = "open" /\ due[t] /\ Unswept(t) ~> state[t] # "open"
=============================================================================
