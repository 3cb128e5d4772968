# Sharecrop in TLA+

Sharecrop is a marketplace in which requesters fund tasks with credits and
collectibles, workers reserve tasks and submit work, and reviewers accept it,
ask for changes or reject it. Its server (Go, Postgres; SQLite and WASI variants
of the same stores) keeps everything in one database, and everything that must
be right about money and work happens in the transactions of `internal/db`.
Several replicas of the server run against that database, and each runs the
background sweeps too.

This directory holds TLA+ models of that core and of the parts around it that
keep state of their own (webhooks, sessions, agent budgets, MCP sessions,
organizations), the TLC runs that check them on small instances, and TLAPS proofs
of every safety property that passes, for instances of every size. Two more runs, and
eight configurations beside them, state what a comment or a document of the repository
promises and TLC refutes.

## Inventory

| Part | State | Operations | Talks to |
|---|---|---|---|
| Tasks (`internal/task`, `db/task_store.go`) | `tasks`: state, reward kind and amount, expiry | create, open, unpublish, cancel, expire | escrow, collectibles, reservations, outbox |
| Reservations (`db/task_store.go`) | `task_reservations`, `task_implementor_bans` | reserve, cancel, lapse, release, consume, reactivate | tasks, submissions, review |
| Submissions (`internal/submission`, `db/submission_store.go`) | `submissions` | submit (checked outside, written inside a transaction) | tasks, reservations |
| Review (`db/ledger_store.go`) | submission states, payouts, bans | accept, request changes, reject | every table above |
| Credit ledger and escrow (`internal/ledger`, `db/ledger_store*.go`) | `ledger_entries`, `task_funds` | fund (user or organization), refund, grant, peer transfer, tip | tasks, review |
| Collectibles (`db/collectible_store.go`) | `collectibles`, `task_fund_collectibles` | escrow, award, return, gift, withdraw, release | tasks, review |
| Lifecycle sweeps (`db/task_lifecycle_sweeps.go`, `cmd/sharecrop/lifecycle.go`, `internal/runner`) | none of their own | expire tasks, expire reservations, dispatch events, pump webhooks, evict | all of the above |
| Event outbox and feed (`internal/event`, `db/event_store.go`, `http/events.go`) | `domain_events`, recipients, `domain_event_fence` | record, dispatch, retire, claim, page by cursor | every mutation, notifications, webhooks |
| Notifications (`internal/notification`) | `notifications` | create from an event, mark read | outbox |
| Webhooks (`internal/webhook`, `internal/webhookdispatch`) | subscriptions, deliveries | subscribe, revoke, expand, claim, post, mark, retry, dead-letter | outbox, receivers |
| Work budgets (`internal/agent`, `db/agent_store.go`, `db/work_budget_store.go`) | agent credentials and their policies, daily counters | verify, charge, refuse, change policy, evict | ledger, reservations, submissions |
| Authentication (`internal/auth`, `db/auth_store.go`, `db/oidc_session_store.go`, `http/shauth.go`) | users, credentials, refresh-token families, provider sessions, account tokens | register, log in, refresh, log out, verify (signup grant), reset, deactivate | ledger, the identity provider |
| MCP sessions (`http/mcp_sessions.go`, `db/mcp_session_store.go`) | session rows, events, a cache in each process | create, touch, terminate, append, replay, poll, sweep | agents' clients |
| Organizations (`internal/org`, `internal/orgcred`, `db/org_store.go`) | memberships, roles, teams, credentials | create, provision, deactivate, change roles, mint and revoke credentials | tasks, ledger |
| Task series, rate limits, privacy, moderation, HTTP, WASI bridges | their own tables | see `PROJECT.json` | |

### What is hard here

* **Decisions on stale reads.** Changing a task's state and submitting work
  validate a row read *before* the transaction that writes. Any other handler or
  sweep may commit in between.
* **Many ways to settle one escrow.** Accept, partial rejections, refund, cancel
  and expiry all empty the same `task_funds` row and the same collectibles, and
  each writes its own kind of ledger entry.
* **Idempotency keys.** Keys are unique per account; tips, peer transfers and the
  expiry sweep derive keys from others.
* **Reservations that lapse at any moment** while work on them is under review,
  is sent back, or the worker is banned.
* **The outbox.** A crash after a commit loses the inline dispatch; the sweeps of
  all replicas race with slow inline dispatches and with each other; feed readers
  move cursors over sequence numbers that are allocated before they commit.
* **Webhook holds that lapse.** A pump slower than the hold of its claim shares its
  deliveries with the next one, and either may crash between a request and its
  record.
* **Passes that stop at the first failure.** One task that cannot be expired ends the
  expiry sweep, and one delivery that does not parse rolls back a claim: what comes
  after it in the order of the list waits.
* **Reads that fail.** Where the roles of a target cannot be read, a request goes on
  without the checks that depended on them.
* **Checks far from their writes.** Organization roles, MCP session caps, agent
  policies and logins are decided on reads that other requests, and other
  replicas, may have overtaken by the time of the write.
* **Streams over a trimmed window.** MCP events are kept up to a limit, listed by
  two statements, sent through a channel that may be full, and swept by two
  statements between which their session may be used.

The hazards are listed one by one, at their lines, in `PROJECT.json`.

## Modules

| Module | Contents |
|---|---|
| `Marketplace` | tasks, escrow, ledger, collectibles, reservations, submissions, review, the two expiry sweeps |
| `Escrow` | abstract specification: what is promised about credits and collectibles, with no word of tasks' states, reviews, keys or requests |
| `MarketEscrow` | the refinement mapping from `Marketplace` to `Escrow` |
| `MCMarketplace` | its instances for TLC |
| `MarketplaceProofs` | type correctness, reservations, bans, awards |
| `EscrowProofs` | balances, books, collectibles, rewards, the refinement of `Escrow`, conservation |
| `EventOutbox` | recording behind the fence, dispatch, recovery sweeps, cursor feeds |
| `MCEventOutbox` | its instances for TLC |
| `EventOutboxProofs` | all safety properties of the outbox |
| `Webhooks`, `MCWebhooks`, `WebhooksProofs` | subscriptions, expansion, the pumps of all replicas, the retry walk |
| `Sessions`, `MCSessions`, `SessionsProofs` | accounts, refresh-token families, provider sessions, account tokens |
| `AgentWork`, `MCAgentWork`, `AgentWorkProofs` | one user's agent credentials, their policies, day counters and reservations |
| `McpSessions`, `MCMcpSessions`, `McpSessionsProofs` | MCP session rows, the caches of several processes, events and streams |
| `Organizations`, `MCOrganizations`, `OrganizationsProofs` | one organization's members, roles, team and credentials |

### How `Marketplace` corresponds to the code

One action is one *committed transaction* of a handler, with everything that
transaction writes. A refused request rolls back and changes nothing, so refusals
and idempotent replays (which return the earlier result without writing) are
stuttering steps. The stores lock the task row (`FOR UPDATE`), the account row
and the collectible row before they decide, so a transaction that commits
behaves as if it ran alone; what is *not* protected this way is modelled as
separate steps:

* `BeginChangeState` / `OpenTask`, `UnpublishTask`, `CancelTask`:
  `Service.changeState` validates on a task it read earlier
  (`task/service.go`), `ChangeTaskState` locks the row and writes the target
  predicated on the state it has just locked, whatever that is.
* `BeginSubmit` / `CreateSubmission`: `Service.Submit` checks the task, the
  reservation and bans, and `CreateSubmission` only inserts.

The request between its two halves is a slot of `req`; `Requests` bounds how many
are in flight.

Data is kept to what the properties tell apart. `fund` and `funder` are the
`task_funds` row (0 for no row), `balance` is the sum of an account's ledger
entries, `books` what the ledger's fund, payout and refund entries of a task add
up to, `keyed` the entries that carry an idempotency key. `books` is history the
code can compute but does not store; it is updated where the code inserts an
entry and never read by an action. Clocks are two facts that may become true at
any time, `due` and `lapsed`. `Expires` is the order of `expires_at`: an expiry pass
takes the due tasks in that order, each in a transaction of its own (`ExpireTask`), and
ends at the first it cannot expire (`Expirable`, `SweepReaches`). `sent` is today's peer-transfer counter and
`NewDay` its window.

Simplifications that lose nothing here: where the code lets any of several
callers act (the creator, a holder, an administrator) and their identity leaves
no trace in the modelled tables, the guard asks only for what the most permitted
one needs (the creator may always request a refund or changes). A `pay` of 0 in
an accept selects the full escrow, as `acceptCreditSelection` does. Collectibles
are non-unique catalog items owned by users.

### How `EventOutbox` corresponds to the code

One action is one statement or transaction, because here the point is what
happens between them. `Record` is `insertDomainEventInTx`: take the fence row,
allocate the next `seq`, which never rolls back. `Commit` makes the rows visible
and starts the inline `Recorder.Dispatch`. `Retire` and `Claim` are the two
statements of `ListRecordedBefore`; `Notify` is one inbox insert, which may fail;
`Dispatch` is `EventStore.Dispatch`, in which webhook expansion and the flip of
the row are one transaction that may fail. `Crash` ends a handler or a sweep at
any point. `Read` serves a page, or a stream that breaks in the middle of one,
and leaves the cursor at the last event served.

Under Postgres's READ COMMITTED a claim may wait for a row another replica is
flipping and then count an attempt on it; the outcome is that of the claim
having come first, so claims are atomic in the model. Rows that no longer parse
are a nondeterministic choice (`readable`). An event is its addressing: who sees
it and who among them gets an inbox row.

### What `Escrow` promises, and how `Marketplace` implements it

`Escrow` has purses, pots and items. A pot is filled by one payer at a time; what
is in it leaves by an award (a part to a worker, the rest to the payer, and all
items to the worker, at once), by a compensation (a part to a worker) or by a
return (everything to the payer). Purses are never overspent, and credits come
from nowhere but an issue. `MarketEscrow` maps a pot to what the *ledger entries*
of a task add up to (`books`), not to the `task_funds` row the handlers read; its
payer to the row's funder, and a pledge to the row of `task_fund_collectibles`.
Accept is an award, a rejection with a payout a compensation, and refund, cancel
and expiry are returns; opening, unpublishing, reserving, submitting and asking
for changes are stuttering steps. The refinement is a property of the runs
`Settlement` and `Movements`, and is proved in `EscrowProofs`.

### How `Webhooks` corresponds to the code

`DispatchEvent` is `expandWebhookDeliveries` inside `EventStore.Dispatch`: matching,
inserting and flipping the event in one transaction. A match is data
(`Recipients`, `Market`), except that a marketplace match also asks whether the
task is open at that moment (`open`). `due` is the order of `next_attempt_at` of
the rows that have come due; time is the action `ComesDue`, which stands for a
retry delay that has passed and for a hold that has lapsed alike, so a claim gives
no exclusivity. `ClaimDueDeliveries(p, k)` takes the oldest due rows, or those behind
`k` batches that overlapping claims have locked, and copies the attempt counts. `garbled`
are the deliveries whose rows do not parse, any set of them, chosen at the start: a claim
that meets one rolls back, which changes nothing. `PostDelivery` is
one request, `MarkDelivery` writes under the copied count while the row is
pending, `MarkIgnored` is an update that fails or finds no pending row. `acked`,
`failures` and `missed` are history. `EventOutbox` has the rest of a dispatch, and
its leg "expanded" is this module's `DispatchEvent`.

### How `Sessions` corresponds to the code

A transaction is a step, and a request that needs several leaves a trace between
them: a token is "minted" between the decision to issue it and the insert, and "overtaken" when its session is
ended in that time, which no row shows; a mail
is a "draft" while its transaction holds the rows it revokes, a password change
has "accepted" and "hashed" stages because `UpdatePassword` is two statements. A
family is named by its first token. `held` are the tokens a client was given; a
provider login gives its first one only after the provider session is stored.
Access tokens carry no state. Reasons a mail is no longer good are not told apart.

### How `AgentWork` corresponds to the code

`VerifyCredential` gives the request the policy of that moment, and the request
keeps it. `ReserveTask`, `SubmitDirectly` and `SpendCredits` are the part of a
transaction up to the charge, which holds the credential's row lock (`Locked`) and,
for a reservation, the task's; the upsert of the day counter locks and checks that
row too, a second protection that never waits under the first and is not a step of
its own; `Commit...` and `Rollback` end it, and only a commit
shows. `RefuseOverBudget` writes its count outside the transaction, as
`recordBudgetRefusal` does. Task types and the reward floor are the set of tasks a
policy suits. `granted`, `outdated` and `revived` are history. Deletion of old
counters is `EvictStaleWorkDayCounters`.

### How `McpSessions` corresponds to the code

A process holds its mutex for a whole store operation, waiting for the database
included, so each replica has one operation in flight (`op`) while the others run.
`BeginCreate` and `CountForSubject` are the two counts of `create`,
`CreateMCPSession` its insert. The session TTL is `recent` for a row, and for a
cached entry a free choice at each eviction. Events are their sequence numbers;
a client's `Last-Event-ID` is the number of the last event it got. A listing is two
steps, `Seek` (find the id's row) and the query. The sweep is two statements of one
transaction, `DeleteExpiredEvents` and `DeleteExpiredMCPSessions`; `sweep` is what the
first has deleted and nobody sees yet, and the rows before the cutoff, from which a
touch takes its row. `floor` and `last` bound the events kept, and the sequences of a
session left without events restart at 1. An append whose trim meets events of an open
sweep waits for it; the model lets it go first. `unsent` names the events whose
loss the code accounts for: refused by a full channel, or deleted between the two
statements.

### How `Organizations` corresponds to the code

Every statement of a request is a step: the permission check, the read of the
target's roles, the owner-tier check, the count of other owners, the write. Nothing
is locked in between. Each read may fail: the permission, owner-tier and last-owner
checks then refuse, while a failed read of the target (`ReadTarget`) counts as "not an
owner" and leads straight to the write. `stale` and `missed` are history: the roster
changed since the request was admitted, or the read of its target failed and the target
was an owner. A credential of the organization is an actor that passes every permission
check and is never an owner.

## Runs

All runs finish in at most a few minutes with two workers.

| Run | Instance | Shows |
|---|---|---|
| `Settlement` | one task, credits and a collectible, two submissions, two keys, amounts 1 and 2, one stale request | `TypeOK`, `NoOverdraft`, `Conservation`, `TaskBooks`, `OneAccepted`, `NoOrphanedEscrow`, `RewardRecorded`, `OpenRewardBacked`, `ImplementsEscrow`: every way to gather a reward, pay it in parts, tip, refund, cancel and expire, twice around when a stale unpublish reopens a closed task |
| `Reserving` | three users, three reservations, two submissions, two stale requests | `OneActiveReservation`, `NoBannedHolder`, `NoDanglingReservation`, `SubmittedAwaitsReview`, `EndedReservationsStayEnded` |
| `Sweeps` | two tasks that expire one after the other, the first an organization's and paid, the second reserved by a team; one stale request, two keys, with fairness | `EscrowGoesToFunderOrWorker` where the organization or the creator may have paid (remainders of part payments are left to the proof); `LapsedReservationsEnd`; `UnsweptTasksExpire`: a due task leaves the open state, unless one before it in the order keeps failing |
| `Movements` | two drafts of one requester, grants, peer transfers, gifts | `EscrowExclusive`, `ImplementsEscrow` when everything spends the same balance and collectible |
| `Outbox` | two handlers, two replicas, two events, one reader, cap 2, batches and pages of one, with fairness | `TypeOK`, `FeedNeverSkips`, `DispatchedReachedAll`, `AttemptsBounded`, `SettledIsFinal`, `EventsSettle` |
| `Webhooks` | a recipient and a marketplace subscription, one event, any of the rows not parsing, two pumps, two attempts, batches of one, with fairness | `EveryMatchExpanded`, `OutcomesAreEarned`, `EndedIsFinal`, and `DeliveriesSettle` where all rows parse |
| `Sessions` | a password user, a provider user, a guest, three refresh tokens, two mails | `OneTokenPerFamily`, `EndedFamilyStaysEnded`, `DeactivatedStaysSignedOut`, `GrantFollowsVerification` |
| `AgentWork` | one credential, two reservable tasks and a direct one, two policies, three requests, three days | `WithinGrantedBudget`, `CapExceededOnlyByChanges`, `PolicyChangeTakesHold` |
| `McpSessions` | two replicas, four sessions of two callers, caps 2 and 1; one of them with three events, a window of one, a stream and a channel of one | `SessionsBounded`, `NoSilentGap` |
| `Organizations` | three users, a credential, two requests at a time | `LastOwnerLostToStaleOrMissed`, `OwnersRemovedByOwners` |

Two more runs state a promise of the repository that the code does not keep; TLC finds a
behaviour that breaks it, and `PROJECT.json` quotes the promise at its line.

| Run | Refuted | How |
|---|---|---|
| `OwnerlessByFailedRead` | `NeverOwnerless`: "an organization can never be left without" an owner (`org/service.go:473`) | the read of the target's roles fails, and both checks are skipped |
| `CapAfterChanges` | `ActiveWithinCap`: the "cap on simultaneously active reservations" (`docs/api_reference.md:65`) | a request for changes puts one back beside the one made since |

The other promises found broken have a configuration each, for
`tlc -config <name>.cfg <module>`, and are kept out of `PROJECT.json`.

| Configuration, module | Refuted | How |
|---|---|---|
| `ExpiryHeldUp`, `MCMarketplace` | `DueTasksExpire`: "every open task whose expires_at instant has passed" expires (`db/task_lifecycle_sweeps.go:38`) | a task is expired with a refund, reopened by a stale unpublish and funded again; its key `expire:<task_id>` is spent, and every pass ends there, before the tasks due later |
| `GarbledDelivery`, `MCWebhooks` | `ReadableSettle`: delivery of what can be read is "at-least-once" (`db/webhook_store.go:476`) | a row that does not parse rolls back each claim and keeps its place at the head |
| `ReplayDuringRefresh`, `MCSessions` | `EndedFamilyHasNoHeir`: after a replay nobody "can keep rotating" the family (`db/auth_store.go:518`) | the successor of a refresh in flight has no row yet, and is stored active afterwards |
| `LoginDuringDeactivation`, `MCSessions` | `DeactivatedHasNoSession`: of a removed account "refresh tokens are revoked" (`docs/deletion_semantics.md:7`) | a login or refresh that passed its checks stores one afterwards |
| `ResumeAfterTrim`, `MCMcpSessions` | `ResumePicksUpLaterEvents`: a client that reconnects "picks up later events" (`http/agent_mcp.go:797`) | the event of its id was trimmed, so nothing follows it |
| `TouchDuringSweep`, `MCMcpSessions` | `EventsGoWithTheirSession`: sessions go "together with their replay events" (`db/mcp_session_store.go:139`) | a touch whose cutoff was fixed earlier keeps the row between the two statements |
| `OwnerlessByRace`, `MCOrganizations` | `LastOwnerSurvivesRaces`: the owner promise where all reads succeed | the roster changes between a request's reads and its write |
| `OwnerRemovedByAdmin`, `MCOrganizations` | `AdminsRemoveNoOwner`: managing members does not "let an admin ... remove the org's actual owners" (`org/service.go:451`) | the read of the target's roles fails, or somebody becomes an owner after it |

Why the bounds are enough. Two amounts let a payout be partial, full or too
large and leave a remainder; two tasks let the sweep meet one that fails before another; two keys let a key be reused and a second one be fresh; two submissions
let one be accepted while another is superseded, rejected or reviewed late; three
reservations let one lapse, one take its place and one be reactivated; two stale
requests let one overtake the other. Two events give the outbox a slow and a fast
transaction, a batch boundary and a page boundary; two sweepers give it a replica
that acts between another's two statements. Two pumps and two attempts let an
overtaken pump write after the other one has, on a row that is still pending or has
ended (a count that falls behind takes three attempts, and is left to the proof); three refresh tokens
let one be replayed while its successor is being stored and the one after that
minted; three requests let one charge, one be verified under an older policy and
one under the new one; four sessions let each cap be met and passed by the other
replica; three events pass a window of one twice, so that an id is kept, trimmed while it
is looked up, or gone (listings of several events are left to the proof). `FewAtATime`
bounds that run further: a process remembers one session, and events and streams occur
only while a single session is in use, since no action on a session reads the events or
streams of another; three owners are the fewest of
which two can remove each other while a third watches. The proofs remove the bounds for the
properties they cover. Keys, row ids, handlers and replicas are symmetric; the
runs with liveness (`Sweeps`, `Outbox`, `Webhooks`) use no symmetry.

Deadlock checking is off for the marketplace: an instance really ends when its
rows and keys are used up, and so do those of the other modules (ids, mails, days
or events run out). It is on for the outbox, where a sweep can always start.

The type invariants of `Webhooks`, `Sessions`, `AgentWork`, `McpSessions` and
`Organizations` hold in the same instances; no run lists them, as their proofs
establish them.

Each property has a mutant, a plausible slip in one mapped definition (a dropped
check, a forgotten row, a failed leg ignored) under which TLC finds it violated.

### Fairness

`Sweeps`, `ExpiryHeldUp`: the lifecycle runner starts both expiry sweeps
every minute on every replica, and a failing sweep never stops its loop. Lapsed
reservations are released by one statement, hence weak fairness of
`ExpireDueReservations`. A pass over the due tasks ends at the first it cannot expire;
hence weak fairness of `ExpireTask(t)` only together with `SweepReaches(t)`, that no
task before `t` (or due with it) fails. No client is assumed to do anything.

`Outbox`: weak fairness of time, of starting a pass and of continuing one;
strong fairness of the claim, because a crash may fall between the two statements
of a pass but not in every pass for ever. Inline dispatch is given no fairness at
all, notifications and store transactions may fail every time, and events still
settle because failed passes are counted.

`Webhooks`, `GarbledDelivery`: weak fairness of time (`ComesDue`) and of each
pump's claim of the head of the list, since the runner starts a pass every few seconds
on every replica and a failing one never stops the loop. A claim that would meet a row
of `garbled` is not enabled, so the fairness asks nothing of it. Strong fairness of `PostDelivery` and `MarkDelivery`: a request is
over when its timeout is, and a pump may crash or fail to write at any point but
not at the same point of every pass for ever. Receivers are given no fairness: all
requests may fail, and then the delivery ends dead.

## Seen while modelling

Places where the code and the repository's own words part, or where a reader might
expect more than the code does. Ten of them are the refuted properties of the two
tables above; the others come from reading the code beside the model. Several are the
reason a passing property is stated the way it is.

Core:

* `ChangeTaskState` locks the row "so a concurrent Cancel+Fund or Open+Refund cannot
  interleave between the checks and the write (orphaning escrow or reopening a
  cancelled task)" (`db/task_store.go:121`). The transition itself was validated by
  `Service.changeState` on an earlier read, so an unpublish or open decided before a
  cancel is written after it. No escrow is orphaned; the task does reopen.
* The expiry sweep refunds under the fixed key `expire:<task_id>`. A task that
  expired, came back to draft by a stale unpublish, was funded by the same account
  and opened again meets the unique index on every later pass, and so keeps every pass
  from the tasks due after it (`ExpiryHeldUp`).
* `docs/api_reference.md:233` says a replayed key of a task refund "returns the
  original result"; `RefundTask` checks the task's state first, and the first refund
  has cancelled the task.
* `docs/user_stories.md:27` promises a request for changes "without releasing the task
  to other implementors"; submitting frees the one-active-reservation index, and once
  another worker has reserved, the request for changes is refused.
* A submission checked while its task was open may be recorded after the task closed.
  A repeated accept looks its payout up by task and key, and may find that of an
  earlier rejection under the same key (`idempotentAccept`). Two senders who choose the
  same key for the same receiver collide on the receiver's derived key.

Webhooks: deliveries already expanded for a revoked subscription are still sent; a
pump that was overtaken writes its own, smaller attempt count back, and requests whose
pump crashed are not counted, so a receiver may get more than `MaxAttempts` requests;
one row that does not parse rejects the whole claim (`GarbledDelivery`).

Sessions: users of the identity provider have no credit account, so their email
verification is refused; a password change and the revocation of sessions are two
statements; changing the address leaves the account verified; two requests for an
account token at once may leave both mails good; a login decided before a deactivation
may store its token after it (`DeactivatedStaysSignedOut` therefore speaks of the time
after the last one in flight, and `LoginDuringDeactivation` shows the case);
a refresh under way when its session is ended has the same gap (`ReplayDuringRefresh`).

Agent work: `RequestChanges` puts a reservation back without asking the cap, so a
credential may have more active reservations than `max_concurrent_reservations`
(`CapExceededOnlyByChanges` says by how much, `CapAfterChanges` shows it); a lowered policy or a revocation does not stop requests
already verified; spending without a cap is not counted towards a cap set later that
day. The comment on `WorkPolicyDisabled` (`agent/work_policy.go:63`) says such a
credential "cannot spend credits"; `SpendOrigin` lets it spend without a daily cap, and
says so.

MCP: a session ended on one replica stays usable from the cache of another, though
no event can be appended to it; a client whose last event id was trimmed is sent
nothing more (`ResumeAfterTrim`); a session touched during a sweep loses its events and
gives their ids again (`TouchDuringSweep`); a full channel drops events while the poll's cursor moves on; a trim
between the two statements of a listing loses events; the caps are checked before the
insert and can be passed by other replicas.

Organizations: the comment on `requireNotLastActiveOwner` says "an organization can
never be left without one"; two overlapping removals can each count the other's
target, and a failed read of the target skips the count and the owner-tier check. `ProvisionMember` has no owner-tier check, so whoever manages members can
provision an owner; a deactivated member cannot be provisioned again and stays in
teams; deactivating a user's account leaves memberships as they are.

## Proofs

TLAPS checks these for every value of the constants that satisfies the named
assumptions. Finite are the replicas that sweep (`EventOutbox`) or serve
(`McpSessions`), because their number is part of the bound; the webhook
subscriptions, because a dispatch lists the deliveries it makes, and the pumps, because
those that are idle are counted; and, for
`CreditsConserved` alone, accounts and tasks, because it adds them up
(`RowsAssumption`). All other sets may be infinite.

### Marketplace

| Theorem | Statement | Inductive invariant |
|---|---|---|
| `TypeCorrect` | `[]TypeOK` | itself; a fund row is never negative because payouts are capped by it |
| `NeverOverdrawn`, `BooksBalance` | `[]NoOverdraft`, `[]TaskBooks` | both together: refunds and payouts move what the row holds, tips are checked after payouts |
| `EscrowNeverOrphaned`, `EscrowNeverShared`, `RewardAlwaysRecorded` | `[]NoOrphanedEscrow`, `[]EscrowExclusive`, `[]RewardRecorded` | all three: refunding a collectible reward settles only the collectibles, and strands no credits because the reward kind records them |
| `OpenAlwaysBacked` | `[]OpenRewardBacked` | itself, with the type invariant: opening checks what is set aside while it holds the row, funding an open task is refused, and what leaves an open task leaves a payout entry |
| `EscrowReachesFunderOrWorker` | `EscrowGoesToFunderOrWorker` | type correctness suffices; the argument goes over the five ways in which a fund row shrinks |
| `ReservedOnce`, `BannedNeverHold`, `NoHolderOnDeadTask`, `AcceptedOnce`, `ParkedOnlyUnderReview` | `[]` of the reservation invariants and `OneAccepted` | all five together; reactivation is safe for a banned worker only because a rejection also ends the reservations under review |
| `EndedForGood` | `EndedReservationsStayEnded` | type correctness: a row that is neither held nor absent is not picked up by any update |
| `MarketplaceImplementsEscrow` | `ImplementsEscrow` | the invariants above, and `FundRows`: a task with no credits has no funder. Without it a return of an empty pot would not be a step of `Escrow` |
| `CreditsConserved` | `[]Conservation` | `Conservation` with `TaskBooks`, over the steps of `Escrow` |

`CreditsConserved` uses the refinement: a step of the marketplace is a step of
`Escrow`, so only the few of those that move credits have to keep the total
(`Total`, balances plus books), and `TaskBooks` turns books into fund rows. The
sums themselves need induction over finite sets. The library's induction theorems
take an operator as a parameter, which the provers cannot instantiate; `Counting`
and `Collecting` state induction with a *set* instead (a set of numbers with 0 and
closed under successor is `Nat`; a set of finite subsets with the empty one and
closed under adding an element has them all) and follow from the well-foundedness
of `<`. `SumChanges` is what the money steps cite: two functions that differ at one
element have sums that differ by as much. Both sums take the elements in the same
(chosen) order, so no lemma about reordering is needed.

### Outbox and webhooks

| Theorem | Statement | Inductive invariant |
|---|---|---|
| `OutboxTypeCorrect` | `[]TypeOK` of `EventOutbox` | itself |
| `NoEventSkipped` | `[]FeedNeverSkips` | only the fence holder has uncommitted events, they are newer than all committed ones, and a cursor is 0 or a committed event |
| `EveryLegReached` | `[]DispatchedReachedAll` | a job that has not failed has filled the inbox of every recipient it has not left, and works on committed rows only, whose addressing no longer changes |
| `SettledForGood` | `SettledIsFinal` | from the fence invariant: a commit never writes a committed row |
| `AttemptCap` | `[]AttemptsBounded` | for a recorded row, attempts plus the passes that have retired and not yet claimed stay below the cap plus the number of replicas |
| `TypeCorrect`, `NoMatchLost`, `OutcomesEarned` (`WebhooksProofs`) | `[]TypeOK`, `[]EveryMatchExpanded`, `[]OutcomesAreEarned` | `DeliveriesAccounted`: the attempts on a row, *and those a pump has copied*, are at most the failed requests and below the limit; an outcome a pump has not yet written was really met. The copies must be in it, since an overtaken pump writes its own count |
| `EndedForGood` (`WebhooksProofs`) | `EndedIsFinal` | type correctness: updates ask for a pending row |

### Sessions, organizations, agents, MCP

| Theorem | Statement | Inductive invariant |
|---|---|---|
| `SessionsAreChains`, `GrantPaidOnce`, `TypeCorrect` (`SessionsProofs`) | `[]OneTokenPerFamily`, `[]GrantFollowsVerification`, `[]TypeOK` | `Chains`: a family has one token that is live *or about to be stored*, its first token has been issued, and its tokens share its subject |
| `FamiliesEndForGood`, `DeactivatedForGood` | `EndedFamilyStaysEnded`, `DeactivatedStaysSignedOut`: once nothing is live *or in flight* | from `Chains` and a description of what any step does to tokens (`TokensStep`): they move on, a login starts a family, or a rotation puts one token in the place of another |
| `DecisionsStand`, `LastOwnerKept`, `OwnersRemoveOwners` | `LastOwnerLostToStaleOrMissed`, `OwnersRemovedByOwners` | `Deciding`: what a request has found out so far agrees with the roster, unless the roster has changed since or the read of its target missed an owner |
| `RequestsStayCovered`, `BudgetsHold`, `CapsHold`, `PolicyTakesHold`, `TypeCorrect` (`AgentWorkProofs`) | `[]WithinGrantedBudget`, `[]CapExceededOnlyByChanges`, `PolicyChangeTakesHold`, `[]TypeOK` | a request has a policy its credential was given; one open transaction per credential; what it is about to book still fits (`Fits`), which the lock makes stable; booked counts fit *some* granted policy, and there is a most generous one, so they fit the greatest |
| `SessionsAndStreamsSound`, `CapsHold` (`McpSessionsProofs`) | `[]SessionsBounded` | `HeldBounded`: the caps plus one per other replica bound the active sessions together with those that operations in flight may still make active: inserts under way and touches whose cutoff was fixed before the row went idle. Between the statements of a sweep a row is as it was, so only its commit has to be looked at |
| `GapsAreAccounted`, `TypeCorrect` (`McpSessionsProofs`) | `[]NoSilentGap`, `[]TypeOK` | `StreamSound`: the last event got, the replay, the channel and the listing form one increasing sequence whose gaps are accounted for; with nothing listed, the cursor is at its end or ahead of it by dropped events only; a listing starts where the client or the poll has got to, at an id that was still kept when it was looked up. It speaks of the stream alone and not of the rows, so that no append, trim or sweep can disturb it |

The inductive invariants of the webhooks and of these four modules (`IInv`) were also
model-checked, in the instances of their runs or larger ones. Proof attempts that failed changed the
models in a few places: the assumption on `RoleLists` did not exclude the
empty list it meant to exclude; marking a delivery takes it out of `due` once;
the bound on events is one of each session; and the finiteness assumptions above
were made explicit.

Only model-checked: the liveness properties `LapsedReservationsEnd`,
`UnsweptTasksExpire`, `EventsSettle` and `DeliveriesSettle`, since fairness is out of
the prover's reach.

## Not modelled

Listing, search, visibility and free text; schema validation of responses (a
nondeterministic outcome); password hashing, token encoding and signatures; HTTP
routing; MCP tool calls, which parse arguments and call the services modelled here;
the WASI and in-browser bridges and their codecs, which carry the same store calls;
audit, privacy and moderation records, which are appended and never decide anything
here. Task series only refuse requests on blocked tasks. The rate limiter refuses
requests by wall-clock time. Organization-owned collectibles, minting from the catalog
and standalone teams are left out of the modules that cover their neighbours. Most of
the repository's lines are of these kinds: transport, parsing, codecs, contract
definitions and presentation.

## Plan

1. `LockOrder`: the order in which transactions take account, task, collectible and
   fence locks, and which cycles Postgres has to break (the one hazard of that kind
   that no property covers).
2. Task series and the rate limiter's integer refill.
3. The composition of `Webhooks` with `EventOutbox`, whose dispatch leg it is.
