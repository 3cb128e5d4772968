---------------------------- MODULE EventOutbox ----------------------------
(***************************************************************************)
(* The domain-event outbox: mutations record events inside their own       *)
(* transaction behind a fence row, dispatch them after the commit, and a   *)
(* recovery sweep on every replica dispatches again what was lost.  Feed   *)
(* readers follow the events by a cursor of sequence numbers.              *)
(*                                                                         *)
(* One action is one database statement or transaction; between any two of *)
(* them another handler or replica may run, and the process may crash.     *)
(* Only the marketplace mutation itself is left out: see Marketplace.      *)
(***************************************************************************)
EXTENDS Integers, FiniteSets

CONSTANTS
    Txs,        \* request handlers, one mutation transaction at a time each
    Sweepers,   \* event_dispatch sweeps, one per replica
    Users,      \* event recipients, who read their feed by cursor
    Shapes,     \* how an event may be addressed: [to, notify]
    MaxSeq,     \* bound: sequence values ever allocated
    Cap,        \* MaxEventDispatchAttempts
    Batch,      \* eventDispatchSweepBatch
    PageLimit,  \* the page limit of a feed read
    None

Seqs == 1..MaxSeq
Dispatchers == Txs \cup Sweepers
Settled == {"dispatched", "dispatch_failed"}
DispatchStates == {"absent", "recorded"} \cup Settled

\* to: the recipients stored with the event; notify: those among them who get
\* an inbox row, none for a feed-only kind and never the actor.
ASSUME ShapesAssumption ==
    Shapes \subseteq {s \in [to : SUBSET Users, notify : SUBSET Users] :
                        s.notify \subseteq s.to}

ASSUME PartiesAssumption ==
    /\ None \notin Txs
    /\ Txs \cap Sweepers = {}
    /\ IsFiniteSet(Sweepers)

ASSUME BoundsAssumption ==
    /\ MaxSeq \in Nat
    /\ Cap \in Nat \ {0}
    /\ Batch \in Nat \ {0}
    /\ PageLimit \in Nat \ {0}

VARIABLES
    seq,       \* last value of the seq sequence, which never rolls back
    fence,     \* the transaction that holds domain_event_fence
    pending,   \* events each open transaction has inserted
    dispatch,  \* dispatch_state of the committed rows
    shape,     \* the addressing of each event
    attempts,  \* dispatch_attempts
    aged,      \* events whose occurred_at is past the grace period
    inbox,     \* notifications: pairs <<event, recipient>>
    expanded,  \* events expanded into webhook deliveries
    job,       \* what each handler or sweep is dispatching
    cursor,    \* the cursor each reader resumes from
    seen       \* the events each reader was served

rowVars == <<dispatch, attempts>>
effectVars == <<inbox, expanded>>
feedVars == <<cursor, seen>>
txVars == <<seq, fence, pending, shape>>
vars == <<txVars, rowVars, aged, effectVars, job, feedVars>>

Unaddressed == [to |-> {}, notify |-> {}]
Idle == [stage |-> "idle", todo |-> {}, left |-> {}, ok |-> TRUE]
Retired == [Idle EXCEPT !.stage = "retired"]

First(events) == CHOOSE n \in events : \A m \in events : n <= m

\* Recorder.Dispatch takes its drafts in seq order, each with all its legs.
Job(events) ==
    IF events = {} THEN Idle
    ELSE [stage |-> "working", todo |-> events,
          left |-> shape[First(events)].notify, ok |-> TRUE]

Init ==
    /\ seq = 0
    /\ fence = None
    /\ pending = [x \in Txs |-> {}]
    /\ dispatch = [n \in Seqs |-> "absent"]
    /\ shape = [n \in Seqs |-> Unaddressed]
    /\ attempts = [n \in Seqs |-> 0]
    /\ aged = {}
    /\ inbox = {}
    /\ expanded = {}
    /\ job = [d \in Dispatchers |-> Idle]
    /\ cursor = [u \in Users |-> 0]
    /\ seen = [u \in Users |-> {}]

-----------------------------------------------------------------------------
(* Recording, inside the mutation's transaction.                           *)

\* The FOR UPDATE on the fence row waits for any other recording transaction.
\* (Mutant: there is no fence.)
FenceUnchecked(x) == TRUE
FenceFree(x) == fence \in {None, x}

\* insertDomainEventInTx
Record(x, s) ==
    /\ job[x] = Idle
    /\ FenceFree(x)
    /\ seq < MaxSeq
    /\ seq' = seq + 1
    /\ fence' = x
    /\ pending' = [pending EXCEPT ![x] = @ \cup {seq + 1}]
    /\ shape' = [shape EXCEPT ![seq + 1] = s]
    /\ UNCHANGED <<rowVars, aged, effectVars, job, feedVars>>

\* The rows appear in the recorded state, the fence is released, and the
\* handler goes on to dispatch its drafts inline.
Commit(x) ==
    /\ pending[x] # {}
    /\ dispatch' = [n \in Seqs |->
                      IF n \in pending[x] THEN "recorded" ELSE dispatch[n]]
    /\ pending' = [pending EXCEPT ![x] = {}]
    /\ fence' = None
    /\ job' = [job EXCEPT ![x] = Job(pending[x])]
    /\ UNCHANGED <<seq, shape, attempts, aged, effectVars, feedVars>>

\* A failed or crashed mutation leaves a gap in the sequence.
Rollback(x) ==
    /\ pending[x] # {}
    /\ pending' = [pending EXCEPT ![x] = {}]
    /\ fence' = None
    /\ UNCHANGED <<seq, shape, rowVars, aged, effectVars, job, feedVars>>

-----------------------------------------------------------------------------
(* Dispatching: inline by the handler, again by the sweeps.                *)

\* The event's occurrence instant is stamped before the commit, so the grace
\* period may be over by then.
Age(n) ==
    /\ n \notin aged
    /\ dispatch[n] = "recorded" \/ \E x \in Txs : n \in pending[x]
    /\ aged' = aged \cup {n}
    /\ UNCHANGED <<txVars, rowVars, effectVars, job, feedVars>>

Due == {n \in Seqs : dispatch[n] = "recorded" /\ n \in aged}

\* ListRecordedBefore, first statement: exhausted rows are given up.
\* (Mutant: one attempt too late.)
ExhaustedLate(n) == n \in Due /\ attempts[n] > Cap
Exhausted(n) == n \in Due /\ attempts[n] >= Cap
Retire(w) ==
    /\ job[w] = Idle
    /\ dispatch' = [n \in Seqs |->
                      IF Exhausted(n) THEN "dispatch_failed" ELSE dispatch[n]]
    /\ job' = [job EXCEPT ![w] = Retired]
    /\ UNCHANGED <<txVars, attempts, aged, effectVars, feedVars>>

\* ListRecordedBefore, second statement: the oldest due rows are claimed and
\* their attempts counted; rows that no longer parse are skipped.
\* (Mutant: the attempts of skipped rows are not counted.)
Claimable == {n \in Due : Cardinality({m \in Due : m <= n}) <= Batch}
CountReadable(claimed, readable) ==
    [n \in Seqs |-> IF n \in readable THEN attempts[n] + 1 ELSE attempts[n]]
CountClaimed(claimed, readable) ==
    [n \in Seqs |-> IF n \in claimed THEN attempts[n] + 1 ELSE attempts[n]]
Claim(w, readable) ==
    /\ job[w] = Retired
    /\ readable \subseteq Claimable
    /\ attempts' = CountClaimed(Claimable, readable)
    /\ job' = [job EXCEPT ![w] = Job(readable)]
    /\ UNCHANGED <<txVars, dispatch, aged, effectVars, feedVars>>

\* fanOutNotifications: one insert per recipient, which may fail, and which
\* does nothing when the row (event, recipient) is already there.
Notify(d, u, done) ==
    /\ job[d].stage = "working"
    /\ u \in job[d].left
    /\ inbox' = IF done THEN inbox \cup {<<First(job[d].todo), u>>} ELSE inbox
    /\ job' = [job EXCEPT ![d].left = @ \ {u}, ![d].ok = @ /\ done]
    /\ UNCHANGED <<txVars, rowVars, aged, expanded, feedVars>>

\* A failed leg leaves the row recorded, for the sweep to try again.
\* (Mutant: failed legs are ignored.)
LegsIgnored(d) == TRUE
LegsDone(d) == job[d].ok

\* A row already dispatched or retired completes as a no-op.
\* (Mutant: a retired row is dispatched after all.)
DispatchableOnceRetired(n) == dispatch[n] # "dispatched"
Dispatchable(n) == dispatch[n] = "recorded"

\* EventStore.Dispatch: the webhook expansion and the flip are one
\* transaction, which may fail; then the next draft is taken.
Dispatch(d, stored) ==
    LET n == First(job[d].todo)
        effective == LegsDone(d) /\ stored /\ Dispatchable(n)
    IN  /\ job[d].stage = "working"
        /\ job[d].left = {}
        /\ expanded' = IF effective THEN expanded \cup {n} ELSE expanded
        /\ dispatch' = IF effective
                       THEN [dispatch EXCEPT ![n] = "dispatched"]
                       ELSE dispatch
        /\ job' = [job EXCEPT ![d] = Job(job[d].todo \ {n})]
        /\ UNCHANGED <<txVars, attempts, aged, inbox, feedVars>>

\* The process dies, or its context is cancelled, anywhere in a dispatch or a
\* sweep pass; what it had not done is forgotten.
Crash(d) ==
    /\ job[d] # Idle
    /\ job' = [job EXCEPT ![d] = Idle]
    /\ UNCHANGED <<txVars, rowVars, aged, effectVars, feedVars>>

-----------------------------------------------------------------------------
(* The feed.                                                               *)

Committed == {n \in Seqs : dispatch[n] # "absent"}

\* listEnrichedFeedPage: the reader's events after its cursor.
Unread(u) == {n \in Committed : u \in shape[n].to /\ n > cursor[u]}

\* The cursor a page, or an SSE stream cut off after event n, leaves behind.
\* (Mutant: the position after the event, not the event's own.)
CursorBehind(n) == n + 1
CursorAt(n) == n

\* A page is served in seq order up to its limit; a stream may break earlier.
Read(u, n) ==
    LET page == {m \in Unread(u) : m <= n}
    IN  /\ n \in Unread(u)
        /\ Cardinality(page) <= PageLimit
        /\ seen' = [seen EXCEPT ![u] = @ \cup page]
        /\ cursor' = [cursor EXCEPT ![u] = CursorAt(n)]
        /\ UNCHANGED <<txVars, rowVars, aged, effectVars, job>>

-----------------------------------------------------------------------------
RecordStep ==
    \E x \in Txs : \/ \E s \in Shapes : Record(x, s)
                   \/ Commit(x)
                   \/ Rollback(x)

SweepStep ==
    \/ \E n \in Seqs : Age(n)
    \/ \E w \in Sweepers :
         \/ Retire(w)
         \/ \E readable \in SUBSET Claimable : Claim(w, readable)

DispatchStep ==
    \E d \in Dispatchers :
      \/ \E u \in Users, done \in BOOLEAN : Notify(d, u, done)
      \/ \E stored \in BOOLEAN : Dispatch(d, stored)
      \/ Crash(d)

FeedStep == \E u \in Users, n \in Seqs : Read(u, n)

Next == RecordStep \/ SweepStep \/ DispatchStep \/ FeedStep

Spec == Init /\ [][Next]_vars

\* Time passes, the runner starts a sweep on every tick, a pass under way goes
\* on, and no replica is so unlucky as to crash in every pass before it claims.
Fairness ==
    /\ \A n \in Seqs : WF_vars(Age(n))
    /\ \A w \in Sweepers :
         /\ WF_vars(Retire(w))
         /\ SF_vars(\E readable \in SUBSET Claimable : Claim(w, readable))
         /\ WF_vars(\/ \E u \in Users, done \in BOOLEAN : Notify(w, u, done)
                    \/ \E stored \in BOOLEAN : Dispatch(w, stored))

FairSpec == Spec /\ Fairness

-----------------------------------------------------------------------------
(* Properties.                                                             *)

JobSet == [stage : {"idle", "retired", "working"}, todo : SUBSET Seqs,
           left : SUBSET Users, ok : BOOLEAN]

\* The shape of every row; a job under way has an event to dispatch.
TypeOK ==
    /\ seq \in 0..MaxSeq
    /\ fence \in Txs \cup {None}
    /\ pending \in [Txs -> SUBSET Seqs]
    /\ dispatch \in [Seqs -> DispatchStates]
    /\ shape \in [Seqs -> Shapes \cup {Unaddressed}]
    /\ attempts \in [Seqs -> Nat]
    /\ aged \subseteq Seqs
    /\ inbox \subseteq Seqs \X Users
    /\ expanded \subseteq Seqs
    /\ job \in [Dispatchers -> JobSet]
    /\ \A d \in Dispatchers : job[d].stage = "working" <=> job[d].todo # {}
    /\ cursor \in [Users -> 0..MaxSeq]
    /\ seen \in [Users -> SUBSET Seqs]

\* A cursor never passes an event its reader was not served, however slowly
\* the transaction that recorded it commits.
FeedNeverSkips ==
    \A u \in Users, n \in Committed :
      u \in shape[n].to /\ n <= cursor[u] => n \in seen[u]

\* A dispatched event reached every inbox and every webhook: a leg that
\* failed or was cut off is never hidden by the flip.
DispatchedReachedAll ==
    \A n \in Seqs : dispatch[n] = "dispatched" =>
      /\ n \in expanded
      /\ \A u \in shape[n].notify : <<n, u>> \in inbox

\* The attempt cap holds up to the sweeps of the other replicas that looked
\* at the row before its last attempt was counted.
AttemptsBounded ==
    \A n \in Seqs : attempts[n] < Cap + Cardinality(Sweepers)

\* A row that is dispatched or given up stays so, whoever is late.
SettledIsFinal ==
    [][\A n \in Seqs : dispatch[n] \in Settled => dispatch'[n] = dispatch[n]]_vars

\* No recorded event is left in limbo, not even one that never parses.
EventsSettle ==
    \A n \in Seqs : dispatch[n] = "recorded" ~> dispatch[n] \in Settled
=============================================================================
