------------------------------ MODULE Webhooks ------------------------------
(***************************************************************************)
(* Webhook subscriptions and their deliveries.  Dispatching an event       *)
(* inserts one pending delivery for every subscription that matches it;    *)
(* the pumps of all replicas claim due deliveries in batches, POST them    *)
(* and record the outcome, with a bounded number of retries.               *)
(*                                                                         *)
(* A claim pushes next_attempt_at past a hold.  The hold is a matter of    *)
(* time, and a pump may be slower than it, so a held delivery may come due *)
(* and be claimed again while the first pump still works on it.            *)
(***************************************************************************)
EXTENDS Integers, Sequences, FiniteSets, SequencesExt

CONSTANTS
    Subs,         \* webhook subscriptions
    Events,       \* domain events
    Recipients,   \* the recipient-audience subscriptions each event matches
    Market,       \* the marketplace-audience subscriptions each event matches
    Pumps,        \* webhook pumps, one per replica
    MaxAttempts,  \* webhookdispatch.MaxAttempts
    Batch         \* claimBatchSize

ASSUME MatchAssumption ==
    /\ IsFiniteSet(Subs) /\ IsFiniteSet(Pumps)
    /\ Recipients \in [Events -> SUBSET Subs]
    /\ Market \in [Events -> SUBSET Subs]

ASSUME WalkAssumption ==
    /\ MaxAttempts \in Nat \ {0}
    /\ Batch \in Nat \ {0}

\* unique (subscription_id, event_seq)
Deliveries == Subs \X Events
Ended == {"delivered", "dead"}
DeliveryStates == {"absent", "pending"} \cup Ended

VARIABLES
    sub,       \* state of each subscription
    event,     \* dispatch state of each event
    open,      \* recorded events whose task is open and public
    garbled,   \* deliveries whose row will not parse when it is claimed
    row,       \* state and attempt_count of each delivery
    due,       \* pending deliveries that are due, by next_attempt_at
    job,       \* the claimed batch each pump works through
    acked,     \* history: deliveries some receiver answered with a 2xx
    failures,  \* history: failed POSTs per delivery, counted to MaxAttempts
    missed     \* history: events dispatched before a subscription existed

subscriptionVars == <<sub, missed>>
eventVars == <<event, open, garbled>>
deliveryVars == <<row, due>>
postVars == <<acked, failures>>
vars == <<subscriptionVars, eventVars, deliveryVars, job, postVars>>

Idle == [batch |-> <<>>, outcome |-> "none"]
NoRow == [state |-> "absent", attempts |-> 0]
NewRow == [state |-> "pending", attempts |-> 0]

Init ==
    /\ sub = [s \in Subs |-> "absent"]
    /\ event = [e \in Events |-> "absent"]
    /\ open = {}
    /\ garbled \in SUBSET Deliveries
    /\ row = [d \in Deliveries |-> NoRow]
    /\ due = <<>>
    /\ job = [p \in Pumps |-> Idle]
    /\ acked = {}
    /\ failures = [d \in Deliveries |-> 0]
    /\ missed = [s \in Subs |-> {}]

-----------------------------------------------------------------------------
(* Subscriptions and events.                                               *)

CreateSubscription(s) ==
    /\ sub[s] = "absent"
    /\ sub' = [sub EXCEPT ![s] = "active"]
    /\ missed' = [missed EXCEPT ![s] = {e \in Events : event[e] = "dispatched"}]
    /\ UNCHANGED <<eventVars, deliveryVars, job, postVars>>

\* Revoking stops the expansion of later events; rows already there stay.
RevokeSubscription(s) ==
    /\ sub[s] = "active"
    /\ sub' = [sub EXCEPT ![s] = "revoked"]
    /\ UNCHANGED <<missed, eventVars, deliveryVars, job, postVars>>

RecordEvent(e) ==
    /\ event[e] = "absent"
    /\ event' = [event EXCEPT ![e] = "recorded"]
    /\ open' = open \cup {e}
    /\ UNCHANGED <<subscriptionVars, garbled, deliveryVars, job, postVars>>

\* Nobody reads the task again once its event is dispatched.
TaskCloses(e) ==
    /\ e \in open
    /\ open' = open \ {e}
    /\ UNCHANGED <<subscriptionVars, event, garbled, deliveryVars, job, postVars>>

Matches(e) ==
    {s \in Subs : /\ sub[s] = "active"
                  /\ s \in Recipients[e] \/ (s \in Market[e] /\ e \in open)}

\* (Mutant: the event is flipped and the rows are inserted after that, so a
\* crash in between loses them.)
DispatchThenExpand(e) ==
    LET new == {d \in Matches(e) \X {e} : row[d] = NoRow}
    IN  /\ event[e] = "recorded"
        /\ event' = [event EXCEPT ![e] = "dispatched"]
        /\ \E kept \in {{}, new} :
             /\ row' = [d \in Deliveries |-> IF d \in kept THEN NewRow ELSE row[d]]
             /\ \E order \in SetToSeqs(kept) : due' = due \o order
        /\ open' = open \ {e}
        /\ UNCHANGED <<subscriptionVars, garbled, job, postVars>>

\* expandWebhookDeliveries within EventStore.Dispatch: all rows or none, and
\* the event is flipped with them.  The new rows share one next_attempt_at.
DispatchEvent(e) ==
    LET new == {d \in Matches(e) \X {e} : row[d] = NoRow}
    IN  /\ event[e] = "recorded"
        /\ event' = [event EXCEPT ![e] = "dispatched"]
        /\ row' = [d \in Deliveries |-> IF d \in new THEN NewRow ELSE row[d]]
        /\ \E order \in SetToSeqs(new) : due' = due \o order
        /\ open' = open \ {e}
        /\ UNCHANGED <<subscriptionVars, garbled, job, postVars>>

-----------------------------------------------------------------------------
(* The pumps.                                                              *)

\* (Mutant: only a retry is scheduled again, a claim that nobody marks is not.)
ComesDueOnRetry(d) ==
    /\ row[d].state = "pending"
    /\ row[d].attempts > 0
    /\ d \notin Range(due)
    /\ due' = Append(due, d)
    /\ UNCHANGED <<subscriptionVars, eventVars, row, job, postVars>>

\* The retry delay has passed, or the hold of a claim has lapsed.
ComesDue(d) ==
    /\ row[d].state = "pending"
    /\ d \notin Range(due)
    /\ due' = Append(due, d)
    /\ UNCHANGED <<subscriptionVars, eventVars, row, job, postVars>>

Idlers == {p \in Pumps : job[p] = Idle}

\* The oldest due rows that no overlapping claim has locked (for update skip
\* locked), each with the attempt count it has now.  One row that does not parse
\* rolls the claim back and leaves all of them as they were; so other pumps may
\* have had the rows before these, k batches of them, and claimed none.
ClaimDueDeliveries(p, k) ==
    LET skip == k * Batch
        n == IF Len(due) - skip < Batch THEN Len(due) - skip ELSE Batch
    IN  /\ job[p] = Idle
        /\ n > 0
        /\ \A i \in 1..n : due[skip + i] \notin garbled
        /\ job' = [job EXCEPT ![p].batch =
                     [i \in 1..n |-> [delivery |-> due[skip + i],
                                      attempts |-> row[due[skip + i]].attempts]]]
        /\ due' = SubSeq(due, 1, skip) \o SubSeq(due, skip + n + 1, Len(due))
        /\ UNCHANGED <<subscriptionVars, eventVars, row, postVars>>

\* A 2xx answer acknowledges; any other answer, a timeout or a refused
\* connection is a failure.
PostDelivery(p) ==
    LET d == Head(job[p].batch).delivery
    IN  /\ job[p].batch # <<>>
        /\ job[p].outcome = "none"
        /\ \/ /\ job' = [job EXCEPT ![p].outcome = "ok"]
              /\ acked' = acked \cup {d}
              /\ UNCHANGED failures
           \/ /\ job' = [job EXCEPT ![p].outcome = "failed"]
              /\ failures' = [failures EXCEPT ![d] =
                                IF @ < MaxAttempts THEN @ + 1 ELSE @]
              /\ UNCHANGED acked
        /\ UNCHANGED <<subscriptionVars, eventVars, deliveryVars>>

\* (Mutant: the walk ends one attempt early.)
DecideRetryEarly(attempt) ==
    IF attempt >= MaxAttempts - 1 THEN "dead" ELSE "pending"

\* decideRetry: the state a failed attempt leaves the delivery in.
DecideRetry(attempt) == IF attempt >= MaxAttempts THEN "dead" ELSE "pending"

\* (Mutant: the state is not part of the update's predicate.)
MarkableAlways(d) == TRUE

\* MarkDelivered and MarkFailed write only while the row is pending.
Markable(d) == row[d].state = "pending"

\* The outcome is recorded under the attempt number the claim gave it; an
\* update that finds no pending row, or fails, is ignored.
MarkDelivery(p) ==
    LET head == Head(job[p].batch)
        d == head.delivery
        attempt == head.attempts + 1
        end == IF job[p].outcome = "ok" THEN "delivered" ELSE DecideRetry(attempt)
    IN  /\ job[p].outcome # "none"
        /\ Markable(d)
        /\ row' = [row EXCEPT ![d] = [state |-> end, attempts |-> attempt]]
        /\ due' = RemoveFirst(due, d)
        /\ job' = [job EXCEPT ![p] = [batch |-> Tail(@.batch), outcome |-> "none"]]
        /\ UNCHANGED <<subscriptionVars, eventVars, postVars>>

MarkIgnored(p) ==
    /\ job[p].outcome # "none"
    /\ job' = [job EXCEPT ![p] = [batch |-> Tail(@.batch), outcome |-> "none"]]
    /\ UNCHANGED <<subscriptionVars, eventVars, deliveryVars, postVars>>

Crash(p) ==
    /\ job[p] # Idle
    /\ job' = [job EXCEPT ![p] = Idle]
    /\ UNCHANGED <<subscriptionVars, eventVars, deliveryVars, postVars>>

Next ==
    \/ \E s \in Subs : CreateSubscription(s) \/ RevokeSubscription(s)
    \/ \E e \in Events : RecordEvent(e) \/ TaskCloses(e) \/ DispatchEvent(e)
    \/ \E d \in Deliveries : ComesDue(d)
    \/ \E p \in Pumps : \/ \E k \in 0..(Cardinality(Idlers) - 1) : ClaimDueDeliveries(p, k)
                        \/ PostDelivery(p)
                        \/ MarkDelivery(p)
                        \/ MarkIgnored(p)
                        \/ Crash(p)

Spec == Init /\ [][Next]_vars

\* Time passes, every pump is run again every few seconds and finds the head of
\* the list unlocked, a request is over when its timeout is, and no pump is so
\* unlucky as to crash before every single request, or to crash or fail to write
\* after every one.
Fairness ==
    /\ \A d \in Deliveries : WF_vars(ComesDue(d))
    /\ \A p \in Pumps :
         /\ WF_vars(ClaimDueDeliveries(p, 0))
         /\ SF_vars(PostDelivery(p))
         /\ SF_vars(MarkDelivery(p))

FairSpec == Spec /\ Fairness

-----------------------------------------------------------------------------
(* Properties.                                                             *)

JobSet == [batch : Seq([delivery : Deliveries, attempts : Nat]),
           outcome : {"none", "ok", "failed"}]

\* The shape of every row; an outcome always belongs to a claimed delivery,
\* and the due list names each pending row at most once.
TypeOK ==
    /\ sub \in [Subs -> {"absent", "active", "revoked"}]
    /\ event \in [Events -> {"absent", "recorded", "dispatched"}]
    /\ open \subseteq Events /\ garbled \subseteq Deliveries
    /\ row \in [Deliveries -> [state : DeliveryStates, attempts : Nat]]
    /\ due \in Seq(Deliveries) /\ IsInjective(due)
    /\ \A d \in Range(due) : row[d].state = "pending"
    /\ job \in [Pumps -> JobSet]
    /\ \A p \in Pumps : job[p].batch = <<>> => job[p].outcome = "none"
    /\ acked \subseteq Deliveries
    /\ failures \in [Deliveries -> 0..MaxAttempts]
    /\ missed \in [Subs -> SUBSET Events]

\* No subscription that was there in time is left out of an event addressed
\* to it: the expansion and the flip of the event are one transaction.
EveryMatchExpanded ==
    \A s \in Subs, e \in Events :
      /\ sub[s] = "active"
      /\ event[e] = "dispatched"
      /\ s \in Recipients[e]
      /\ e \notin missed[s]
      => row[<<s, e>>] # NoRow

\* What a row says happened: a delivered one was acknowledged by its receiver,
\* whichever pump recorded it, and a dead one had MaxAttempts failed requests.
\* Pumps whose holds lapsed may write their counts over one another's, yet a
\* count never runs ahead of the requests really made.
OutcomesAreEarned ==
    \A d \in Deliveries :
      /\ row[d].state = "delivered" => d \in acked
      /\ row[d].state = "dead" => failures[d] = MaxAttempts

\* A late pump never reopens or overwrites a delivery that has ended.
EndedIsFinal ==
    [][\A d \in Deliveries : row[d].state \in Ended => row'[d] = row[d]]_vars

\* Every delivery is acknowledged or given up, crashes, lost updates, claims that
\* roll back and overlapping pumps notwithstanding, as long as there is no row that
\* does not parse.
DeliveriesSettle ==
    [](\A g \in garbled : row[g] = NoRow) =>
      \A d \in Deliveries : row[d].state = "pending" ~> row[d].state \in Ended

\* What the comment on ClaimDueDeliveries promises: delivery is at least once, so
\* every delivery that can be read is settled.  It does not hold: a row that does
\* not parse comes to the head of the list, stays there and fails every claim.
ReadableSettle ==
    \A d \in Deliveries :
      row[d].state = "pending" /\ d \notin garbled ~> row[d].state \in Ended
=============================================================================
