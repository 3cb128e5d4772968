--------------------------- MODULE WebhooksProofs ---------------------------
(* Proofs about webhook deliveries: none is left out, none is invented.    *)
EXTENDS Webhooks, SequenceTheorems, FiniteSetTheorems, TLAPS

-----------------------------------------------------------------------------
(* The inductive invariant.                                                *)

\* A delivery as a pump claimed it.
Claims == [delivery : Deliveries, attempts : Nat]

\* A row that may be tried again has fewer attempts than the walk has, and no
\* more than failed; a dead one has them all, a delivered one an answer.
RowEarned(d) ==
    /\ row[d].state = "pending" =>
         row[d].attempts <= failures[d] /\ row[d].attempts < MaxAttempts
    /\ row[d].state = "delivered" => d \in acked
    /\ row[d].state = "dead" => failures[d] = MaxAttempts

\* The count a pump read is behind the failures, whatever was written since.
ClaimEarned(x) == x.attempts <= failures[x.delivery] /\ x.attempts < MaxAttempts

\* The outcome a pump is about to record happened.
OutcomeEarned(j) ==
    /\ j.outcome = "ok" => Head(j.batch).delivery \in acked
    /\ j.outcome = "failed" =>
         Head(j.batch).attempts + 1 <= failures[Head(j.batch).delivery]

JobEarned(j) ==
    /\ \A i \in 1..Len(j.batch) : ClaimEarned(j.batch[i])
    /\ OutcomeEarned(j)

Earned ==
    /\ \A d \in Deliveries : RowEarned(d)
    /\ \A p \in Pumps : JobEarned(job[p])

IInv == TypeOK /\ Earned /\ EveryMatchExpanded

-----------------------------------------------------------------------------
(* Facts about sequences without repetition.                               *)

\* What it means for a list to name things of S, each once.
Listed(s, S) == s \in Seq(S) /\ IsInjective(s)

\* An injective sequence, by its positions.
LEMMA Positions ==
    ASSUME NEW S, NEW s \in Seq(S)
    PROVE  /\ Len(s) \in Nat /\ DOMAIN s = 1..Len(s)
           /\ \A i \in 1..Len(s) : s[i] \in S
           /\ IsInjective(s) <=> \A i, j \in 1..Len(s) : s[i] = s[j] => i = j
           /\ \A x : x \in Range(s) <=> \E i \in 1..Len(s) : s[i] = x
BY DEF IsInjective, Range

\* What is listed has a place.
LEMMA Placed ==
    ASSUME NEW S, NEW s \in Seq(S), NEW x \in Range(s)
    PROVE  \E i \in 1..Len(s) : s[i] = x
BY Positions

\* Appending what is not listed yet.
LEMMA AppendListed ==
    ASSUME NEW S, NEW s, Listed(s, S), NEW x \in S, x \notin Range(s)
    PROVE  /\ Listed(Append(s, x), S)
           /\ \A y \in Range(Append(s, x)) : y \in Range(s) \/ y = x
<1>1. /\ Append(s, x) \in Seq(S) /\ Len(Append(s, x)) = Len(s) + 1 /\ Len(s) \in Nat
      /\ \A i \in 1..Len(s) + 1 : Append(s, x)[i] = IF i <= Len(s) THEN s[i] ELSE x
  BY DEF Listed
<1>2. \A i \in 1..Len(s) : s[i] # x
  BY Positions DEF Listed
<1>3. IsInjective(Append(s, x))
  <2>1. \A i, j \in 1..Len(s) : s[i] = s[j] => i = j
    BY Positions DEF Listed
  <2>2. \A i, j \in 1..Len(s) + 1 : Append(s, x)[i] = Append(s, x)[j] => i = j
    BY <1>1, <1>2, <2>1
  <2> QED
    BY <1>1, <2>2, Positions
<1>4. ASSUME NEW y \in Range(Append(s, x)), y # x
      PROVE  y \in Range(s)
  <2>1. PICK i \in 1..Len(s) + 1 : Append(s, x)[i] = y
    BY <1>1, Placed
  <2>2. i \in 1..Len(s) /\ s[i] = y
    BY <1>1, <1>4, <2>1
  <2> QED
    BY <2>2, Positions DEF Listed
<1> QED
  BY <1>1, <1>3, <1>4 DEF Listed

\* Putting one list behind another that shares nothing with it.
LEMMA ConcatListed ==
    ASSUME NEW S, NEW s, Listed(s, S), NEW t, Listed(t, S),
           \A x \in Range(t) : x \notin Range(s)
    PROVE  /\ Listed(s \o t, S)
           /\ \A y \in Range(s \o t) : y \in Range(s) \/ y \in Range(t)
<1>1. /\ s \o t \in Seq(S) /\ Len(s \o t) = Len(s) + Len(t)
      /\ Len(s) \in Nat /\ Len(t) \in Nat
      /\ \A i \in 1..Len(s) + Len(t) :
           (s \o t)[i] = IF i <= Len(s) THEN s[i] ELSE t[i - Len(s)]
  BY ConcatProperties DEF Listed
<1>2. \A i \in 1..Len(s), j \in 1..Len(t) : s[i] # t[j]
  BY Positions DEF Listed
<1>3. \A i \in 1..Len(s) + Len(t) : i <= Len(s) \/ i - Len(s) \in 1..Len(t)
  BY <1>1
<1>4. IsInjective(s \o t)
  <2> SUFFICES ASSUME NEW i \in 1..Len(s \o t), NEW j \in 1..Len(s \o t),
                      (s \o t)[i] = (s \o t)[j]
               PROVE  i = j
    BY <1>1, Positions
  <2>1. CASE i <= Len(s) /\ j <= Len(s)
    <3>1. i \in 1..Len(s) /\ j \in 1..Len(s) /\ s[i] = s[j]
      BY <1>1, <2>1
    <3> QED
      BY <3>1, Positions DEF Listed
  <2>2. CASE ~(i <= Len(s)) /\ ~(j <= Len(s))
    <3>1. /\ i - Len(s) \in 1..Len(t) /\ j - Len(s) \in 1..Len(t)
          /\ t[i - Len(s)] = t[j - Len(s)]
      BY <1>1, <1>3, <2>2
    <3>2. i - Len(s) = j - Len(s)
      BY <3>1, Positions DEF Listed
    <3> QED
      BY <1>1, <3>2
  <2>3. CASE i <= Len(s) /\ ~(j <= Len(s))
    BY <1>1, <1>2, <1>3, <2>3
  <2>4. CASE ~(i <= Len(s)) /\ j <= Len(s)
    BY <1>1, <1>2, <1>3, <2>4
  <2> QED
    BY <2>1, <2>2, <2>3, <2>4
<1>5. \A y \in Range(s \o t) : y \in Range(s) \/ y \in Range(t)
  <2> SUFFICES ASSUME NEW y \in Range(s \o t) PROVE y \in Range(s) \/ y \in Range(t)
    OBVIOUS
  <2>1. PICK i \in 1..Len(s) + Len(t) : (s \o t)[i] = y
    BY <1>1, Placed
  <2>2. CASE i <= Len(s)
    <3>1. i \in 1..Len(s) /\ s[i] = y
      BY <1>1, <2>1, <2>2
    <3> QED
      BY <3>1, Positions DEF Listed
  <2>3. CASE ~(i <= Len(s))
    <3>1. i - Len(s) \in 1..Len(t) /\ t[i - Len(s)] = y
      BY <1>1, <1>3, <2>1, <2>3
    <3> QED
      BY <3>1, Positions DEF Listed
  <2> QED
    BY <2>2, <2>3
<1> QED
  BY <1>1, <1>4, <1>5 DEF Listed

\* A stretch of a list is a list.
LEMMA SubListed ==
    ASSUME NEW S, NEW s, Listed(s, S), NEW m \in Nat, NEW n \in Nat, 1 <= m, n <= Len(s)
    PROVE  /\ Listed(SubSeq(s, m, n), S)
           /\ \A y \in Range(SubSeq(s, m, n)) : \E i \in m..n : s[i] = y
<1>1. Len(s) \in Nat /\ s \in Seq(S) /\ \A i \in 1..Len(s) : s[i] \in S
  BY Positions DEF Listed
<1>2. \A i \in m..n : i \in 1..Len(s) /\ s[i] \in S
  BY <1>1
<1>3. /\ SubSeq(s, m, n) \in Seq(S)
      /\ Len(SubSeq(s, m, n)) = IF m <= n THEN n - m + 1 ELSE 0
      /\ \A i \in 1..n - m + 1 : SubSeq(s, m, n)[i] = s[m + i - 1]
  BY <1>2, SubSeqProperties
<1>4. \A i \in 1..Len(SubSeq(s, m, n)) :
        SubSeq(s, m, n)[i] = s[m + i - 1] /\ m + i - 1 \in m..n
  BY <1>3
<1>5. IsInjective(SubSeq(s, m, n))
  <2> SUFFICES ASSUME NEW i \in 1..Len(SubSeq(s, m, n)), NEW j \in 1..Len(SubSeq(s, m, n)),
                      SubSeq(s, m, n)[i] = SubSeq(s, m, n)[j]
               PROVE  i = j
    BY <1>3, Positions
  <2>1. s[m + i - 1] = s[m + j - 1] /\ m + i - 1 \in 1..Len(s) /\ m + j - 1 \in 1..Len(s)
    BY <1>2, <1>4
  <2>2. m + i - 1 = m + j - 1
    BY <2>1, Positions DEF Listed
  <2> QED
    BY <1>3, <2>2
<1>6. \A y \in Range(SubSeq(s, m, n)) : \E i \in m..n : s[i] = y
  <2> SUFFICES ASSUME NEW y \in Range(SubSeq(s, m, n)) PROVE \E i \in m..n : s[i] = y
    OBVIOUS
  <2>1. PICK i \in 1..Len(SubSeq(s, m, n)) : SubSeq(s, m, n)[i] = y
    BY <1>3, Placed
  <2> QED
    BY <1>4, <2>1
<1> QED
  BY <1>3, <1>5, <1>6 DEF Listed

\* Taking one thing off a list.
LEMMA RemoveListed ==
    ASSUME NEW S, NEW s, Listed(s, S), NEW x
    PROVE  /\ Listed(RemoveFirst(s, x), S)
           /\ \A y \in Range(RemoveFirst(s, x)) : y \in Range(s) /\ y # x
<1>1. s \in Seq(S) /\ Len(s) \in Nat /\ \A i, j \in 1..Len(s) : s[i] = s[j] => i = j
  BY Positions DEF Listed
<1>2. CASE \A i \in 1..Len(s) : s[i] # x
  <2>1. RemoveFirst(s, x) = s
    BY <1>2 DEF RemoveFirst
  <2>2. ASSUME NEW y \in Range(s) PROVE y # x
    BY <1>1, <1>2, Placed
  <2> QED
    BY <2>1, <2>2
<1>3. ASSUME NEW k \in 1..Len(s), s[k] = x
      PROVE  /\ Listed(RemoveFirst(s, x), S)
             /\ \A y \in Range(RemoveFirst(s, x)) : y \in Range(s) /\ y # x
  <2>1. {i \in 1..Len(s) : s[i] = x} = {k}
    BY <1>1, <1>3
  <2>2. Min({k}) = k
    BY <1>3 DEF Min
  <2>3. RemoveFirst(s, x) = RemoveAt(s, k)
    BY <1>3, <2>1, <2>2 DEF RemoveFirst, SelectInSeq
  <2> DEFINE a == SubSeq(s, 1, k - 1)
             b == SubSeq(s, k + 1, Len(s))
  <2>4. /\ Listed(a, S) /\ \A y \in Range(a) : \E i \in 1..k - 1 : s[i] = y
        /\ Listed(b, S) /\ \A y \in Range(b) : \E i \in k + 1..Len(s) : s[i] = y
    <3>1. k - 1 \in Nat /\ k + 1 \in Nat /\ k - 1 <= Len(s) /\ 1 <= k + 1
      BY <1>1
    <3> QED
      BY <1>1, <3>1, SubListed
  <2> HIDE DEF a, b
  <2>5. ASSUME NEW y \in Range(a) PROVE y \notin Range(b) /\ y \in Range(s) /\ y # x
    <3>1. PICK i \in 1..k - 1 : s[i] = y
      BY <2>4
    <3>2. i \in 1..Len(s) /\ i # k
      BY <1>1, <3>1
    <3>3. ASSUME y \in Range(b) PROVE FALSE
      <4>1. PICK j \in k + 1..Len(s) : s[j] = y
        BY <2>4, <3>3
      <4> QED
        BY <1>1, <3>1, <3>2, <4>1
    <3> QED
      BY <1>1, <1>3, <3>1, <3>2, <3>3, Positions
  <2>6. ASSUME NEW y \in Range(b) PROVE y \in Range(s) /\ y # x
    <3>1. PICK j \in k + 1..Len(s) : s[j] = y
      BY <2>4
    <3>2. j \in 1..Len(s) /\ j # k
      BY <1>1, <3>1
    <3> QED
      BY <1>1, <1>3, <3>1, <3>2, Positions
  <2>7. RemoveFirst(s, x) = a \o b
    BY <2>3 DEF RemoveAt, a, b
  <2> QED
    BY <2>4, <2>5, <2>6, <2>7, ConcatListed
<1> QED
  BY <1>2, <1>3

\* Any order of a finite set lists it.
LEMMA OrderListed ==
    ASSUME NEW S, NEW T, T \subseteq S, IsFiniteSet(T), NEW s \in SetToSeqs(T)
    PROVE  Listed(s, S) /\ \A x \in Range(s) : x \in T
<1>1. PICK n \in Nat : n = Cardinality(T)
  BY FS_CardinalityType
<1>2. s \in [1..n -> T] /\ \A i, j \in 1..n : i # j => s[i] # s[j]
  BY <1>1 DEF SetToSeqs
<1>3. s \in Seq(S) /\ Len(s) = n
  BY <1>2
<1>4. IsInjective(s)
  BY <1>2 DEF IsInjective
<1>5. \A x \in Range(s) : x \in T
  BY <1>2 DEF Range
<1> QED
  BY <1>3, <1>4, <1>5 DEF Listed

-----------------------------------------------------------------------------
(* What the invariant says of single rows and jobs.                        *)

\* The rows there are, and those that will be.
LEMMA RowShapes ==
    /\ NoRow \in [state : DeliveryStates, attempts : Nat] /\ NoRow.state = "absent"
    /\ NewRow \in [state : DeliveryStates, attempts : Nat] /\ NewRow.state = "pending"
    /\ NewRow.attempts = 0 /\ NewRow # NoRow
    /\ Idle \in JobSet /\ Idle.batch = <<>> /\ Idle.outcome = "none"
<1>1. /\ NoRow \in [state : DeliveryStates, attempts : Nat] /\ NoRow.state = "absent"
      /\ NewRow \in [state : DeliveryStates, attempts : Nat] /\ NewRow.state = "pending"
      /\ NewRow.attempts = 0 /\ NewRow # NoRow
  BY DEF NoRow, NewRow, DeliveryStates, Ended
<1>2. Idle \in JobSet /\ Idle.batch = <<>> /\ Idle.outcome = "none"
  BY DEF Idle, JobSet
<1> QED
  BY <1>1, <1>2

\* An idle pump has recorded nothing it did not see.
LEMMA IdleEarned == JobEarned(Idle)
<1>1. 1..Len(Idle.batch) = {}
  BY RowShapes
<1> QED
  BY <1>1, RowShapes DEF JobEarned, OutcomeEarned

\* A job taken apart: the first claim, and the rest.
LEMMA HeadOfJob ==
    ASSUME TypeOK, Earned, NEW p \in Pumps, job[p].batch # <<>>
    PROVE  /\ Head(job[p].batch) \in Claims /\ ClaimEarned(Head(job[p].batch))
           /\ Tail(job[p].batch) \in Seq(Claims)
           /\ \A i \in 1..Len(Tail(job[p].batch)) : ClaimEarned(Tail(job[p].batch)[i])
<1>1. job[p].batch \in Seq(Claims)
  BY DEF TypeOK, JobSet, Claims
<1>2. Len(job[p].batch) \in Nat /\ Len(job[p].batch) >= 1
  BY <1>1
<1>3. \A i \in 1..Len(job[p].batch) : ClaimEarned(job[p].batch[i])
  BY DEF Earned, JobEarned
<1>4. Head(job[p].batch) = job[p].batch[1] /\ Head(job[p].batch) \in Claims
  BY <1>1
<1>5. /\ Tail(job[p].batch) \in Seq(Claims)
      /\ Len(Tail(job[p].batch)) = Len(job[p].batch) - 1
      /\ \A i \in 1..Len(Tail(job[p].batch)) : Tail(job[p].batch)[i] = job[p].batch[i + 1]
  BY <1>1, HeadTailProperties
<1> QED
  BY <1>2, <1>3, <1>4, <1>5

\* Before the first event nothing is claimed.
LEMMA WebhookInit == Init => IInv
<1> SUFFICES ASSUME Init PROVE IInv
  OBVIOUS
<1>1. TypeOK
  <2>1. due \in Seq(Deliveries) /\ IsInjective(due) /\ \A d \in Range(due) : row[d].state = "pending"
    BY DEF Init, IsInjective, Range
  <2>2. failures \in [Deliveries -> 0..MaxAttempts]
    BY WalkAssumption DEF Init
  <2> QED
    BY <2>1, <2>2, RowShapes DEF Init, TypeOK
<1>2. Earned
  BY RowShapes, IdleEarned DEF Init, Earned, RowEarned
<1>3. EveryMatchExpanded
  BY DEF Init, EveryMatchExpanded
<1> QED
  BY <1>1, <1>2, <1>3 DEF IInv

-----------------------------------------------------------------------------
(* What a step leaves alone.                                               *)

\* Rows and jobs that do not change stay earned while the history only grows.
LEMMA EarnedKept ==
    ASSUME IInv, acked \subseteq acked',
           \A d \in Deliveries : /\ failures'[d] \in 0..MaxAttempts
                                 /\ failures[d] <= failures'[d]
    PROVE  /\ \A d \in Deliveries : row'[d] = row[d] => RowEarned(d)'
           /\ \A x \in Claims : ClaimEarned(x) => ClaimEarned(x)'
           /\ \A p \in Pumps : job'[p] = job[p] => JobEarned(job[p])'
<1>0. /\ TypeOK /\ Earned /\ MaxAttempts \in Nat
      /\ \A d \in Deliveries : failures[d] \in 0..MaxAttempts
  BY WalkAssumption DEF IInv, TypeOK
<1>1. ASSUME NEW d \in Deliveries, row'[d] = row[d] PROVE RowEarned(d)'
  <2>1. RowEarned(d) /\ row[d].attempts \in Nat
    BY <1>0 DEF Earned, TypeOK
  <2> QED
    BY <1>0, <1>1, <2>1 DEF RowEarned
<1>2. ASSUME NEW x \in Claims, ClaimEarned(x) PROVE ClaimEarned(x)'
  <2>1. x.delivery \in Deliveries /\ x.attempts \in Nat
    BY DEF Claims
  <2> QED
    BY <1>0, <1>2, <2>1 DEF ClaimEarned
<1>3. ASSUME NEW p \in Pumps, job'[p] = job[p] PROVE JobEarned(job[p])'
  <2>1. job[p] \in JobSet /\ JobEarned(job[p]) /\ job[p].batch \in Seq(Claims)
    BY <1>0 DEF TypeOK, Earned, JobSet, Claims
  <2>2. \A i \in 1..Len(job[p].batch) : job[p].batch[i] \in Claims /\ ClaimEarned(job[p].batch[i])
    BY <2>1 DEF JobEarned
  <2>3. \A i \in 1..Len(job'[p].batch) : ClaimEarned(job[p].batch[i])'
    BY <1>2, <1>3, <2>2 DEF ClaimEarned
  <2>4. OutcomeEarned(job[p])'
    <3>1. CASE job[p].outcome = "none"
      BY <1>3, <3>1 DEF OutcomeEarned
    <3>2. CASE job[p].outcome # "none"
      <4>1. job[p].batch # <<>>
        BY <1>0, <3>2 DEF TypeOK
      <4>2. PICK h \in Claims : h = Head(job[p].batch)
        BY <1>0, <4>1, HeadOfJob
      <4>3. /\ h.delivery \in Deliveries /\ h.attempts \in Nat
        BY <4>2 DEF Claims
      <4> QED
        BY <1>0, <1>3, <2>1, <4>2, <4>3 DEF JobEarned, OutcomeEarned
    <3> QED
      BY <3>1, <3>2
  <2> QED
    BY <2>3, <2>4 DEF JobEarned
<1> QED
  BY <1>1, <1>2, <1>3

\* Nothing about deliveries changes.
LEMMA EarnedSame ==
    ASSUME IInv, UNCHANGED <<row, job, postVars>>
    PROVE  Earned'
<1>1. /\ acked \subseteq acked'
      /\ \A d \in Deliveries : /\ failures'[d] \in 0..MaxAttempts
                               /\ failures[d] <= failures'[d]
  BY WalkAssumption DEF IInv, TypeOK, postVars
<1>2. /\ \A d \in Deliveries : RowEarned(d)'
      /\ \A p \in Pumps : JobEarned(job[p])'
  BY <1>1, EarnedKept
<1> QED
  BY <1>2 DEF Earned

\* Every row that was there is there still.
LEMMA ExpandedKept ==
    ASSUME IInv, UNCHANGED <<subscriptionVars, eventVars>>,
           \A d \in Deliveries : row[d] # NoRow => row'[d] # NoRow
    PROVE  EveryMatchExpanded'
<1>1. \A s \in Subs, e \in Events : <<s, e>> \in Deliveries
  BY DEF Deliveries
<1> QED
  BY <1>1 DEF IInv, EveryMatchExpanded, subscriptionVars, eventVars

-----------------------------------------------------------------------------
(* Subscriptions and events.                                               *)

\* A subscription is made or revoked, an event recorded, or its task closed.
LEMMA SubscriptionsKeep ==
    ASSUME IInv,
           \/ \E s \in Subs : CreateSubscription(s) \/ RevokeSubscription(s)
           \/ \E e \in Events : RecordEvent(e) \/ TaskCloses(e)
    PROVE  IInv'
<1>0. TypeOK /\ EveryMatchExpanded /\ UNCHANGED <<deliveryVars, job, postVars>>
  BY DEF IInv, CreateSubscription, RevokeSubscription, RecordEvent, TaskCloses
<1>1. Earned'
  BY <1>0, EarnedSame DEF deliveryVars
<1>2. ASSUME NEW s \in Subs, CreateSubscription(s) PROVE TypeOK' /\ EveryMatchExpanded'
  <2>1. /\ sub' = [sub EXCEPT ![s] = "active"] /\ UNCHANGED <<event, open, garbled, row>>
        /\ missed' = [missed EXCEPT ![s] = {e \in Events : event[e] = "dispatched"}]
    BY <1>2 DEF CreateSubscription, eventVars, deliveryVars
  <2>2. TypeOK'
    BY <1>0, <2>1 DEF TypeOK, deliveryVars, postVars
  <2>3. \A x \in Subs : /\ x # s => sub'[x] = sub[x] /\ missed'[x] = missed[x]
                        /\ x = s => missed'[x] = {e \in Events : event[e] = "dispatched"}
    BY <1>0, <2>1 DEF TypeOK
  <2> QED
    BY <1>0, <2>1, <2>2, <2>3 DEF EveryMatchExpanded
<1>3. ASSUME NEW s \in Subs, RevokeSubscription(s) PROVE TypeOK' /\ EveryMatchExpanded'
  <2>1. sub' = [sub EXCEPT ![s] = "revoked"] /\ UNCHANGED <<missed, event, open, garbled, row>>
    BY <1>3 DEF RevokeSubscription, eventVars, deliveryVars
  <2>2. TypeOK'
    BY <1>0, <2>1 DEF TypeOK, deliveryVars, postVars
  <2> QED
    BY <1>0, <2>1, <2>2 DEF EveryMatchExpanded, TypeOK
<1>4. ASSUME NEW e \in Events, RecordEvent(e) PROVE TypeOK' /\ EveryMatchExpanded'
  <2>1. /\ event' = [event EXCEPT ![e] = "recorded"] /\ open' = open \cup {e}
        /\ UNCHANGED <<sub, missed, garbled, row>>
    BY <1>4 DEF RecordEvent, subscriptionVars, deliveryVars
  <2>2. TypeOK'
    BY <1>0, <2>1 DEF TypeOK, deliveryVars, postVars
  <2> QED
    BY <1>0, <2>1, <2>2 DEF EveryMatchExpanded, TypeOK
<1>5. ASSUME NEW e \in Events, TaskCloses(e) PROVE TypeOK' /\ EveryMatchExpanded'
  <2>1. open' = open \ {e} /\ UNCHANGED <<sub, missed, event, garbled, row>>
    BY <1>5 DEF TaskCloses, subscriptionVars, deliveryVars
  <2>2. TypeOK'
    BY <1>0, <2>1 DEF TypeOK, deliveryVars, postVars
  <2> QED
    BY <1>0, <2>1, <2>2 DEF EveryMatchExpanded
<1> QED
  BY <1>1, <1>2, <1>3, <1>4, <1>5 DEF IInv

\* An event is dispatched: its rows and its flip are one transaction.
LEMMA DispatchKeeps ==
    ASSUME IInv, NEW e \in Events, DispatchEvent(e)
    PROVE  IInv'
<1> DEFINE new == {d \in Matches(e) \X {e} : row[d] = NoRow}
<1>0. /\ TypeOK /\ Earned /\ EveryMatchExpanded
      /\ event' = [event EXCEPT ![e] = "dispatched"]
      /\ row' = [d \in Deliveries |-> IF d \in new THEN NewRow ELSE row[d]]
      /\ open' = open \ {e}
      /\ UNCHANGED <<sub, missed, garbled, job, acked, failures>>
  BY DEF IInv, DispatchEvent, subscriptionVars, postVars
<1>1. PICK order \in SetToSeqs(new) : due' = due \o order
  BY DEF DispatchEvent
<1>2. new \subseteq Deliveries /\ IsFiniteSet(new)
  <2>1. Matches(e) \in SUBSET Subs
    BY DEF Matches
  <2>2. IsFiniteSet(Matches(e)) /\ IsFiniteSet({e})
    BY <2>1, MatchAssumption, FS_Subset, FS_Singleton
  <2>3. IsFiniteSet(Matches(e) \X {e})
    BY <2>2, FS_Product
  <2>4. new \in SUBSET (Matches(e) \X {e})
    OBVIOUS
  <2> QED
    BY <2>1, <2>3, <2>4, FS_Subset DEF Deliveries
<1>3. \A d \in Deliveries : d \in new => row[d] = NoRow
  OBVIOUS
<1>4. \A s \in Subs : sub[s] = "active" /\ s \in Recipients[e] =>
        row[<<s, e>>] # NoRow \/ <<s, e>> \in new
  BY DEF Matches
<1> HIDE DEF new
<1>5. Listed(due, Deliveries) /\ \A d \in Range(due) : d \in Deliveries /\ row[d].state = "pending"
  <2>1. due \in Seq(Deliveries) /\ IsInjective(due) /\ \A d \in Range(due) : row[d].state = "pending"
    BY <1>0 DEF TypeOK
  <2>2. \A d \in Range(due) : d \in Deliveries
    BY <2>1, Positions
  <2> QED
    BY <2>1, <2>2 DEF Listed
<1>6. Listed(order, Deliveries) /\ \A d \in Range(order) : d \in new
  BY <1>1, <1>2, OrderListed
<1>7. \A d \in Range(order) : d \notin Range(due)
  BY <1>2, <1>3, <1>5, <1>6, RowShapes
<1>8. /\ Listed(due', Deliveries)
      /\ \A d \in Range(due') : d \in Range(due) \/ d \in Range(order)
  BY <1>1, <1>5, <1>6, <1>7, ConcatListed
<1>9. \A d \in Range(due') : row'[d].state = "pending"
  BY <1>0, <1>2, <1>5, <1>6, <1>8, RowShapes
<1>10. TypeOK'
  BY <1>0, <1>8, <1>9, RowShapes DEF TypeOK, Listed
<1>11. Earned'
  <2>1. /\ acked \subseteq acked'
        /\ \A d \in Deliveries : /\ failures'[d] \in 0..MaxAttempts
                                 /\ failures[d] <= failures'[d]
    BY <1>0, WalkAssumption DEF TypeOK
  <2>2. \A d \in Deliveries : row'[d] = IF d \in new THEN NewRow ELSE row[d]
    BY <1>0
  <2>3. \A d \in Deliveries : d \in new => RowEarned(d)'
    BY <2>1, <2>2, RowShapes, WalkAssumption DEF RowEarned
  <2>4. \A d \in Deliveries : d \notin new => RowEarned(d)'
    BY <2>1, <2>2, EarnedKept
  <2>5. \A p \in Pumps : JobEarned(job[p])'
    BY <1>0, <2>1, EarnedKept
  <2> QED
    BY <2>3, <2>4, <2>5 DEF Earned
<1>12. EveryMatchExpanded'
  <2> SUFFICES ASSUME NEW s \in Subs, NEW x \in Events, sub[s] = "active",
                      event'[x] = "dispatched", s \in Recipients[x], x \notin missed[s]
               PROVE  row'[<<s, x>>] # NoRow
    BY <1>0 DEF EveryMatchExpanded
  <2>1. <<s, x>> \in Deliveries /\ row'[<<s, x>>] = IF <<s, x>> \in new THEN NewRow
                                                   ELSE row[<<s, x>>]
    BY <1>0 DEF Deliveries
  <2>2. CASE x = e
    BY <1>4, <2>1, <2>2, RowShapes
  <2>3. CASE x # e
    <3>1. event[x] = "dispatched"
      BY <1>0, <2>3 DEF TypeOK
    <3> QED
      BY <1>0, <2>1, <3>1, RowShapes DEF EveryMatchExpanded
  <2> QED
    BY <2>2, <2>3
<1> QED
  BY <1>10, <1>11, <1>12 DEF IInv

-----------------------------------------------------------------------------
(* The pumps.                                                              *)

\* The due list of a good state.
LEMMA DueListed ==
    ASSUME TypeOK
    PROVE  /\ Listed(due, Deliveries)
           /\ \A d \in Range(due) : d \in Deliveries /\ row[d].state = "pending"
<1>1. due \in Seq(Deliveries) /\ IsInjective(due)
  BY DEF TypeOK
<1> QED
  BY <1>1, Positions DEF TypeOK, Listed

\* A delivery comes due, for the first time or again.
LEMMA DueKeeps ==
    ASSUME IInv, NEW d \in Deliveries, ComesDue(d)
    PROVE  IInv'
<1>0. /\ TypeOK /\ row[d].state = "pending" /\ d \notin Range(due) /\ due' = Append(due, d)
      /\ UNCHANGED <<subscriptionVars, eventVars, row, job, postVars>>
  BY DEF IInv, ComesDue
<1>1. Listed(due', Deliveries) /\ \A x \in Range(due') : row[x].state = "pending"
  BY <1>0, DueListed, AppendListed
<1>2. TypeOK'
  BY <1>0, <1>1 DEF TypeOK, Listed, subscriptionVars, eventVars, postVars
<1>3. Earned' /\ EveryMatchExpanded'
  BY <1>0, EarnedSame, ExpandedKept
<1> QED
  BY <1>2, <1>3 DEF IInv

\* Only the job of one pump changes, to one that is earned.
LEMMA JobMoves ==
    ASSUME IInv, NEW p \in Pumps, NEW j \in JobSet, job' = [job EXCEPT ![p] = j],
           j.batch = <<>> => j.outcome = "none", JobEarned(j)',
           Listed(due, Deliveries)', \A d \in Range(due') : d \in Range(due),
           acked \subseteq acked', acked' \subseteq Deliveries,
           failures' \in [Deliveries -> 0..MaxAttempts],
           \A d \in Deliveries : failures[d] <= failures'[d],
           UNCHANGED <<subscriptionVars, eventVars, row>>
    PROVE  IInv'
<1>0. TypeOK
  BY DEF IInv
<1>1. \A x \in Pumps : job'[x] = IF x = p THEN j ELSE job[x]
  BY <1>0 DEF TypeOK
<1>2. TypeOK'
  <2>1. job' \in [Pumps -> JobSet] /\ \A x \in Pumps : job'[x].batch = <<>> => job'[x].outcome = "none"
    BY <1>0, <1>1 DEF TypeOK
  <2>2. due' \in Seq(Deliveries) /\ IsInjective(due')
    BY DEF Listed
  <2>3. \A d \in Range(due') : row'[d].state = "pending"
    BY <1>0 DEF TypeOK
  <2> QED
    BY <1>0, <2>1, <2>2, <2>3 DEF TypeOK, subscriptionVars, eventVars
<1>3. \A d \in Deliveries : failures'[d] \in 0..MaxAttempts
  OBVIOUS
<1>4. \A d \in Deliveries : RowEarned(d)'
  BY <1>3, EarnedKept
<1>5. \A x \in Pumps : JobEarned(job[x])'
  <2>1. \A x \in Pumps : x # p => JobEarned(job[x])'
    BY <1>1, <1>3, EarnedKept
  <2>2. JobEarned(job[p])'
    BY <1>1 DEF JobEarned, OutcomeEarned
  <2> QED
    BY <2>1, <2>2
<1>6. EveryMatchExpanded'
  BY ExpandedKept
<1> QED
  BY <1>2, <1>4, <1>5, <1>6 DEF IInv, Earned

\* A pump claims the oldest due rows, which are all pending.
LEMMA ClaimKeeps ==
    ASSUME IInv, NEW p \in Pumps, NEW k \in Nat, ClaimDueDeliveries(p, k)
    PROVE  IInv'
<1>1. /\ TypeOK /\ Earned /\ job[p] = Idle
      /\ due \in Seq(Deliveries) /\ Len(due) \in Nat
      /\ \A i \in 1..Len(due) : due[i] \in Deliveries /\ due[i] \in Range(due)
  BY DueListed, Positions DEF IInv, Listed, ClaimDueDeliveries
<1>2. PICK n, s : /\ s = k * Batch
                  /\ n = IF Len(due) - s < Batch THEN Len(due) - s ELSE Batch
                  /\ n > 0
                  /\ job' = [job EXCEPT ![p].batch =
                               [i \in 1..n |-> [delivery |-> due[s + i],
                                                attempts |-> row[due[s + i]].attempts]]]
                  /\ due' = SubSeq(due, 1, s) \o SubSeq(due, s + n + 1, Len(due))
  BY DEF ClaimDueDeliveries
<1>3. UNCHANGED <<subscriptionVars, eventVars, row, postVars>>
  BY DEF ClaimDueDeliveries
<1>0. s \in Nat
  BY <1>2, WalkAssumption, SMT
<1>4. n \in Nat /\ n >= 1 /\ s + n <= Len(due)
  <2>1. n = (IF Len(due) - s < Batch THEN Len(due) - s ELSE Batch) /\ n > 0
    BY <1>2
  <2> QED
    BY <1>0, <1>1, <2>1, WalkAssumption
<1>5. \A i \in 1..n : /\ due[s + i] \in Deliveries /\ row[due[s + i]].state = "pending"
                      /\ row[due[s + i]].attempts \in Nat /\ RowEarned(due[s + i])
  <2>1. \A i \in 1..n : s + i \in 1..Len(due)
    BY <1>0, <1>1, <1>4
  <2> QED
    BY <1>1, <2>1, DueListed DEF TypeOK, Earned
<1>6. PICK b : b = [i \in 1..n |-> [delivery |-> due[s + i],
                                    attempts |-> row[due[s + i]].attempts]]
  OBVIOUS
<1>7. /\ b \in Seq(Claims) /\ Len(b) = n
      /\ \A i \in 1..n : /\ b[i].delivery = due[s + i]
                         /\ b[i].attempts = row[due[s + i]].attempts
  <2>1. \A i \in 1..n : /\ b[i] = [delivery |-> due[s + i],
                                   attempts |-> row[due[s + i]].attempts]
                        /\ b[i] \in Claims
    BY <1>5, <1>6 DEF Claims
  <2>2. b \in [1..n -> Claims]
    BY <1>6, <2>1
  <2>3. b \in Seq(Claims) /\ Len(b) = n
    BY <1>4, <2>2
  <2> QED
    BY <2>1, <2>3
<1>8. PICK j : j = [batch |-> b, outcome |-> "none"]
  OBVIOUS
<1>9. j \in JobSet /\ j.batch = b /\ j.outcome = "none" /\ b # <<>>
  BY <1>4, <1>7, <1>8 DEF JobSet, Claims
<1>10. job' = [job EXCEPT ![p] = j]
  <2>1. job' = [job EXCEPT ![p].batch = b]
    BY <1>2, <1>6
  <2>2. [job[p] EXCEPT !.batch = b] = j
    BY <1>1, <1>8 DEF Idle
  <2> QED
    BY <2>1, <2>2
<1>11. JobEarned(j)'
  <2>1. \A i \in 1..n : /\ b[i].attempts <= failures[b[i].delivery]
                        /\ b[i].attempts < MaxAttempts
    BY <1>5, <1>7 DEF RowEarned
  <2>2. failures' = failures
    BY <1>3 DEF postVars
  <2>3. \A i \in 1..Len(j.batch) : ClaimEarned(j.batch[i])'
    BY <1>7, <1>9, <2>1, <2>2 DEF ClaimEarned
  <2> QED
    BY <1>9, <2>3 DEF JobEarned, OutcomeEarned
<1>12. Listed(due, Deliveries)' /\ \A d \in Range(due') : d \in Range(due)
  <2> DEFINE a == SubSeq(due, 1, s)
             c == SubSeq(due, s + n + 1, Len(due))
  <2>0. /\ s + n + 1 \in Nat /\ 1 <= s + n + 1 /\ s <= Len(due)
        /\ Len(due) <= Len(due) /\ Listed(due, Deliveries)
    BY <1>0, <1>1, <1>4, DueListed
  <2>1. Listed(a, Deliveries) /\ \A d \in Range(a) : \E i \in 1..s : due[i] = d
    BY <1>0, <1>1, <2>0, SubListed
  <2>2. /\ Listed(c, Deliveries)
        /\ \A d \in Range(c) : \E i \in s + n + 1..Len(due) : due[i] = d
    BY <1>1, <2>0, SubListed
  <2>3. due' = a \o c
    BY <1>2
  <2> HIDE DEF a, c
  <2>4. \A i \in 1..s, k1 \in s + n + 1..Len(due) : due[i] # due[k1]
    <3>1. \A i, k1 \in 1..Len(due) : due[i] = due[k1] => i = k1
      BY <2>0, Positions DEF Listed
    <3> QED
      BY <1>0, <1>1, <1>4, <3>1
  <2>5. \A d \in Range(c) : d \notin Range(a)
    BY <2>1, <2>2, <2>4
  <2>6. Listed(a \o c, Deliveries) /\ \A d \in Range(a \o c) : d \in Range(a) \/ d \in Range(c)
    BY <2>1, <2>2, <2>5, ConcatListed
  <2>7. \A i \in 1..Len(due) : due[i] \in Range(due)
    BY <1>1
  <2>8. \A i : i \in 1..s \/ i \in s + n + 1..Len(due) => i \in 1..Len(due)
    BY <1>0, <1>1, <1>4
  <2> QED
    BY <2>1, <2>2, <2>3, <2>6, <2>7, <2>8
<1>13. /\ acked \subseteq acked' /\ acked' \subseteq Deliveries
       /\ failures' \in [Deliveries -> 0..MaxAttempts]
       /\ \A d \in Deliveries : failures[d] <= failures'[d]
  BY <1>1, <1>3, WalkAssumption DEF TypeOK, postVars
<1> QED
  BY <1>3, <1>9, <1>10, <1>11, <1>12, <1>13, JobMoves

\* Nothing but the job of a pump changes, and it holds less.
LEMMA JobShrinks ==
    ASSUME IInv, NEW p \in Pumps, NEW j \in JobSet, job' = [job EXCEPT ![p] = j],
           j.outcome = "none", \A i \in 1..Len(j.batch) : ClaimEarned(j.batch[i]),
           UNCHANGED <<subscriptionVars, eventVars, deliveryVars, postVars>>
    PROVE  IInv'
<1>0. TypeOK
  BY DEF IInv
<1>1. JobEarned(j)'
  BY DEF JobEarned, OutcomeEarned, ClaimEarned, postVars
<1>2. Listed(due, Deliveries)' /\ \A d \in Range(due') : d \in Range(due)
  BY <1>0, DueListed DEF deliveryVars
<1>3. /\ acked \subseteq acked' /\ acked' \subseteq Deliveries
      /\ failures' \in [Deliveries -> 0..MaxAttempts]
      /\ \A d \in Deliveries : failures[d] <= failures'[d]
  BY <1>0, WalkAssumption DEF TypeOK, postVars
<1> QED
  BY <1>1, <1>2, <1>3, JobMoves DEF deliveryVars

\* A pump dies, or its outcome goes unrecorded.
LEMMA DropKeeps ==
    ASSUME IInv, NEW p \in Pumps, MarkIgnored(p) \/ Crash(p)
    PROVE  IInv'
<1>0. TypeOK /\ Earned /\ UNCHANGED <<subscriptionVars, eventVars, deliveryVars, postVars>>
  BY DEF IInv, MarkIgnored, Crash
<1>1. CASE Crash(p)
  <2>1. job' = [job EXCEPT ![p] = Idle]
    BY <1>1 DEF Crash
  <2>2. \A i \in 1..Len(Idle.batch) : ClaimEarned(Idle.batch[i])
    BY IdleEarned DEF JobEarned
  <2> QED
    BY <1>0, <2>1, <2>2, RowShapes, JobShrinks
<1>2. CASE MarkIgnored(p)
  <2> DEFINE j == [batch |-> Tail(job[p].batch), outcome |-> "none"]
  <2>1. job[p].batch # <<>>
    BY <1>0, <1>2 DEF MarkIgnored, TypeOK
  <2>2. /\ Tail(job[p].batch) \in Seq(Claims)
        /\ \A i \in 1..Len(Tail(job[p].batch)) : ClaimEarned(Tail(job[p].batch)[i])
    BY <1>0, <2>1, HeadOfJob
  <2>3. /\ j \in JobSet /\ j.outcome = "none"
        /\ \A i \in 1..Len(j.batch) : ClaimEarned(j.batch[i])
    BY <2>2 DEF JobSet, Claims
  <2>4. job' = [job EXCEPT ![p] = j]
    BY <1>0, <1>2 DEF MarkIgnored, TypeOK
  <2> QED
    BY <1>0, <2>3, <2>4, JobShrinks
<1> QED
  BY <1>1, <1>2

\* A pump posts its first delivery and sees how that went.
LEMMA PostKeeps ==
    ASSUME IInv, NEW p \in Pumps, PostDelivery(p)
    PROVE  IInv'
<1>0. /\ TypeOK /\ Earned /\ job[p].batch # <<>> /\ job[p] \in JobSet
      /\ UNCHANGED <<subscriptionVars, eventVars, row, due>>
  BY DEF IInv, TypeOK, PostDelivery, deliveryVars
<1>1. PICK h \in Claims : h = Head(job[p].batch) /\ ClaimEarned(h)
  BY <1>0, HeadOfJob
<1>2. PICK d \in Deliveries : d = h.delivery
  BY <1>1 DEF Claims
<1>3. PICK o \in {"ok", "failed"} :
        /\ job' = [job EXCEPT ![p].outcome = o]
        /\ o = "ok" => acked' = acked \cup {d} /\ UNCHANGED failures
        /\ o = "failed" =>
             /\ failures' = [failures EXCEPT ![d] = IF @ < MaxAttempts THEN @ + 1 ELSE @]
             /\ UNCHANGED acked
  BY <1>1, <1>2 DEF PostDelivery
<1>4. PICK j \in JobSet : /\ j.batch = job[p].batch /\ j.outcome = o
                          /\ job' = [job EXCEPT ![p] = j]
  <2>1. PICK j : j = [job[p] EXCEPT !.outcome = o]
    OBVIOUS
  <2>2. j \in JobSet /\ j.batch = job[p].batch /\ j.outcome = o
    BY <1>0, <2>1 DEF JobSet
  <2>3. job' = [job EXCEPT ![p] = j]
    BY <1>3, <2>1
  <2> QED
    BY <2>2, <2>3
<1>5. /\ failures \in [Deliveries -> 0..MaxAttempts] /\ MaxAttempts \in Nat /\ h.attempts \in Nat
      /\ h.attempts <= failures[d] /\ h.attempts < MaxAttempts
  BY <1>0, <1>1, <1>2, WalkAssumption DEF TypeOK, ClaimEarned, Claims
<1>6. /\ acked \subseteq acked' /\ acked' \subseteq Deliveries
      /\ failures' \in [Deliveries -> 0..MaxAttempts]
      /\ \A x \in Deliveries : failures[x] <= failures'[x]
  <2>1. CASE o = "ok"
    BY <1>0, <1>2, <1>3, <1>5, <2>1 DEF TypeOK
  <2>2. CASE o = "failed"
    <3>1. /\ failures' = [failures EXCEPT ![d] = IF @ < MaxAttempts THEN @ + 1 ELSE @]
          /\ UNCHANGED acked
      BY <1>3, <2>2
    <3> QED
      BY <1>0, <1>5, <3>1 DEF TypeOK
  <2> QED
    BY <2>1, <2>2
<1>7. OutcomeEarned(j)'
  <2>1. o = "failed" => h.attempts + 1 <= failures'[d]
    BY <1>2, <1>3, <1>5
  <2>2. o = "ok" => d \in acked'
    BY <1>3
  <2> QED
    BY <1>1, <1>2, <1>4, <2>1, <2>2 DEF OutcomeEarned
<1>8. JobEarned(j)'
  <2>1. job[p].batch \in Seq(Claims)
    BY <1>0 DEF JobSet, Claims
  <2>2. \A i \in 1..Len(j.batch) : j.batch[i] \in Claims /\ ClaimEarned(j.batch[i])
    BY <1>0, <1>4, <2>1 DEF Earned, JobEarned
  <2>3. \A i \in 1..Len(j.batch) : ClaimEarned(j.batch[i])'
    BY <1>6, <2>2, EarnedKept
  <2> QED
    BY <1>7, <2>3 DEF JobEarned
<1>9. Listed(due, Deliveries)' /\ \A x \in Range(due') : x \in Range(due)
  BY <1>0, DueListed
<1> QED
  BY <1>0, <1>4, <1>6, <1>8, <1>9, JobMoves

\* A pump records its outcome on a row that is still pending.
LEMMA MarkKeeps ==
    ASSUME IInv, NEW p \in Pumps, MarkDelivery(p)
    PROVE  IInv'
<1>0. /\ TypeOK /\ Earned /\ job[p].batch # <<>> /\ job[p] \in JobSet
      /\ job[p].outcome \in {"ok", "failed"}
      /\ UNCHANGED <<subscriptionVars, eventVars, acked, failures>>
      /\ job' = [job EXCEPT ![p] = [batch |-> Tail(@.batch), outcome |-> "none"]]
  BY DEF IInv, TypeOK, JobSet, MarkDelivery, postVars
<1>1. PICK h \in Claims : h = Head(job[p].batch) /\ ClaimEarned(h)
  BY <1>0, HeadOfJob
<1>2. PICK d \in Deliveries : d = h.delivery
  BY <1>1 DEF Claims
<1>3. PICK end : /\ end = IF job[p].outcome = "ok" THEN "delivered"
                          ELSE DecideRetry(h.attempts + 1)
                 /\ row' = [row EXCEPT ![d] = [state |-> end, attempts |-> h.attempts + 1]]
                 /\ due' = RemoveFirst(due, d) /\ row[d].state = "pending"
  BY <1>1, <1>2 DEF MarkDelivery, Markable
<1>4. /\ h.attempts \in Nat /\ MaxAttempts \in Nat /\ failures[d] \in 0..MaxAttempts
      /\ h.attempts <= failures[d] /\ h.attempts < MaxAttempts
      /\ job[p].outcome = "ok" => d \in acked
      /\ job[p].outcome = "failed" => h.attempts + 1 <= failures[d]
  <2>1. OutcomeEarned(job[p])
    BY <1>0 DEF Earned, JobEarned
  <2> QED
    BY <1>0, <1>1, <1>2, <2>1, WalkAssumption DEF TypeOK, ClaimEarned, Claims, OutcomeEarned
<1>5. /\ end \in {"delivered", "dead", "pending"}
      /\ end = "delivered" => d \in acked
      /\ end = "dead" => failures[d] = MaxAttempts
      /\ end = "pending" => h.attempts + 1 < MaxAttempts /\ h.attempts + 1 <= failures[d]
  BY <1>0, <1>3, <1>4 DEF DecideRetry
<1>6. /\ row' \in [Deliveries -> [state : DeliveryStates, attempts : Nat]]
      /\ row'[d].state = end /\ row'[d].attempts = h.attempts + 1
      /\ \A x \in Deliveries : x # d => row'[x] = row[x]
  BY <1>0, <1>3, <1>4, <1>5 DEF TypeOK, DeliveryStates, Ended
<1>7. /\ Listed(due', Deliveries)
      /\ \A x \in Range(due') : x \in Range(due) /\ x # d
  BY <1>0, <1>3, DueListed, RemoveListed
<1>8. \A x \in Range(due') : row'[x].state = "pending"
  BY <1>0, <1>6, <1>7, DueListed
<1> DEFINE j == [batch |-> Tail(job[p].batch), outcome |-> "none"]
<1>9. /\ j \in JobSet /\ j.outcome = "none" /\ j.batch \in Seq(Claims)
      /\ \A i \in 1..Len(j.batch) : ClaimEarned(j.batch[i])
  BY <1>0, HeadOfJob DEF JobSet, Claims
<1>10. \A x \in Pumps : job'[x] = IF x = p THEN j ELSE job[x]
  BY <1>0 DEF TypeOK
<1>11. job' \in [Pumps -> JobSet]
  BY <1>0, <1>9 DEF TypeOK
<1> HIDE DEF j
<1>12. TypeOK'
  <2>1. \A x \in Pumps : job'[x].batch = <<>> => job'[x].outcome = "none"
    BY <1>0, <1>9, <1>10 DEF TypeOK
  <2> QED
    BY <1>0, <1>6, <1>7, <1>8, <1>11, <2>1 DEF TypeOK, Listed, subscriptionVars, eventVars
<1>13. /\ acked \subseteq acked'
       /\ \A x \in Deliveries : /\ failures'[x] \in 0..MaxAttempts
                                /\ failures[x] <= failures'[x]
  BY <1>0, WalkAssumption DEF TypeOK
<1>14. Earned'
  <2>1. \A x \in Deliveries : x # d => RowEarned(x)'
    BY <1>6, <1>13, EarnedKept
  <2>2. RowEarned(d)'
    BY <1>0, <1>5, <1>6 DEF RowEarned
  <2>3. \A x \in Pumps : x # p => JobEarned(job[x])'
    BY <1>10, <1>13, EarnedKept
  <2>4. JobEarned(job[p])'
    BY <1>0, <1>9, <1>10 DEF JobEarned, OutcomeEarned, ClaimEarned
  <2> QED
    BY <2>1, <2>2, <2>3, <2>4 DEF Earned
<1>15. EveryMatchExpanded'
  <2>1. \A x \in Deliveries : row[x] # NoRow => row'[x] # NoRow
    BY <1>5, <1>6, RowShapes
  <2> QED
    BY <1>0, <2>1, ExpandedKept
<1> QED
  BY <1>12, <1>14, <1>15 DEF IInv

-----------------------------------------------------------------------------
(* The theorems.                                                           *)

\* Every step keeps the invariant.
LEMMA WebhookStep == IInv /\ [Next]_vars => IInv'
<1> SUFFICES ASSUME IInv, [Next]_vars PROVE IInv'
  OBVIOUS
<1>0. Cardinality(Idlers) \in Nat
  BY MatchAssumption, FS_Subset, FS_CardinalityType DEF Idlers
<1>3. \A k \in 0..(Cardinality(Idlers) - 1) : k \in Nat
  BY <1>0
<1>1. CASE Next
  BY <1>1, <1>3, SubscriptionsKeep, DispatchKeeps, DueKeeps, ClaimKeeps, PostKeeps, MarkKeeps,
     DropKeeps, Zenon DEF Next
<1>2. CASE UNCHANGED vars
  <2>1. UNCHANGED <<subscriptionVars, eventVars, deliveryVars, job, postVars>>
    BY <1>2 DEF vars
  <2>2. TypeOK'
    BY <2>1 DEF IInv, TypeOK, subscriptionVars, eventVars, deliveryVars, postVars
  <2>3. Earned' /\ EveryMatchExpanded'
    BY <2>1, EarnedSame, ExpandedKept DEF deliveryVars
  <2> QED
    BY <2>2, <2>3 DEF IInv
<1> QED
  BY <1>1, <1>2

\* Rows, claims and counts stay in step with the requests really made.
THEOREM DeliveriesAccounted == Spec => []IInv
BY WebhookInit, WebhookStep, PTL DEF Spec

\* The due list names pending rows, each at most once, and a pump never holds
\* an outcome without the delivery it is about.
THEOREM TypeCorrect == Spec => []TypeOK
<1>1. IInv => TypeOK
  BY DEF IInv
<1> QED
  BY <1>1, DeliveriesAccounted, PTL

\* A subscription that was there in time has a row for every event dispatched
\* to it.
THEOREM NoMatchLost == Spec => []EveryMatchExpanded
<1>1. IInv => EveryMatchExpanded
  BY DEF IInv
<1> QED
  BY <1>1, DeliveriesAccounted, PTL

\* A delivered row was acknowledged, and a dead one failed MaxAttempts times,
\* however many pumps wrote their counts over one another's.
THEOREM OutcomesEarned == Spec => []OutcomesAreEarned
<1>1. IInv => OutcomesAreEarned
  BY DEF IInv, Earned, RowEarned, OutcomesAreEarned
<1> QED
  BY <1>1, DeliveriesAccounted, PTL

\* A delivery that has ended is never written again.
THEOREM EndedForGood == Spec => EndedIsFinal
<1>1. IInv /\ [Next]_vars =>
        [\A d \in Deliveries : row[d].state \in Ended => row'[d] = row[d]]_vars
  <2> SUFFICES ASSUME IInv, Next, NEW d \in Deliveries, row[d].state \in Ended
               PROVE  row'[d] = row[d]
    BY Zenon
  <2>0. TypeOK /\ row[d].state \notin {"pending", "absent"}
    BY DEF IInv, Ended
  <2>1. CASE UNCHANGED row
    BY <2>1
  <2>2. ASSUME NEW e \in Events, DispatchEvent(e) PROVE row'[d] = row[d]
    <3>1. row' = [x \in Deliveries |->
                    IF x \in {y \in Matches(e) \X {e} : row[y] = NoRow} THEN NewRow ELSE row[x]]
      BY <2>2, Zenon DEF DispatchEvent
    <3> QED
      BY <2>0, <3>1, RowShapes
  <2>3. ASSUME NEW p \in Pumps, MarkDelivery(p) PROVE row'[d] = row[d]
    <3>1. PICK x, v : row' = [row EXCEPT ![x] = v] /\ row[x].state = "pending"
      BY <2>3 DEF MarkDelivery, Markable
    <3> QED
      BY <2>0, <3>1 DEF TypeOK
  <2>4. \/ UNCHANGED row
        \/ \E e \in Events : DispatchEvent(e)
        \/ \E p \in Pumps : MarkDelivery(p)
    BY DEF Next, CreateSubscription, RevokeSubscription, RecordEvent, TaskCloses, ComesDue,
       ClaimDueDeliveries, PostDelivery, MarkIgnored, Crash, deliveryVars
  <2> QED
    BY <2>1, <2>2, <2>3, <2>4
<1> QED
  BY <1>1, DeliveriesAccounted, PTL DEF Spec, EndedIsFinal
=============================================================================
