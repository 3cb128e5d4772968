------------------------- MODULE MarketplaceProofs -------------------------
(* Proofs about Marketplace, for every set of users, tasks and amounts.    *)
EXTENDS Marketplace, TLAPS

USE DEF Accounts

-----------------------------------------------------------------------------
(* Facts about the helpers.                                                *)

\* A ledger entry keeps every balance an integer and moves only its account.
LEMMA PostedType ==
    ASSUME NEW b \in [Accounts -> Int], NEW a, NEW n \in Int
    PROVE  /\ Posted(b, a, n) \in [Accounts -> Int]
           /\ \A x \in Accounts :
                Posted(b, a, n)[x] = IF x = a THEN b[x] + n ELSE b[x]
BY DEF Posted

\* A double entry keeps every balance an integer.
LEMMA TransferredType ==
    ASSUME NEW b \in [Accounts -> Int], NEW x, NEW y, NEW n \in Int
    PROVE  Transferred(b, x, y, n) \in [Accounts -> Int]
<1>1. -n \in Int
  OBVIOUS
<1>2. Posted(b, x, -n) \in [Accounts -> Int]
  BY <1>1, PostedType
<1> QED
  BY <1>2, PostedType DEF Transferred

\* Ending some reservations leaves every row well formed.
LEMMA DroppedType ==
    ASSUME WorkTypes, NEW ended \in SUBSET {r \in Reservations : res[r].state \in Held}
    PROVE  Dropped(ended) \in [Reservations -> ReservationSet]
BY DEF WorkTypes, Dropped, ReservationSet, ReservationStates, NoReservation, Held

\* Releasing the lapsed reservations leaves every row well formed.
LEMMA ReleasedType ==
    ASSUME WorkTypes
    PROVE  Released \in [Reservations -> ReservationSet]
BY DEF WorkTypes, Released, ReservationSet, ReservationStates, NoReservation

-----------------------------------------------------------------------------
(* Type correctness.                                                       *)

\* Every initial state is well typed.
LEMMA TypeInit == Init => TypeOK
BY PartiesAssumption, TasksAssumption, CreditAssumption
DEF Init, TypeOK, TaskTypes, EscrowTypes, LedgerTypes, CollectibleTypes,
    WorkTypes, TaskStates, CollectibleStates, SubmissionSet, ReservationSet,
    RequestSet

\* A funding keeps the rows well typed.
LEMMA FundType ==
    ASSUME TypeOK, NEW a \in Accounts, NEW t \in Tasks, NEW n \in Amounts,
           NEW k \in Keys, Fund(a, t, n, k)
    PROVE  TypeOK'
<1>n. n \in Nat \ {0} /\ -n \in Int
  BY CreditAssumption
<1>1. TaskTypes'
  BY <1>n DEF Fund, RequireFundableTask, DeclareCredits, TypeOK, TaskTypes, RewardKinds,
         CreditKinds
<1>2. EscrowTypes'
  BY <1>n, PartiesAssumption
  DEF Fund, CompleteFunding, SetAside, TypeOK, EscrowTypes
<1>3. LedgerTypes'
  <2>1. balance' \in [Accounts -> Int]
    BY <1>n, PostedType DEF Fund, CompleteFunding, SetAside, TypeOK, LedgerTypes
  <2>2. Entry(a, Bare(k), "task_fund", t, -n) \in EntrySet
    BY <1>n DEF Entry, Bare, EntrySet, KeySet, KeyUses, EntryKinds
  <2> QED
    BY <2>1, <2>2 DEF Fund, CompleteFunding, SetAside, TypeOK, LedgerTypes
<1>4. CollectibleTypes' /\ WorkTypes'
  BY DEF Fund, TypeOK, CollectibleTypes, WorkTypes, collectibleVars, workVars
<1> QED
  BY <1>1, <1>2, <1>3, <1>4 DEF TypeOK

\* Returning a fund row to its funder keeps escrow and balances well typed.
LEMMA RefundCreditsType ==
    ASSUME TypeOK, NEW t \in Tasks, RefundCredits(t)
    PROVE  EscrowTypes' /\ balance' \in [Accounts -> Int]
<1>1. fund[t] \in Int
  BY DEF TypeOK, EscrowTypes
<1>2. balance' \in [Accounts -> Int]
  BY <1>1, PostedType DEF RefundCredits, TypeOK, LedgerTypes
<1>3. EscrowTypes'
  BY DEF RefundCredits, TypeOK, EscrowTypes
<1> QED
  BY <1>2, <1>3

\* Returning the collectibles of a task keeps them well typed.
LEMMA ReturnCollectiblesType ==
    ASSUME TypeOK, NEW t \in Tasks, ReturnCollectibles(t)
    PROVE  CollectibleTypes'
BY DEF TypeOK, CollectibleTypes, ReturnCollectibles, CollectibleStates

\* Releasing the reservations of a task keeps them well typed.
LEMMA ReleaseReservationsType ==
    ASSUME TypeOK, NEW t \in Tasks, ReleaseReservations(t)
    PROVE  res' \in [Reservations -> ReservationSet]
BY DroppedType DEF TypeOK, ReleaseReservations, HeldReservations

\* The entries of a payout or a tip are ledger entries.
LEMMA ReviewEntriesType ==
    ASSUME NEW v \in Accounts, NEW w \in Users, NEW t \in Tasks, NEW k \in Keys,
           NEW n \in Nat, NEW tip \in Nat
    PROVE  /\ PayoutEntries(w, t, k, n) \subseteq EntrySet
           /\ TipEntries(v, w, t, k, tip) \subseteq EntrySet
<1>1. n \in Int /\ tip \in Int /\ -tip \in Int
  OBVIOUS
<1> QED
  BY <1>1 DEF PayoutEntries, TipEntries, Entry, Bare, Derived, EntrySet,
         KeySet, KeyUses, EntryKinds

\* A refund keeps the rows well typed.
LEMMA RefundTaskType ==
    ASSUME TypeOK, NEW t \in Tasks, NEW k \in Keys, RefundTask(t, k)
    PROVE  TypeOK'
<1>1. TaskTypes'
  BY DEF RefundTask, TypeOK, TaskTypes, TaskStates
<1>2. EscrowTypes' /\ CollectibleTypes' /\ WorkTypes'
  BY RefundCreditsType, ReturnCollectiblesType, ReleaseReservationsType
  DEF RefundTask, TypeOK, WorkTypes
<1>3. Entry(funder[t], Bare(k), "task_refund", t, fund[t]) \in EntrySet
  BY DEF RefundTask, TypeOK, EscrowTypes, Entry, Bare, EntrySet, KeySet,
         KeyUses, EntryKinds
<1>4. LedgerTypes'
  BY <1>3, RefundCreditsType DEF RefundTask, TypeOK, LedgerTypes
<1> QED
  BY <1>1, <1>2, <1>4 DEF TypeOK

\* An expiry keeps the rows well typed.
LEMMA ExpireTaskType ==
    ASSUME TypeOK, NEW t \in Tasks, ExpireTask(t)
    PROVE  TypeOK'
<1>1. TaskTypes'
  BY DEF ExpireTask, TypeOK, TaskTypes, TaskStates
<1>2. EscrowTypes' /\ CollectibleTypes' /\ WorkTypes'
  BY RefundCreditsType, ReturnCollectiblesType, ReleaseReservationsType
  DEF ExpireTask, TypeOK, WorkTypes
<1>3. fund[t] > 0 =>
        Entry(funder[t], Derived("expire", t), "task_refund", t, fund[t]) \in EntrySet
  BY DEF TypeOK, EscrowTypes, Entry, Derived, EntrySet, KeySet, KeyUses,
         EntryKinds
<1>4. LedgerTypes'
  BY <1>3, RefundCreditsType DEF ExpireTask, TypeOK, LedgerTypes
<1> QED
  BY <1>1, <1>2, <1>4 DEF TypeOK

\* The facts about a submission under review.
LEMMA UnderReview ==
    ASSUME TypeOK, NEW s \in Submissions, sub[s].state = "submitted"
    PROVE  /\ sub[s].user \in Users /\ sub[s].task \in Tasks
           /\ sub[s] \in [state : SubmissionStates \ {"absent"}, task : Tasks,
                          user : Users]
BY DEF TypeOK, WorkTypes, SubmissionSet, NoSubmission

\* What an acceptance pays (n), the balances before its tip (paid) and the
\* rows it writes.
AcceptWrites(v, t, s, k, pay, tip) ==
    LET n == Payout(t, pay)
        paid == Settled(sub[s].user, t, n)
    IN
    /\ sub[s].state = "submitted" /\ sub[s].task = t
    /\ sub[s].user \in Users
    /\ n \in Nat /\ n <= fund[t] /\ fund[t] - n \in Nat /\ tip \in Nat
    /\ paid \in [Accounts -> Int]
    /\ TipAllowed(paid, v, sub[s].user, k, tip)
    /\ balance' = Transferred(paid, v, sub[s].user, tip)
    /\ keyed' = keyed \cup PayoutEntries(sub[s].user, t, k, n)
                      \cup TipEntries(v, sub[s].user, t, k, tip)
    /\ fund' = [fund EXCEPT ![t] = 0]
    /\ funder' = [funder EXCEPT ![t] = None]
    /\ books' = [books EXCEPT ![t] = @ - n - (fund[t] - n)]
    /\ held' = {p \in held : p[1] # t}
    /\ state[t] = "open"
    /\ state' = [state EXCEPT ![t] = "closed"]

\* An acceptance does write that.
LEMMA AcceptEffect ==
    ASSUME TypeOK, NEW v \in Accounts, NEW t \in Tasks, NEW s \in Submissions,
           NEW k \in Keys, NEW pay \in Amounts \cup {0},
           NEW tip \in Amounts \cup {0}, NEW gift \in Collectibles \cup {None},
           AcceptSubmission(v, t, s, k, pay, tip, gift)
    PROVE  AcceptWrites(v, t, s, k, pay, tip)
<1> DEFINE n == Payout(t, pay)
           paid == Settled(sub[s].user, t, n)
<1>1. /\ sub[s].state = "submitted" /\ sub[s].task = t
      /\ PayoutAllowed(sub[s].user, t, k, n)
      /\ TipAllowed(paid, v, sub[s].user, k, tip)
      /\ balance' = Transferred(paid, v, sub[s].user, tip)
      /\ keyed' = keyed \cup PayoutEntries(sub[s].user, t, k, n)
                        \cup TipEntries(v, sub[s].user, t, k, tip)
      /\ fund' = [fund EXCEPT ![t] = 0]
      /\ funder' = [funder EXCEPT ![t] = None]
      /\ books' = [books EXCEPT ![t] = @ - n - (fund[t] - n)]
      /\ held' = {p \in held : p[1] # t}
      /\ state[t] = "open"
      /\ state' = [state EXCEPT ![t] = "closed"]
  BY Zenon DEF AcceptSubmission, Reviewable
<1>2. sub[s].user \in Users
  BY <1>1, UnderReview
<1>3. n \in Nat /\ n <= fund[t] /\ fund[t] - n \in Nat /\ tip \in Nat
  <2>1. fund[t] \in Nat /\ pay \in Nat /\ tip \in Nat
    BY CreditAssumption DEF TypeOK, EscrowTypes
  <2>2. n \in Nat
    BY <2>1 DEF Payout
  <2>3. n <= fund[t]
    BY <1>1 DEF PayoutAllowed
  <2> QED
    BY <2>1, <2>2, <2>3
<1>4. Posted(balance, sub[s].user, n) \in [Accounts -> Int]
  <2>1. n \in Int
    BY <1>3
  <2> QED
    BY <2>1, PostedType DEF TypeOK, LedgerTypes
<1>5. paid \in [Accounts -> Int]
  <2>1. fund[t] - n \in Int
    BY <1>3
  <2> QED
    BY <2>1, <1>4, PostedType DEF Settled
<1> QED
  BY <1>1, <1>2, <1>3, <1>5 DEF AcceptWrites

\* An acceptance keeps the rows well typed.
LEMMA AcceptSubmissionType ==
    ASSUME TypeOK, NEW v \in Accounts, NEW t \in Tasks, NEW s \in Submissions,
           NEW k \in Keys, NEW pay \in Amounts \cup {0},
           NEW tip \in Amounts \cup {0}, NEW gift \in Collectibles \cup {None},
           AcceptSubmission(v, t, s, k, pay, tip, gift)
    PROVE  TypeOK'
<1> DEFINE w == sub[s].user
           n == Payout(t, pay)
           paid == Settled(w, t, n)
           owner == [c \in Collectibles |->
                       IF c \in HeldFor(t) THEN w ELSE cowner[c]]
<1>0. AcceptWrites(v, t, s, k, pay, tip)
  BY AcceptEffect
<1>1. /\ sub[s].state = "submitted"
      /\ w \in Users
      /\ n \in Nat /\ n <= fund[t] /\ fund[t] - n \in Nat /\ tip \in Nat
      /\ paid \in [Accounts -> Int]
      /\ balance' = Transferred(paid, v, w, tip)
      /\ keyed' = keyed \cup PayoutEntries(w, t, k, n)
                        \cup TipEntries(v, w, t, k, tip)
      /\ fund' = [fund EXCEPT ![t] = 0]
      /\ funder' = [funder EXCEPT ![t] = None]
      /\ books' = [books EXCEPT ![t] = @ - n - (fund[t] - n)]
      /\ held' = {p \in held : p[1] # t}
      /\ state' = [state EXCEPT ![t] = "closed"]
  BY <1>0, Zenon DEF AcceptWrites
<1>2. /\ cstate' = [c \in Collectibles |->
                      IF c \in HeldFor(t) THEN "minted" ELSE cstate[c]]
      /\ cowner' = [c \in Collectibles |-> IF c = gift THEN w ELSE owner[c]]
      /\ sub' = [x \in Submissions |->
                   CASE x = s -> [sub[x] EXCEPT !.state = "accepted"]
                     [] x # s /\ sub[x].task = t /\ sub[x].state = "submitted"
                          -> [sub[x] EXCEPT !.state = "superseded"]
                     [] OTHER -> sub[x]]
      /\ UNCHANGED <<kind, declared, due, issued, sent, res, bans, req>>
  BY Zenon DEF AcceptSubmission, Reviewable
<1>3. LedgerTypes'
  <2>1. balance' \in [Accounts -> Int]
    <3>1. tip \in Int
      BY <1>1
    <3> HIDE DEF paid
    <3> QED
      BY <3>1, <1>1, TransferredType
  <2>2. PayoutEntries(w, t, k, n) \subseteq EntrySet
        /\ TipEntries(v, w, t, k, tip) \subseteq EntrySet
    <3> HIDE DEF n, w
    <3> QED
      BY <1>1, ReviewEntriesType
  <2> QED
    BY <1>1, <1>2, <2>1, <2>2 DEF TypeOK, LedgerTypes
<1>4. TaskTypes'
  BY <1>1, <1>2 DEF TypeOK, TaskTypes, TaskStates
<1>5. EscrowTypes'
  <2> HIDE DEF n
  <2> QED
    BY <1>1 DEF TypeOK, EscrowTypes
<1>6. CollectibleTypes'
  <2>1. owner \in [Collectibles -> Users]
    BY <1>1 DEF TypeOK, CollectibleTypes
  <2> HIDE DEF owner, w
  <2> QED
    BY <2>1, <1>1, <1>2 DEF TypeOK, CollectibleTypes, CollectibleStates
<1>7. WorkTypes'
  <2>1. ASSUME NEW x \in Submissions
        PROVE  sub'[x] \in SubmissionSet
    <3>1. CASE x = s
      BY <3>1, <1>1, <1>2, UnderReview DEF SubmissionSet, SubmissionStates
    <3>2. CASE x # s /\ sub[x].task = t /\ sub[x].state = "submitted"
      BY <3>2, <1>2, UnderReview DEF SubmissionSet, SubmissionStates
    <3>3. CASE x # s /\ ~(sub[x].task = t /\ sub[x].state = "submitted")
      BY <3>3, <1>2 DEF TypeOK, WorkTypes
    <3> QED
      BY <3>1, <3>2, <3>3
  <2> QED
    BY <2>1, <1>2 DEF TypeOK, WorkTypes
<1> QED
  BY <1>3, <1>4, <1>5, <1>6, <1>7 DEF TypeOK

\* What a rejection writes.
RejectWrites(v, t, s, k, pay, tip) ==
    LET paid == Posted(balance, sub[s].user, pay)
    IN
    /\ sub[s].state = "submitted" /\ sub[s].task = t
    /\ sub[s].user \in Users
    /\ pay \in Nat /\ pay <= fund[t] /\ fund[t] - pay \in Nat /\ tip \in Nat
    /\ paid \in [Accounts -> Int]
    /\ TipAllowed(paid, v, sub[s].user, k, tip)
    /\ balance' = Transferred(paid, v, sub[s].user, tip)
    /\ keyed' = keyed \cup PayoutEntries(sub[s].user, t, k, pay)
                      \cup TipEntries(v, sub[s].user, t, k, tip)
    /\ fund' = [fund EXCEPT ![t] = @ - pay]
    /\ funder' = [funder EXCEPT ![t] = IF fund[t] = pay THEN None ELSE @]
    /\ books' = [books EXCEPT ![t] = @ - pay]

\* A rejection does write that.
LEMMA RejectEffect ==
    ASSUME TypeOK, NEW v \in Accounts, NEW t \in Tasks, NEW s \in Submissions,
           NEW k \in Keys, NEW pay \in Amounts \cup {0},
           NEW tip \in Amounts \cup {0}, NEW ban \in BOOLEAN,
           RejectSubmission(v, t, s, k, pay, tip, ban)
    PROVE  RejectWrites(v, t, s, k, pay, tip)
<1> DEFINE paid == Posted(balance, sub[s].user, pay)
<1>1. /\ sub[s].state = "submitted" /\ sub[s].task = t
      /\ PayoutAllowed(sub[s].user, t, k, pay)
      /\ TipAllowed(paid, v, sub[s].user, k, tip)
      /\ balance' = Transferred(paid, v, sub[s].user, tip)
      /\ keyed' = keyed \cup PayoutEntries(sub[s].user, t, k, pay)
                        \cup TipEntries(v, sub[s].user, t, k, tip)
      /\ fund' = [fund EXCEPT ![t] = @ - pay]
      /\ funder' = [funder EXCEPT ![t] = IF fund[t] = pay THEN None ELSE @]
      /\ books' = [books EXCEPT ![t] = @ - pay]
  BY Zenon DEF RejectSubmission, Reviewable
<1>2. sub[s].user \in Users
  BY <1>1, UnderReview
<1>3. pay \in Nat /\ pay <= fund[t] /\ fund[t] - pay \in Nat /\ tip \in Nat
  <2>1. fund[t] \in Nat /\ pay \in Nat /\ tip \in Nat
    BY CreditAssumption DEF TypeOK, EscrowTypes
  <2>2. pay <= fund[t]
    BY <1>1 DEF PayoutAllowed
  <2> QED
    BY <2>1, <2>2
<1>4. paid \in [Accounts -> Int]
  <2>1. pay \in Int
    BY <1>3
  <2> QED
    BY <2>1, PostedType DEF TypeOK, LedgerTypes
<1> QED
  BY <1>1, <1>2, <1>3, <1>4 DEF RejectWrites

\* A rejection keeps the rows well typed.
LEMMA RejectSubmissionType ==
    ASSUME TypeOK, NEW v \in Accounts, NEW t \in Tasks, NEW s \in Submissions,
           NEW k \in Keys, NEW pay \in Amounts \cup {0},
           NEW tip \in Amounts \cup {0}, NEW ban \in BOOLEAN,
           RejectSubmission(v, t, s, k, pay, tip, ban)
    PROVE  TypeOK'
<1> DEFINE w == sub[s].user
           paid == Posted(balance, w, pay)
<1>0. RejectWrites(v, t, s, k, pay, tip)
  BY RejectEffect
<1>1. /\ sub[s].state = "submitted"
      /\ w \in Users
      /\ pay \in Nat /\ pay <= fund[t] /\ fund[t] - pay \in Nat /\ tip \in Nat
      /\ paid \in [Accounts -> Int]
      /\ balance' = Transferred(paid, v, w, tip)
      /\ keyed' = keyed \cup PayoutEntries(w, t, k, pay)
                        \cup TipEntries(v, w, t, k, tip)
      /\ fund' = [fund EXCEPT ![t] = @ - pay]
      /\ funder' = [funder EXCEPT ![t] = IF fund[t] = pay THEN None ELSE @]
      /\ books' = [books EXCEPT ![t] = @ - pay]
  BY <1>0, Zenon DEF RejectWrites
<1>2. /\ sub' = [sub EXCEPT ![s].state = "rejected"]
      /\ EndReservations(t, w)
      /\ bans' = IF ban THEN bans \cup {<<t, w>>} ELSE bans
      /\ UNCHANGED <<taskVars, issued, sent, collectibleVars, req>>
  BY Zenon DEF RejectSubmission, Reviewable
<1>3. LedgerTypes'
  <2>1. balance' \in [Accounts -> Int]
    <3>1. tip \in Int
      BY <1>1
    <3> HIDE DEF paid
    <3> QED
      BY <3>1, <1>1, TransferredType
  <2>2. PayoutEntries(w, t, k, pay) \subseteq EntrySet
        /\ TipEntries(v, w, t, k, tip) \subseteq EntrySet
    <3> HIDE DEF w
    <3> QED
      BY <1>1, ReviewEntriesType
  <2> QED
    BY <1>1, <1>2, <2>1, <2>2 DEF TypeOK, LedgerTypes
<1>4. TaskTypes' /\ CollectibleTypes'
  BY <1>2 DEF TypeOK, TaskTypes, CollectibleTypes, taskVars, collectibleVars
<1>5. EscrowTypes'
  BY <1>1 DEF TypeOK, EscrowTypes
<1>6. WorkTypes'
  <2>1. ASSUME NEW x \in Submissions
        PROVE  sub'[x] \in SubmissionSet
    <3>1. CASE x = s
      BY <3>1, <1>1, <1>2, UnderReview
      DEF TypeOK, WorkTypes, SubmissionSet, SubmissionStates
    <3>2. CASE x # s
      BY <3>2, <1>2 DEF TypeOK, WorkTypes
    <3> QED
      BY <3>1, <3>2
  <2>2. res' \in [Reservations -> ReservationSet]
    BY <1>2, DroppedType DEF EndReservations, HeldReservations, TypeOK
  <2>3. bans' \subseteq Tasks \X Users
    BY <1>1, <1>2 DEF TypeOK, WorkTypes
  <2> QED
    BY <1>2, <2>1, <2>2, <2>3 DEF TypeOK, WorkTypes
<1> QED
  BY <1>3, <1>4, <1>5, <1>6 DEF TypeOK

\* A collectible that is escrowed at creation or by a funding.
LEMMA CreationType ==
    ASSUME TypeOK, NEW t \in Tasks
    PROVE  /\ \A chosen \in SUBSET Collectibles : CreateTask(t, chosen) => TypeOK'
           /\ \A c \in Collectibles : FundCollectibleReward(t, c) => TypeOK'
<1>1. ASSUME NEW chosen \in SUBSET Collectibles, CreateTask(t, chosen)
      PROVE  TypeOK'
  BY <1>1 DEF CreateTask, TypeOK, TaskTypes, EscrowTypes, LedgerTypes, CollectibleTypes,
         WorkTypes, TaskStates, CollectibleStates, escrowVars, ledgerVars,
         workVars
<1>2. ASSUME NEW c \in Collectibles, FundCollectibleReward(t, c)
      PROVE  TypeOK'
  BY <1>2 DEF FundCollectibleReward, TypeOK, TaskTypes, EscrowTypes, LedgerTypes,
         CollectibleTypes, WorkTypes, RewardKinds, CollectibleStates,
         escrowVars, ledgerVars, workVars
<1> QED
  BY <1>1, <1>2

\* The other steps of a task's life cycle keep the rows well typed.
LEMMA LifecycleType ==
    ASSUME TypeOK, LifecycleStep
    PROVE  TypeOK'
<1> USE DEF Targets
<1>1. ASSUME NEW q \in Requests, NEW t \in Tasks, NEW target \in Targets,
             BeginChangeState(q, t, target)
      PROVE  TypeOK'
  <2>1. req' \in [Requests -> RequestSet]
    BY <1>1 DEF BeginChangeState, TypeOK, WorkTypes, RequestSet
  <2> QED
    BY <1>1, <2>1 DEF BeginChangeState, TypeOK, TaskTypes, EscrowTypes,
         LedgerTypes, CollectibleTypes, WorkTypes, taskVars, escrowVars,
         ledgerVars, collectibleVars, workVars
<1>2. ASSUME NEW q \in Requests, req[q].op \in Targets
      PROVE  req[q].task \in Tasks
  BY <1>2 DEF TypeOK, WorkTypes, RequestSet, Idle
<1>3. ASSUME NEW q \in Requests, OpenTask(q) \/ UnpublishTask(q)
      PROVE  TypeOK'
  <2>1. req' \in [Requests -> RequestSet]
    BY <1>3 DEF OpenTask, UnpublishTask, TypeOK, WorkTypes, RequestSet
  <2>2. TaskTypes'
    BY <1>2, <1>3 DEF OpenTask, UnpublishTask, TypeOK, TaskTypes, TaskStates
  <2> QED
    BY <1>3, <2>1, <2>2 DEF OpenTask, UnpublishTask, TypeOK, EscrowTypes,
         LedgerTypes, CollectibleTypes, WorkTypes, escrowVars, ledgerVars,
         collectibleVars, workVars
<1>4. ASSUME NEW q \in Requests, CancelTask(q)
      PROVE  TypeOK'
  <2> DEFINE t == req[q].task
  <2>1. t \in Tasks
    BY <1>2, <1>4 DEF CancelTask
  <2>2. RefundCredits(t) /\ ReturnCollectibles(t) /\ ReleaseReservations(t)
    BY <1>4 DEF CancelTask
  <2>3. EscrowTypes' /\ balance' \in [Accounts -> Int] /\ CollectibleTypes'
        /\ res' \in [Reservations -> ReservationSet]
    BY <2>1, <2>2, RefundCreditsType, ReturnCollectiblesType, ReleaseReservationsType
  <2>4. req' \in [Requests -> RequestSet]
    BY <1>4 DEF CancelTask, TypeOK, WorkTypes, RequestSet
  <2>5. TaskTypes'
    BY <1>4, <2>1 DEF CancelTask, TypeOK, TaskTypes, TaskStates
  <2> QED
    BY <1>4, <2>3, <2>4, <2>5 DEF CancelTask, TypeOK, LedgerTypes, WorkTypes
<1>5. ASSUME NEW t \in Tasks, TaskFallsDue(t)
      PROVE  TypeOK'
  BY <1>5 DEF TaskFallsDue, TypeOK, TaskTypes, EscrowTypes, LedgerTypes,
         CollectibleTypes, WorkTypes, escrowVars, ledgerVars, collectibleVars,
         workVars
<1> QED
  BY <1>1, <1>3, <1>4, <1>5, ExpireTaskType DEF LifecycleStep

\* Reserving and submitting keep the rows well typed.
LEMMA WorkType ==
    ASSUME TypeOK, WorkStep
    PROVE  TypeOK'
<1> USE DEF taskVars, escrowVars, ledgerVars, collectibleVars
<1>0. ASSUME TaskTypes', UNCHANGED <<escrowVars, ledgerVars, collectibleVars>>,
             WorkTypes'
      PROVE  TypeOK'
  BY <1>0 DEF TypeOK, EscrowTypes, LedgerTypes, CollectibleTypes
<1>t. UNCHANGED taskVars => TaskTypes'
  BY DEF TypeOK, TaskTypes
<1>1. ASSUME NEW r \in Reservations, NEW t \in Tasks, NEW a \in Users \cup Teams,
             Reserve(r, t, a)
      PROVE  TypeOK'
  <2>1. res' \in [Reservations -> ReservationSet]
    BY <1>1, ReleasedType DEF Reserve, TypeOK, ReservationSet, ReservationStates
  <2> QED
    BY <1>0, <1>t, <1>1, <2>1 DEF Reserve, TypeOK, WorkTypes
<1>2. ASSUME NEW r \in Reservations, NEW end \in ReservationEnds,
             CancelReservation(r, end)
      PROVE  TypeOK'
  <2>1. res' \in [Reservations -> ReservationSet]
    BY <1>2, ReleasedType DEF CancelReservation, TypeOK, ReservationSet, NoReservation,
         ReservationStates, ReservationEnds
  <2> QED
    BY <1>0, <1>t, <1>2, <2>1 DEF CancelReservation, TypeOK, WorkTypes
<1>3. ASSUME NEW r \in Reservations, ReservationLapses(r)
      PROVE  TypeOK'
  <2>1. res' \in [Reservations -> ReservationSet]
    <3>1. ASSUME NEW x \in Reservations
          PROVE  res'[x] \in ReservationSet
      <4>1. res[r] \in [state : ReservationStates \ {"absent"}, task : Tasks,
                        assignee : Users \cup Teams, lapsed : BOOLEAN]
        BY <1>3 DEF ReservationLapses, TypeOK, WorkTypes, ReservationSet,
           NoReservation, Held
      <4>2. res'[x] = IF x = r THEN [res[r] EXCEPT !.lapsed = TRUE] ELSE res[x]
        BY <1>3 DEF ReservationLapses, TypeOK, WorkTypes
      <4> QED
        BY <4>1, <4>2 DEF TypeOK, WorkTypes, ReservationSet
    <3> QED
      BY <1>3, <3>1 DEF ReservationLapses, TypeOK, WorkTypes
  <2> QED
    BY <1>0, <1>t, <1>3, <2>1 DEF ReservationLapses, TypeOK, WorkTypes
<1>4. ASSUME ExpireDueReservations
      PROVE  TypeOK'
  BY <1>0, <1>t, <1>4, ReleasedType DEF ExpireDueReservations, TypeOK, WorkTypes
<1>5. ASSUME NEW q \in Requests, NEW t \in Tasks, NEW u \in Users, BeginSubmit(q, t, u)
      PROVE  TypeOK'
  <2>1. req' \in [Requests -> RequestSet]
    BY <1>5 DEF BeginSubmit, TypeOK, WorkTypes, RequestSet
  <2> QED
    BY <1>0, <1>t, <1>5, <2>1, ReleasedType DEF BeginSubmit, TypeOK, WorkTypes
<1>6. ASSUME NEW q \in Requests, NEW s \in Submissions,
             NEW outcome \in {"submitted", "invalid"}, CreateSubmission(q, s, outcome)
      PROVE  TypeOK'
  <2>1. req[q].task \in Tasks /\ req[q].user \in Users
    BY <1>6 DEF CreateSubmission, TypeOK, WorkTypes, RequestSet, Idle, Targets
  <2>2. req' \in [Requests -> RequestSet]
    BY <1>6 DEF CreateSubmission, TypeOK, WorkTypes, RequestSet
  <2>3. sub' \in [Submissions -> SubmissionSet]
    BY <1>6, <2>1 DEF CreateSubmission, TypeOK, WorkTypes, SubmissionSet, SubmissionStates
  <2>4. res' \in [Reservations -> ReservationSet]
    BY <1>6, <2>1 DEF CreateSubmission, TypeOK, WorkTypes, ReservationSet,
         NoReservation, ReservationStates
  <2> QED
    BY <1>0, <1>t, <1>6, <2>2, <2>3, <2>4 DEF CreateSubmission, TypeOK, WorkTypes
<1> QED
  BY <1>1, <1>2, <1>3, <1>4, <1>5, <1>6 DEF WorkStep

\* A request for changes keeps the rows well typed.
LEMMA RequestChangesType ==
    ASSUME TypeOK, NEW t \in Tasks, NEW s \in Submissions, NEW k \in Keys,
           RequestChanges(t, s)
    PROVE  TypeOK'
<1>1. sub' \in [Submissions -> SubmissionSet]
  <2>1. ASSUME NEW x \in Submissions
        PROVE  sub'[x] \in SubmissionSet
    <3>1. CASE x = s
      BY <3>1, UnderReview
      DEF RequestChanges, Reviewable, TypeOK, WorkTypes, SubmissionSet, SubmissionStates
    <3>2. CASE x # s
      BY <3>2 DEF RequestChanges, Reviewable, TypeOK, WorkTypes
    <3> QED
      BY <3>1, <3>2
  <2> QED
    BY <2>1 DEF RequestChanges, Reviewable, TypeOK, WorkTypes
<1>2. res' \in [Reservations -> ReservationSet]
  BY DEF RequestChanges, Reviewable, Reactivated, TypeOK, WorkTypes, ReservationSet,
         NoReservation, ReservationStates
<1> QED
  BY <1>1, <1>2 DEF RequestChanges, Reviewable, TypeOK, TaskTypes, EscrowTypes, LedgerTypes,
         CollectibleTypes, WorkTypes, taskVars, escrowVars, ledgerVars,
         collectibleVars

\* Movements outside a task keep the rows well typed.
LEMMA MovementType ==
    ASSUME TypeOK, MovementStep
    PROVE  TypeOK'
<1> USE DEF taskVars, escrowVars, ledgerVars, collectibleVars, workVars
<1>0. ASSUME LedgerTypes', UNCHANGED <<taskVars, escrowVars, collectibleVars, workVars, req>>
      PROVE  TypeOK'
  BY <1>0 DEF TypeOK, TaskTypes, EscrowTypes, CollectibleTypes, WorkTypes
<1>1. ASSUME NEW a \in Accounts, NEW n \in Amounts, NEW k \in Keys, GrantCredits(a, n, k)
      PROVE  TypeOK'
  <2>1. n \in Nat /\ n \in Int
    BY CreditAssumption
  <2>2. Entry(a, Bare(k), "manual_adjustment", None, n) \in EntrySet
    BY <2>1 DEF Entry, Bare, EntrySet, KeySet, KeyUses, EntryKinds
  <2>3. balance' \in [Accounts -> Int]
    BY <1>1, <2>1, PostedType DEF GrantCredits, TypeOK, LedgerTypes
  <2> QED
    BY <1>0, <1>1, <2>1, <2>2, <2>3 DEF GrantCredits, TypeOK, LedgerTypes
<1>2. ASSUME NEW a \in Accounts, NEW b \in Accounts, NEW n \in Amounts, NEW k \in Keys,
             PeerTransfer(a, b, n, k)
      PROVE  TypeOK'
  <2>1. n \in Nat /\ n \in Int /\ -n \in Int
    BY CreditAssumption
  <2>2. /\ Entry(a, Derived("send-debit", k), "peer_transfer", None, -n) \in EntrySet
        /\ Entry(b, Derived("send-credit", k), "peer_transfer", None, n) \in EntrySet
    BY <2>1 DEF Entry, Derived, EntrySet, KeySet, KeyUses, EntryKinds
  <2>3. balance' \in [Accounts -> Int]
    BY <1>2, <2>1, TransferredType DEF PeerTransfer, TypeOK, LedgerTypes
  <2> QED
    BY <1>0, <1>2, <2>1, <2>2, <2>3 DEF PeerTransfer, TypeOK, LedgerTypes
<1>3. ASSUME NewDay
      PROVE  TypeOK'
  BY <1>0, <1>3 DEF NewDay, TypeOK, LedgerTypes
<1>4. ASSUME NEW c \in Collectibles,
             \/ \E u \in Users : GiftCollectible(c, u)
             \/ WithdrawCollectible(c) \/ ReleaseCollectible(c)
      PROVE  TypeOK'
  <2>1. CollectibleTypes'
    BY <1>4 DEF GiftCollectible, WithdrawCollectible, ReleaseCollectible, TypeOK,
         CollectibleTypes, CollectibleStates
  <2> QED
    BY <1>4, <2>1 DEF GiftCollectible, WithdrawCollectible, ReleaseCollectible, TypeOK,
         TaskTypes, EscrowTypes, LedgerTypes, WorkTypes
<1> QED
  BY <1>1, <1>2, <1>3, <1>4 DEF MovementStep

\* Every step keeps the rows well typed.
LEMMA TypeStep == TypeOK /\ [Next]_vars => TypeOK'
<1> SUFFICES ASSUME TypeOK, [Next]_vars
             PROVE  TypeOK'
  OBVIOUS
<1>1. ASSUME FundingStep
      PROVE  TypeOK'
  <2>1. PICK t \in Tasks :
          \/ \E chosen \in SUBSET Collectibles : CreateTask(t, chosen)
          \/ \E n \in Amounts, k \in Keys : FundTask(t, n, k)
          \/ \E n \in Amounts, k \in Keys : FundTaskFromOrganization(t, n, k)
          \/ \E c \in Collectibles : FundCollectibleReward(t, c)
          \/ \E k \in Keys : RefundTask(t, k)
          \/ RefundCollectibleReward(t)
    BY <1>1 DEF FundingStep
  <2>2. ASSUME NEW n \in Amounts, NEW k \in Keys,
               FundTask(t, n, k) \/ FundTaskFromOrganization(t, n, k)
        PROVE  TypeOK'
    BY <2>2, FundType, TasksAssumption DEF FundTask, FundTaskFromOrganization
  <2>3. ASSUME RefundCollectibleReward(t)
        PROVE  TypeOK'
    <3>1. CollectibleTypes' /\ res' \in [Reservations -> ReservationSet]
      BY <2>3, ReturnCollectiblesType, ReleaseReservationsType
      DEF RefundCollectibleReward
    <3> QED
      BY <2>3, <3>1 DEF RefundCollectibleReward, TypeOK, TaskTypes, TaskStates,
         EscrowTypes, LedgerTypes, WorkTypes, escrowVars, ledgerVars
  <2> QED
    BY <2>1, <2>2, <2>3, CreationType, RefundTaskType
<1>2. ASSUME ReviewStep
      PROVE  TypeOK'
  BY <1>2, AcceptSubmissionType, RequestChangesType, RejectSubmissionType
  DEF ReviewStep
<1>3. ASSUME UNCHANGED vars
      PROVE  TypeOK'
  BY <1>3 DEF vars, taskVars, escrowVars, ledgerVars, collectibleVars, workVars,
         TypeOK, TaskTypes, EscrowTypes, LedgerTypes, CollectibleTypes, WorkTypes
<1> QED
  BY <1>1, <1>2, <1>3, LifecycleType, WorkType, MovementType DEF Next

\* Every reachable state is well typed: rows refer to rows that exist, and a
\* fund row names its funder and is never negative.
THEOREM TypeCorrect == Spec => []TypeOK
BY TypeInit, TypeStep, PTL DEF Spec

-----------------------------------------------------------------------------
(* Reservations, submissions and bans.                                      *)

Work ==
    /\ OneActiveReservation
    /\ NoBannedHolder
    /\ NoDanglingReservation
    /\ OneAccepted
    /\ SubmittedAwaitsReview

\* A step that leaves states, submissions, reservations and bans alone.
LEMMA WorkUnchanged == Work /\ UNCHANGED <<state, sub, res, bans>> => Work'
BY DEF Work, OneActiveReservation, NoBannedHolder, NoDanglingReservation,
       OneAccepted, SubmittedAwaitsReview

\* Steps that move reservations: each row is unchanged, changes its timer, or
\* leaves the held states, and tasks only reach states that no row contradicts.
LEMMA RowsEnd ==
    ASSUME Work, UNCHANGED <<sub, bans>>,
           \A r \in Reservations :
             \/ res'[r].state \notin Held
             \/ /\ res'[r].state = res[r].state /\ res'[r].task = res[r].task
                /\ res'[r].assignee = res[r].assignee,
           \A r \in Reservations, t \in Tasks :
             /\ res'[r].state \in Held /\ res[r].task = t
             => state'[t] = state[t] \/ state'[t] \notin {"cancelled", "expired"}
    PROVE  Work'
<1> USE DEF Held
<1>1. OneActiveReservation'
  BY DEF Work, OneActiveReservation
<1>2. NoBannedHolder'
  BY DEF Work, NoBannedHolder
<1>3. NoDanglingReservation'
  BY DEF Work, NoDanglingReservation
<1>4. OneAccepted'
  BY DEF Work, OneAccepted
<1>5. SubmittedAwaitsReview'
  BY DEF Work, SubmittedAwaitsReview
<1> QED
  BY <1>1, <1>2, <1>3, <1>4, <1>5 DEF Work

\* Releasing the lapsed reservations only ends rows.
LEMMA ReleasedRows ==
    ASSUME TypeOK
    PROVE  \A r \in Reservations :
             \/ Released[r].state \notin Held
             \/ Released[r] = res[r]
BY DEF Released, Held, TypeOK, WorkTypes, ReservationSet, NoReservation

\* Dropping some reservations only ends rows.
LEMMA DroppedRows ==
    ASSUME TypeOK, NEW ended \in SUBSET Reservations
    PROVE  \A r \in Reservations :
             \/ r \in ended /\ Dropped(ended)[r].state \notin Held
             \/ r \notin ended /\ Dropped(ended)[r] = res[r]
BY DEF Dropped, Held, TypeOK, WorkTypes, ReservationSet, NoReservation

\* A task that is cancelled or expires releases everyone who held it.
LEMMA SettledWork ==
    ASSUME TypeOK, Work, NEW t \in Tasks, NEW new,
           ReleaseReservations(t), state' = [state EXCEPT ![t] = new],
           UNCHANGED <<sub, bans>>
    PROVE  Work'
<1> DEFINE ended == HeldReservations(t, Held)
<1>1. ended \in SUBSET Reservations
  BY DEF HeldReservations
<1>2. res' = Dropped(ended)
  BY DEF ReleaseReservations
<1>3. \A r \in Reservations :
        \/ r \in ended /\ res'[r].state \notin Held
        \/ r \notin ended /\ res'[r] = res[r]
  <2> HIDE DEF ended
  <2> QED
    BY <1>1, <1>2, DroppedRows
<1>4. \A x \in Tasks : x # t => state'[x] = state[x]
  BY DEF TypeOK, TaskTypes
<1>5. ASSUME NEW r \in Reservations, res'[r].state \in Held
      PROVE  res[r].task # t /\ res'[r] = res[r]
  BY <1>3, <1>5 DEF HeldReservations
<1> QED
  BY <1>3, <1>4, <1>5, RowsEnd

\* Taking a reservation: nobody else holds it actively and the taker is not
\* banned.
LEMMA ReserveWork ==
    ASSUME TypeOK, Work, NEW r \in Reservations, NEW t \in Tasks,
           NEW a \in Users \cup Teams, Reserve(r, t, a)
    PROVE  Work'
<1>1. /\ state[t] = "open" /\ <<t, a>> \notin bans
      /\ \A x \in Reservations : ~(Released[x].task = t /\ Released[x].state = "active")
      /\ UNCHANGED <<state, sub, bans>>
  BY DEF Reserve, taskVars
<1>2. Released \in [Reservations -> ReservationSet]
  BY ReleasedType DEF TypeOK
<1>3. \A x \in Reservations :
        res'[x] = IF x = r THEN [state |-> "active", task |-> t, assignee |-> a,
                                 lapsed |-> FALSE]
                  ELSE Released[x]
  BY <1>2 DEF Reserve
<1>4. \A x \in Reservations : Released[x].state \notin Held \/ Released[x] = res[x]
  BY ReleasedRows
<1> USE DEF Held
<1>5. OneActiveReservation'
  BY <1>1, <1>3, <1>4 DEF Work, OneActiveReservation
<1>6. NoBannedHolder'
  BY <1>1, <1>3, <1>4 DEF Work, NoBannedHolder
<1>7. NoDanglingReservation'
  BY <1>1, <1>3, <1>4 DEF Work, NoDanglingReservation
<1>8. SubmittedAwaitsReview'
  BY <1>1, <1>3, <1>4 DEF Work, SubmittedAwaitsReview
<1>9. OneAccepted'
  BY <1>1 DEF Work, OneAccepted
<1> QED
  BY <1>5, <1>6, <1>7, <1>8, <1>9 DEF Work

\* Recording a submission: the reservation it consumes waits on that very row.
LEMMA SubmitWork ==
    ASSUME TypeOK, Work, NEW q \in Requests, NEW s \in Submissions,
           NEW outcome \in {"submitted", "invalid"}, CreateSubmission(q, s, outcome)
    PROVE  Work'
<1> DEFINE t == req[q].task
           u == req[q].user
<1>1. sub[s].state = "absent" /\ UNCHANGED <<state, bans>>
  BY DEF CreateSubmission, taskVars
<1>2. \A x \in Submissions :
        sub'[x] = IF x = s THEN [state |-> outcome, task |-> t, user |-> u]
                  ELSE sub[x]
  BY DEF CreateSubmission, TypeOK, WorkTypes
<1>3. \A r \in Reservations :
        res'[r] = IF /\ outcome = "submitted" /\ res[r].task = t
                     /\ res[r].assignee = u /\ res[r].state = "active"
                  THEN [res[r] EXCEPT !.state = "submitted"]
                  ELSE res[r]
  BY DEF CreateSubmission
<1>4. ASSUME NEW r \in Reservations
      PROVE  /\ res'[r].task = res[r].task /\ res'[r].assignee = res[r].assignee
             /\ \/ res'[r].state = res[r].state
                \/ /\ res[r].state = "active" /\ res'[r].state = "submitted"
                   /\ outcome = "submitted" /\ res[r].task = t /\ res[r].assignee = u
  BY <1>3 DEF TypeOK, WorkTypes, ReservationSet, NoReservation
<1> HIDE DEF t, u
<1> USE DEF Held
<1>5. OneActiveReservation'
  BY <1>4 DEF Work, OneActiveReservation
<1>6. NoBannedHolder'
  BY <1>1, <1>4 DEF Work, NoBannedHolder
<1>7. NoDanglingReservation'
  BY <1>1, <1>4 DEF Work, NoDanglingReservation
<1>8. OneAccepted'
  BY <1>1, <1>2 DEF Work, OneAccepted
<1>9. SubmittedAwaitsReview'
  <2>1. ASSUME NEW r \in Reservations, res'[r].state = "submitted"
        PROVE  \E x \in Submissions :
                 /\ sub'[x].task = res'[r].task
                 /\ \/ sub'[x].state = "submitted" /\ sub'[x].user = res'[r].assignee
                    \/ sub'[x].state = "accepted"
    <3>1. CASE res[r].state = "submitted"
      <4>1. PICK x \in Submissions :
              /\ sub[x].task = res[r].task
              /\ \/ sub[x].state = "submitted" /\ sub[x].user = res[r].assignee
                 \/ sub[x].state = "accepted"
        BY <3>1 DEF Work, SubmittedAwaitsReview
      <4>2. x # s
        BY <4>1, <1>1
      <4> QED
        BY <4>1, <4>2, <1>2, <1>4
    <3>2. CASE res[r].state # "submitted"
      BY <3>2, <2>1, <1>2, <1>4
    <3> QED
      BY <3>1, <3>2
  <2> QED
    BY <2>1 DEF SubmittedAwaitsReview
<1> QED
  BY <1>5, <1>6, <1>7, <1>8, <1>9 DEF Work

\* Accepting: the first acceptance of the task, which everyone still waiting
\* on the task is then shown.
LEMMA AcceptWork ==
    ASSUME TypeOK, Work, NEW v \in Accounts, NEW t \in Tasks, NEW s \in Submissions,
           NEW k \in Keys, NEW pay \in Amounts \cup {0},
           NEW tip \in Amounts \cup {0}, NEW gift \in Collectibles \cup {None},
           AcceptSubmission(v, t, s, k, pay, tip, gift)
    PROVE  Work'
<1>1. /\ sub[s].task = t /\ sub[s].state = "submitted"
      /\ NoneAccepted(t)
      /\ sub' = [x \in Submissions |->
                   CASE x = s -> [sub[x] EXCEPT !.state = "accepted"]
                     [] x # s /\ sub[x].task = t /\ sub[x].state = "submitted"
                          -> [sub[x] EXCEPT !.state = "superseded"]
                     [] OTHER -> sub[x]]
      /\ state' = [state EXCEPT ![t] = "closed"]
      /\ UNCHANGED <<res, bans>>
  BY Zenon DEF AcceptSubmission, Reviewable
<1>2. ASSUME NEW x \in Submissions
      PROVE  /\ sub'[x].task = sub[x].task /\ sub'[x].user = sub[x].user
             /\ sub'[x].state = IF x = s THEN "accepted"
                                ELSE IF sub[x].task = t /\ sub[x].state = "submitted"
                                     THEN "superseded" ELSE sub[x].state
  <2>1. CASE x = s
    BY <2>1, <1>1, UnderReview
  <2>2. CASE x # s /\ sub[x].task = t /\ sub[x].state = "submitted"
    BY <2>2, <1>1, UnderReview
  <2>3. CASE x # s /\ ~(sub[x].task = t /\ sub[x].state = "submitted")
    BY <2>3, <1>1
  <2> QED
    BY <2>1, <2>2, <2>3
<1>r. res' = res /\ bans' = bans
  BY Zenon, <1>1
<1>3. \A x \in Tasks : state'[x] = IF x = t THEN "closed" ELSE state[x]
  BY <1>1 DEF TypeOK, TaskTypes
<1>4. OneActiveReservation' /\ NoBannedHolder'
  BY <1>r DEF Work, OneActiveReservation, NoBannedHolder
<1>5. NoDanglingReservation'
  BY <1>r, <1>3 DEF Work, NoDanglingReservation
<1>6. OneAccepted'
  <2>1. \A x \in Submissions : ~(sub[x].task = t /\ sub[x].state = "accepted")
    BY Zenon, <1>1 DEF NoneAccepted
  <2>2. ASSUME NEW x \in Submissions, sub'[x].state = "accepted", x # s
        PROVE  sub[x].state = "accepted" /\ sub[x].task # t
    <3>1. sub[x].state = "accepted"
      BY <1>2, <2>2
    <3> QED
      BY <3>1, <2>1
  <2>3. sub[s].task = t
    BY Zenon, <1>1
  <2> QED
    BY <1>2, <2>2, <2>3 DEF Work, OneAccepted
<1>7. SubmittedAwaitsReview'
  <2>1. ASSUME NEW r \in Reservations, res[r].state = "submitted"
        PROVE  \E x \in Submissions :
                 /\ sub'[x].task = res[r].task
                 /\ \/ sub'[x].state = "submitted" /\ sub'[x].user = res[r].assignee
                    \/ sub'[x].state = "accepted"
    <3>1. PICK x \in Submissions :
            /\ sub[x].task = res[r].task
            /\ \/ sub[x].state = "submitted" /\ sub[x].user = res[r].assignee
               \/ sub[x].state = "accepted"
      BY <2>1 DEF Work, SubmittedAwaitsReview
    <3>2. CASE res[r].task = t
      BY <3>2, <1>1, <1>2
    <3>3. CASE res[r].task # t
      BY <3>1, <3>3, <1>1, <1>2
    <3> QED
      BY <3>2, <3>3
  <2> QED
    BY <1>r, <2>1 DEF SubmittedAwaitsReview
<1> QED
  BY <1>4, <1>5, <1>6, <1>7 DEF Work

\* Requesting changes: the author's rows that waited on review are active
\* again, and they are the only ones that are.
LEMMA RequestChangesWork ==
    ASSUME TypeOK, Work, NEW t \in Tasks, NEW s \in Submissions, NEW k \in Keys,
           RequestChanges(t, s)
    PROVE  Work'
<1> DEFINE w == sub[s].user
<1>1. /\ state[t] = "open" /\ sub[s].task = t /\ sub[s].state = "submitted"
      /\ ReactivationAllowed(t, w)
      /\ UNCHANGED <<state, bans>>
  BY DEF RequestChanges, Reviewable, taskVars
<1>2. ASSUME NEW x \in Submissions
      PROVE  /\ sub'[x].task = sub[x].task /\ sub'[x].user = sub[x].user
             /\ sub'[x].state = IF x = s THEN "changes_requested" ELSE sub[x].state
  <2>1. CASE x = s
    BY <2>1, <1>1, UnderReview DEF RequestChanges, Reviewable, TypeOK, WorkTypes
  <2>2. CASE x # s
    BY <2>2 DEF RequestChanges, Reviewable, TypeOK, WorkTypes
  <2> QED
    BY <2>1, <2>2
<1>3. ASSUME NEW r \in Reservations
      PROVE  /\ res'[r].task = res[r].task /\ res'[r].assignee = res[r].assignee
             /\ res'[r].state = IF r \in Reactivated(t, w) THEN "active" ELSE res[r].state
  BY DEF RequestChanges, Reviewable, Reactivated, TypeOK, WorkTypes, ReservationSet, NoReservation
<1>r. \A r \in Reservations :
        r \in Reactivated(t, w) <=> /\ res[r].task = t /\ res[r].assignee = w
                                   /\ res[r].state = "submitted"
  BY DEF Reactivated
<1> HIDE DEF w
<1> USE DEF Held
<1>4. OneActiveReservation'
  BY <1>1, <1>3, <1>r DEF Work, OneActiveReservation, ReactivationAllowed
<1>5. NoBannedHolder'
  BY <1>1, <1>3, <1>r DEF Work, NoBannedHolder
<1>6. NoDanglingReservation'
  BY <1>1, <1>3, <1>r DEF Work, NoDanglingReservation
<1>7. OneAccepted'
  BY <1>2 DEF Work, OneAccepted
<1>8. SubmittedAwaitsReview'
  <2>1. ASSUME NEW r \in Reservations, res'[r].state = "submitted"
        PROVE  \E x \in Submissions :
                 /\ sub'[x].task = res'[r].task
                 /\ \/ sub'[x].state = "submitted" /\ sub'[x].user = res'[r].assignee
                    \/ sub'[x].state = "accepted"
    <3>1. res[r].state = "submitted" /\ ~(res[r].task = t /\ res[r].assignee = w)
      BY <2>1, <1>3, <1>r
    <3>2. PICK x \in Submissions :
            /\ sub[x].task = res[r].task
            /\ \/ sub[x].state = "submitted" /\ sub[x].user = res[r].assignee
               \/ sub[x].state = "accepted"
      BY <3>1 DEF Work, SubmittedAwaitsReview
    <3>3. x # s
      BY <3>1, <3>2, <1>1 DEF w
    <3> QED
      BY <3>2, <3>3, <1>2, <1>3
  <2> QED
    BY <2>1 DEF SubmittedAwaitsReview
<1> QED
  BY <1>4, <1>5, <1>6, <1>7, <1>8 DEF Work

\* Rejecting: the author's rows end, so a ban finds no row of theirs held.
LEMMA RejectWork ==
    ASSUME TypeOK, Work, NEW v \in Accounts, NEW t \in Tasks, NEW s \in Submissions,
           NEW k \in Keys, NEW pay \in Amounts \cup {0},
           NEW tip \in Amounts \cup {0}, NEW ban \in BOOLEAN,
           RejectSubmission(v, t, s, k, pay, tip, ban)
    PROVE  Work'
<1> DEFINE w == sub[s].user
           ended == {r \in HeldReservations(t, Held) : res[r].assignee = w}
<1>1. /\ sub[s].task = t /\ sub[s].state = "submitted"
      /\ sub' = [sub EXCEPT ![s].state = "rejected"]
      /\ EndReservations(t, w)
      /\ bans' = IF ban THEN bans \cup {<<t, w>>} ELSE bans
      /\ state' = state
  BY Zenon DEF RejectSubmission, Reviewable, taskVars
<1>2. ASSUME NEW x \in Submissions
      PROVE  /\ sub'[x].task = sub[x].task /\ sub'[x].user = sub[x].user
             /\ sub'[x].state = IF x = s THEN "rejected" ELSE sub[x].state
  <2>1. CASE x = s
    BY <2>1, <1>1, UnderReview DEF TypeOK, WorkTypes
  <2>2. CASE x # s
    BY <2>2, <1>1 DEF TypeOK, WorkTypes
  <2> QED
    BY <2>1, <2>2
<1>3. \A r \in Reservations :
        \/ r \in ended /\ res'[r].state \notin Held
        \/ r \notin ended /\ res'[r] = res[r]
  <2>1. ended \in SUBSET Reservations /\ res' = Dropped(ended)
    BY <1>1 DEF EndReservations, HeldReservations
  <2> HIDE DEF ended
  <2> QED
    BY <2>1, DroppedRows
<1>4. ASSUME NEW r \in Reservations, res'[r].state \in Held
      PROVE  res'[r] = res[r] /\ ~(res[r].task = t /\ res[r].assignee = w)
  BY <1>3, <1>4 DEF HeldReservations
<1> HIDE DEF w, ended
<1> USE DEF Held
<1>5. OneActiveReservation'
  BY <1>4 DEF Work, OneActiveReservation
<1>6. NoBannedHolder'
  BY <1>1, <1>4 DEF Work, NoBannedHolder
<1>7. NoDanglingReservation'
  BY <1>1, <1>4 DEF Work, NoDanglingReservation
<1>8. OneAccepted'
  BY <1>2 DEF Work, OneAccepted
<1>9. SubmittedAwaitsReview'
  <2>1. ASSUME NEW r \in Reservations, res'[r].state = "submitted"
        PROVE  \E x \in Submissions :
                 /\ sub'[x].task = res'[r].task
                 /\ \/ sub'[x].state = "submitted" /\ sub'[x].user = res'[r].assignee
                    \/ sub'[x].state = "accepted"
    <3>1. res'[r] = res[r] /\ ~(res[r].task = t /\ res[r].assignee = w)
      BY <2>1, <1>4
    <3>2. PICK x \in Submissions :
            /\ sub[x].task = res[r].task
            /\ \/ sub[x].state = "submitted" /\ sub[x].user = res[r].assignee
               \/ sub[x].state = "accepted"
      BY <2>1, <3>1 DEF Work, SubmittedAwaitsReview
    <3>3. x # s
      BY <3>1, <3>2, <1>1 DEF w
    <3> QED
      BY <3>1, <3>2, <3>3, <1>2
  <2> QED
    BY <2>1 DEF SubmittedAwaitsReview
<1> QED
  BY <1>5, <1>6, <1>7, <1>8, <1>9 DEF Work

\* Every step preserves the five facts about the work on a task.
LEMMA WorkPreserved == TypeOK /\ Work /\ [Next]_vars => Work'
<1> SUFFICES ASSUME TypeOK, Work, [Next]_vars
             PROVE  Work'
  OBVIOUS
<1>1. CASE FundingStep
  <2>1. PICK t \in Tasks :
          \/ \E chosen \in SUBSET Collectibles : CreateTask(t, chosen)
          \/ \E n \in Amounts, k \in Keys :
               FundTask(t, n, k) \/ FundTaskFromOrganization(t, n, k)
          \/ \E c \in Collectibles : FundCollectibleReward(t, c)
          \/ \E k \in Keys : RefundTask(t, k)
          \/ RefundCollectibleReward(t)
    BY <1>1 DEF FundingStep
  <2>2. CASE \E chosen \in SUBSET Collectibles : CreateTask(t, chosen)
    <3>1. state' = [state EXCEPT ![t] = "draft"] /\ UNCHANGED <<sub, res, bans>>
      BY <2>2 DEF CreateTask, workVars
    <3> QED
      BY <3>1, RowsEnd DEF TypeOK, TaskTypes
  <2>3. CASE \E n \in Amounts, k \in Keys :
               FundTask(t, n, k) \/ FundTaskFromOrganization(t, n, k)
    BY <2>3, WorkUnchanged DEF FundTask, FundTaskFromOrganization, Fund, workVars
  <2>4. CASE \E c \in Collectibles : FundCollectibleReward(t, c)
    BY <2>4, WorkUnchanged DEF FundCollectibleReward, workVars
  <2>5. CASE \E k \in Keys : RefundTask(t, k)
    BY <2>5, SettledWork DEF RefundTask
  <2>6. CASE RefundCollectibleReward(t)
    BY <2>6, SettledWork DEF RefundCollectibleReward
  <2> QED
    BY <2>1, <2>2, <2>3, <2>4, <2>5, <2>6
<1>2. CASE LifecycleStep
  <2>1. CASE \E q \in Requests, t \in Tasks, target \in Targets :
               BeginChangeState(q, t, target)
    BY <2>1, WorkUnchanged DEF BeginChangeState, taskVars, workVars
  <2>2. CASE \E q \in Requests : OpenTask(q) \/ UnpublishTask(q)
    <3>1. PICK q \in Requests : OpenTask(q) \/ UnpublishTask(q)
      BY <2>2
    <3> DEFINE t == req[q].task
    <3>2. /\ UNCHANGED <<sub, res, bans>>
          /\ \/ state' = state
             \/ state' = [state EXCEPT ![t] = "open"]
             \/ state' = [state EXCEPT ![t] = "draft"]
      BY <3>1 DEF OpenTask, UnpublishTask, workVars
    <3>3. \A x \in Tasks : state'[x] = state[x] \/ state'[x] \in {"open", "draft"}
      <4> HIDE DEF t
      <4> QED
        BY <3>2 DEF TypeOK, TaskTypes
    <3> QED
      BY <3>2, <3>3, RowsEnd
  <2>3. CASE \E q \in Requests : CancelTask(q)
    <3>1. PICK q \in Requests : CancelTask(q)
      BY <2>3
    <3>2. req[q].task \in Tasks
      BY <3>1 DEF CancelTask, TypeOK, WorkTypes, RequestSet, Idle
    <3> QED
      BY <3>1, <3>2, SettledWork DEF CancelTask
  <2>4. CASE \E t \in Tasks : TaskFallsDue(t)
    BY <2>4, WorkUnchanged DEF TaskFallsDue, workVars
  <2>5. CASE \E t \in Tasks : ExpireTask(t)
    BY <2>5, SettledWork DEF ExpireTask
  <2> QED
    BY <1>2, <2>1, <2>2, <2>3, <2>4, <2>5 DEF LifecycleStep
<1>3. CASE WorkStep
  <2>1. CASE \E r \in Reservations, t \in Tasks, a \in Users \cup Teams : Reserve(r, t, a)
    BY <2>1, ReserveWork
  <2>2. CASE \E r \in Reservations, end \in ReservationEnds : CancelReservation(r, end)
    <3>1. PICK r \in Reservations, end \in ReservationEnds : CancelReservation(r, end)
      BY <2>2
    <3>2. /\ res' = [Released EXCEPT ![r].state = end] /\ end \notin Held
          /\ UNCHANGED <<state, sub, bans>>
      BY <3>1 DEF CancelReservation, taskVars, ReservationEnds, Held
    <3>3. Released \in [Reservations -> ReservationSet]
      BY ReleasedType DEF TypeOK
    <3>4. Released[r].state = "active"
      BY <3>1 DEF CancelReservation
    <3>5. \A x \in Reservations : x # r => res'[x] = Released[x]
      BY <3>2, <3>3
    <3>6. res'[r].state = end
      BY <3>2, <3>3, <3>4 DEF ReservationSet, NoReservation
    <3>7. \A x \in Reservations : res'[x].state \notin Held \/ res'[x] = res[x]
      BY <3>2, <3>5, <3>6, ReleasedRows
    <3> QED
      BY <3>2, <3>7, RowsEnd
  <2>3. CASE \E r \in Reservations : ReservationLapses(r)
    <3>1. PICK r \in Reservations : ReservationLapses(r)
      BY <2>3
    <3>2. res' = [res EXCEPT ![r].lapsed = TRUE] /\ UNCHANGED <<state, sub, bans>>
      BY <3>1 DEF ReservationLapses, taskVars
    <3>3. \A x \in Reservations : /\ res'[x].state = res[x].state
                                 /\ res'[x].task = res[x].task
                                 /\ res'[x].assignee = res[x].assignee
      BY <3>2 DEF TypeOK, WorkTypes, ReservationSet, NoReservation
    <3> QED
      BY <3>2, <3>3, RowsEnd
  <2>4. CASE ExpireDueReservations \/ \E q \in Requests, t \in Tasks, u \in Users :
               BeginSubmit(q, t, u)
    <3>1. res' = Released /\ UNCHANGED <<state, sub, bans>>
      BY <2>4 DEF ExpireDueReservations, BeginSubmit, taskVars
    <3>2. \A x \in Reservations : res'[x].state \notin Held \/ res'[x] = res[x]
      BY <3>1, ReleasedRows
    <3> QED
      BY <3>1, <3>2, RowsEnd
  <2>5. CASE \E q \in Requests, s \in Submissions, outcome \in {"submitted", "invalid"} :
               CreateSubmission(q, s, outcome)
    BY <2>5, SubmitWork
  <2> QED
    BY <1>3, <2>1, <2>2, <2>3, <2>4, <2>5 DEF WorkStep
<1>4. CASE ReviewStep
  <2>1. PICK t \in Tasks, s \in Submissions, k \in Keys :
          \/ \E v \in Accounts, pay, tip \in Amounts \cup {0},
                gift \in Collectibles \cup {None} :
               AcceptSubmission(v, t, s, k, pay, tip, gift)
          \/ RequestChanges(t, s)
          \/ \E v \in Accounts, pay, tip \in Amounts \cup {0}, ban \in BOOLEAN :
               RejectSubmission(v, t, s, k, pay, tip, ban)
    BY <1>4 DEF ReviewStep
  <2> QED
    BY <2>1, AcceptWork, RequestChangesWork, RejectWork
<1>5. CASE MovementStep
  BY <1>5, WorkUnchanged
  DEF MovementStep, GrantCredits, PeerTransfer, NewDay, GiftCollectible,
      WithdrawCollectible, ReleaseCollectible, taskVars, workVars
<1>6. CASE UNCHANGED vars
  BY <1>6, WorkUnchanged DEF vars, taskVars, workVars
<1> QED
  BY <1>1, <1>2, <1>3, <1>4, <1>5, <1>6 DEF Next

\* Reservations, submissions and bans stay consistent with each other and
\* with the state of their task, whatever the interleaving of workers,
\* reviewers, sweeps and stale requests.
THEOREM WorkSafe == Spec => []Work
<1>1. Init => Work
  BY DEF Init, Work, OneActiveReservation, NoBannedHolder, NoDanglingReservation,
         OneAccepted, SubmittedAwaitsReview, NoSubmission, NoReservation, Held
<1> QED
  BY <1>1, WorkPreserved, TypeCorrect, PTL DEF Spec

\* CreateReservation and RequestChanges never leave two active reservations.
THEOREM ReservedOnce == Spec => []OneActiveReservation
BY WorkSafe, PTL DEF Work

\* RejectSubmission's ban and every later reservation respect each other.
THEOREM BannedNeverHold == Spec => []NoBannedHolder
BY WorkSafe, PTL DEF Work

\* Cancelling, refunding and expiring a task release all who hold it.
THEOREM NoHolderOnDeadTask == Spec => []NoDanglingReservation
BY WorkSafe, PTL DEF Work

\* AcceptSubmission is committed at most once for each task.
THEOREM AcceptedOnce == Spec => []OneAccepted
BY WorkSafe, PTL DEF Work

\* RequestChanges and RejectSubmission leave nobody parked under review.
THEOREM ParkedOnlyUnderReview == Spec => []SubmittedAwaitsReview
BY WorkSafe, PTL DEF Work

-----------------------------------------------------------------------------
(* What a step may never do to a reservation.                              *)

\* The rows that are over: neither held nor still to be made.
Over(r) == res[r].state \notin Held \cup {"absent"}

\* Releasing the lapsed reservations leaves a row that is over as it is.
LEMMA ReleasedKeepsOver ==
    ASSUME TypeOK, NEW r \in Reservations, Over(r)
    PROVE  Released[r] = res[r]
BY DEF Over, Released, Held

\* Dropping held reservations leaves a row that is over as it is.
LEMMA DroppedKeepsOver ==
    ASSUME TypeOK, NEW r \in Reservations, Over(r), NEW ended,
           \A x \in ended : res[x].state \in Held
    PROVE  Dropped(ended)[r] = res[r]
BY DEF Over, Dropped, Held

\* No step writes a row that is over.
LEMMA OverStep ==
    ASSUME TypeOK, [Next]_vars, NEW r \in Reservations, Over(r)
    PROVE  res'[r] = res[r]
<1>1. ASSUME NEW t \in Tasks, ReleaseReservations(t)
      PROVE  res'[r] = res[r]
  BY <1>1, DroppedKeepsOver DEF ReleaseReservations, HeldReservations
<1>2. CASE FundingStep
  BY <1>1, <1>2
  DEF FundingStep, CreateTask, FundTask, FundTaskFromOrganization, Fund,
      FundCollectibleReward, RefundTask, RefundCollectibleReward, workVars
<1>3. CASE LifecycleStep
  <2>1. ASSUME NEW q \in Requests, CancelTask(q)
        PROVE  res'[r] = res[r]
    BY <2>1, DroppedKeepsOver DEF CancelTask, ReleaseReservations, HeldReservations
  <2> QED
    BY <1>1, <1>3, <2>1
    DEF LifecycleStep, BeginChangeState, OpenTask, UnpublishTask, TaskFallsDue,
        ExpireTask, workVars
<1>4. CASE WorkStep
  <2>0. Released \in [Reservations -> ReservationSet] /\ Released[r] = res[r]
    BY ReleasedType, ReleasedKeepsOver DEF TypeOK
  <2>1. ASSUME NEW x \in Reservations, NEW t \in Tasks, NEW a \in Users \cup Teams,
               Reserve(x, t, a)
        PROVE  res'[r] = res[r]
    <3>1. x # r
      BY <2>1 DEF Reserve, Over
    <3> QED
      BY <2>0, <2>1, <3>1 DEF Reserve
  <2>2. ASSUME NEW x \in Reservations, NEW end \in ReservationEnds,
               CancelReservation(x, end)
        PROVE  res'[r] = res[r]
    <3>1. x # r
      BY <2>0, <2>2 DEF CancelReservation, Over, Held
    <3> QED
      BY <2>0, <2>2, <3>1 DEF CancelReservation
  <2>3. ASSUME NEW x \in Reservations, ReservationLapses(x)
        PROVE  res'[r] = res[r]
    BY <2>3 DEF ReservationLapses, Over, TypeOK, WorkTypes
  <2>4. ASSUME ExpireDueReservations \/ \E q \in Requests, t \in Tasks, u \in Users :
                 BeginSubmit(q, t, u)
        PROVE  res'[r] = res[r]
    BY <2>0, <2>4 DEF ExpireDueReservations, BeginSubmit
  <2>5. ASSUME NEW q \in Requests, NEW s \in Submissions,
               NEW outcome \in {"submitted", "invalid"}, CreateSubmission(q, s, outcome)
        PROVE  res'[r] = res[r]
    BY <2>5 DEF CreateSubmission, Over, Held
  <2> QED
    BY <1>4, <2>1, <2>2, <2>3, <2>4, <2>5 DEF WorkStep
<1>5. CASE ReviewStep
  <2>1. ASSUME NEW t \in Tasks, NEW s \in Submissions, RequestChanges(t, s)
        PROVE  res'[r] = res[r]
    BY <2>1 DEF RequestChanges, Reviewable, Reactivated, Over, Held
  <2>2. ASSUME NEW t \in Tasks, NEW s \in Submissions, NEW k \in Keys,
               NEW v \in Accounts, NEW pay \in Amounts \cup {0},
               NEW tip \in Amounts \cup {0}, NEW gift \in Collectibles \cup {None},
               AcceptSubmission(v, t, s, k, pay, tip, gift)
        PROVE  res'[r] = res[r]
    BY <2>2, Zenon DEF AcceptSubmission, Reviewable
  <2>3. ASSUME NEW t \in Tasks, NEW s \in Submissions, NEW k \in Keys,
               NEW v \in Accounts, NEW pay \in Amounts \cup {0},
               NEW tip \in Amounts \cup {0}, NEW ban \in BOOLEAN,
               RejectSubmission(v, t, s, k, pay, tip, ban)
        PROVE  res'[r] = res[r]
    <3>1. EndReservations(t, sub[s].user)
      BY <2>3, Zenon DEF RejectSubmission, Reviewable
    <3> QED
      BY <3>1, DroppedKeepsOver DEF EndReservations, HeldReservations
  <2> QED
    BY <1>5, <2>1, <2>2, <2>3 DEF ReviewStep
<1>6. CASE MovementStep
  BY <1>6
  DEF MovementStep, GrantCredits, PeerTransfer, NewDay, GiftCollectible,
      WithdrawCollectible, ReleaseCollectible, workVars
<1>7. CASE UNCHANGED vars
  BY <1>7 DEF vars, workVars
<1> QED
  BY <1>2, <1>3, <1>4, <1>5, <1>6, <1>7 DEF Next

\* A reservation that expired or was cancelled is never written again: no
\* request for changes, late sweep or late submission brings it back.
THEOREM EndedForGood == Spec => EndedReservationsStayEnded
<1>1. TypeOK /\ [Next]_vars =>
        [\A r \in Reservations :
           res[r].state \notin Held \cup {"absent"} => res'[r] = res[r]]_vars
  BY OverStep DEF Over
<1> QED
  BY <1>1, TypeCorrect, PTL DEF Spec, EndedReservationsStayEnded
=============================================================================
