---------------------------- MODULE EscrowProofs ----------------------------
(* Proofs that the ledger and the escrow of Marketplace stay consistent.   *)
EXTENDS MarketplaceProofs, MarketEscrow, FiniteSetTheorems, WellFoundedInduction

-----------------------------------------------------------------------------
(* Balances and the books of a task.                                       *)

Money == NoOverdraft /\ TaskBooks

moneyVars == <<balance, fund, funder, books>>

\* A step that leaves the money alone leaves Money alone.
LEMMA MoneyUnchanged == Money /\ UNCHANGED moneyVars => Money'
BY DEF Money, NoOverdraft, TaskBooks, moneyVars

\* A fund row that goes back to its funder leaves no account overdrawn and
\* the books of its task balanced.
LEMMA RefundCreditsMoney ==
    ASSUME TypeOK, Money, NEW t \in Tasks, RefundCredits(t)
    PROVE  Money'
<1>1. fund[t] \in Nat /\ fund[t] \in Int
  BY DEF TypeOK, EscrowTypes
<1>2. NoOverdraft'
  BY <1>1, PostedType DEF RefundCredits, Money, NoOverdraft, TypeOK, LedgerTypes
<1>3. TaskBooks'
  BY <1>1 DEF RefundCredits, Money, TaskBooks, TypeOK, EscrowTypes
<1> QED
  BY <1>2, <1>3 DEF Money

\* A funding spends credits the account has and opens the books of its task.
LEMMA FundMoney ==
    ASSUME TypeOK, Money, NEW a \in Accounts, NEW t \in Tasks, NEW n \in Amounts,
           NEW k \in Keys, Fund(a, t, n, k)
    PROVE  Money'
<1>1. n \in Nat /\ n \in Int /\ -n \in Int
  BY CreditAssumption
<1>2. NoOverdraft'
  BY <1>1, PostedType
  DEF Fund, CompleteFunding, SetAside, Money, NoOverdraft, TypeOK, LedgerTypes
<1>3. TaskBooks'
  BY <1>1 DEF Fund, CompleteFunding, SetAside, Money, TaskBooks, TypeOK, EscrowTypes
<1> QED
  BY <1>2, <1>3 DEF Money

\* Moving credits an account has leaves nobody overdrawn.
LEMMA TransferCovered ==
    ASSUME NEW b \in [Accounts -> Int], \A x \in Accounts : b[x] >= 0,
           NEW x \in Accounts, NEW y \in Accounts, NEW n \in Nat, b[x] >= n
    PROVE  \A z \in Accounts : Transferred(b, x, y, n)[z] >= 0
<1>1. n \in Int /\ -n \in Int
  OBVIOUS
<1>2. /\ Posted(b, x, -n) \in [Accounts -> Int]
      /\ \A z \in Accounts : Posted(b, x, -n)[z] = IF z = x THEN b[z] + (-n) ELSE b[z]
  BY <1>1, PostedType
<1>3. \A z \in Accounts : Posted(b, x, -n)[z] >= 0
  BY <1>1, <1>2
<1> DEFINE d == Posted(b, x, -n)
<1>4. \A z \in Accounts : Posted(d, y, n)[z] = IF z = y THEN d[z] + n ELSE d[z]
  <2> HIDE DEF d
  <2> QED
    BY <1>1, <1>2, PostedType DEF d
<1>5. ASSUME NEW z \in Accounts
      PROVE  Posted(d, y, n)[z] >= 0
  <2>1. d[z] \in Int /\ d[z] >= 0
    BY <1>2, <1>3
  <2> HIDE DEF d
  <2> QED
    BY <2>1, <1>1, <1>4
<1> QED
  BY <1>5 DEF Transferred

\* A tip that was allowed leaves nobody overdrawn.
LEMMA TipCovered ==
    ASSUME NEW b \in [Accounts -> Int], \A x \in Accounts : b[x] >= 0,
           NEW v \in Accounts, NEW w \in Users, NEW k, NEW tip \in Nat,
           TipAllowed(b, v, w, k, tip)
    PROVE  \A z \in Accounts : Transferred(b, v, w, tip)[z] >= 0
<1>1. b[v] >= tip
  <2>1. CASE tip > 0
    BY <2>1 DEF TipAllowed
  <2>2. CASE ~(tip > 0)
    BY <2>2
  <2> QED
    BY <2>1, <2>2
<1>2. w \in Accounts
  BY DEF Accounts
<1> QED
  BY <1>1, <1>2, TransferCovered, Zenon

\* An acceptance pays out and refunds exactly what was set aside.
LEMMA AcceptMoney ==
    ASSUME TypeOK, Money, NEW v \in Accounts, NEW t \in Tasks,
           NEW s \in Submissions, NEW k \in Keys, NEW pay, NEW tip,
           AcceptWrites(v, t, s, k, pay, tip)
    PROVE  Money'
<1> DEFINE w == sub[s].user
           n == Payout(t, pay)
           mid == Posted(balance, w, n)
           paid == Settled(w, t, n)
<1>1. /\ w \in Users
      /\ n \in Nat /\ n <= fund[t] /\ fund[t] - n \in Nat /\ tip \in Nat
      /\ paid \in [Accounts -> Int]
      /\ TipAllowed(paid, v, w, k, tip)
      /\ balance' = Transferred(paid, v, w, tip)
      /\ fund' = [fund EXCEPT ![t] = 0]
      /\ books' = [books EXCEPT ![t] = @ - n - (fund[t] - n)]
  BY Zenon DEF AcceptWrites
<1>2. n \in Int /\ fund[t] - n \in Int
  BY <1>1
<1> HIDE DEF w, n
<1>3. \A x \in Accounts : paid[x] >= 0
  <2>1. /\ mid \in [Accounts -> Int]
        /\ \A x \in Accounts : mid[x] = IF x = w THEN balance[x] + n ELSE balance[x]
    BY <1>2, PostedType DEF TypeOK, LedgerTypes
  <2>2. \A x \in Accounts : mid[x] >= 0
    BY <1>1, <2>1 DEF Money, NoOverdraft, TypeOK, LedgerTypes
  <2> HIDE DEF mid
  <2>3. \A x \in Accounts : paid[x] = IF x = funder[t] THEN mid[x] + (fund[t] - n) ELSE mid[x]
    BY <1>2, <2>1, PostedType DEF Settled, mid
  <2> HIDE DEF paid
  <2> QED
    BY <1>1, <2>1, <2>2, <2>3
<1>4. NoOverdraft'
  <2> HIDE DEF paid
  <2> QED
    BY <1>1, <1>3, TipCovered DEF NoOverdraft
<1>5. TaskBooks'
  BY <1>1 DEF Money, TaskBooks, TypeOK, EscrowTypes
<1> QED
  BY <1>4, <1>5 DEF Money

\* A rejection pays what it takes from the fund.
LEMMA RejectMoney ==
    ASSUME TypeOK, Money, NEW v \in Accounts, NEW t \in Tasks,
           NEW s \in Submissions, NEW k \in Keys, NEW pay, NEW tip,
           RejectWrites(v, t, s, k, pay, tip)
    PROVE  Money'
<1> DEFINE w == sub[s].user
           paid == Posted(balance, w, pay)
<1>1. /\ w \in Users
      /\ pay \in Nat /\ pay <= fund[t] /\ fund[t] - pay \in Nat /\ tip \in Nat
      /\ paid \in [Accounts -> Int]
      /\ TipAllowed(paid, v, w, k, tip)
      /\ balance' = Transferred(paid, v, w, tip)
      /\ fund' = [fund EXCEPT ![t] = @ - pay]
      /\ books' = [books EXCEPT ![t] = @ - pay]
  BY Zenon DEF RejectWrites
<1> HIDE DEF w
<1>2. \A x \in Accounts : paid[x] >= 0
  <2>1. pay \in Int
    BY <1>1
  <2>2. \A x \in Accounts : paid[x] = IF x = w THEN balance[x] + pay ELSE balance[x]
    BY <2>1, PostedType DEF TypeOK, LedgerTypes
  <2> QED
    BY <1>1, <2>2 DEF Money, NoOverdraft, TypeOK, LedgerTypes
<1>3. NoOverdraft'
  <2> HIDE DEF paid
  <2> QED
    BY <1>1, <1>2, TipCovered DEF NoOverdraft
<1>4. TaskBooks'
  BY <1>1 DEF Money, TaskBooks, TypeOK, EscrowTypes
<1> QED
  BY <1>3, <1>4 DEF Money

\* Every step keeps the accounts covered and the books balanced.
LEMMA MoneyStep == TypeOK /\ Money /\ [Next]_vars => Money'
<1> SUFFICES ASSUME TypeOK, Money, [Next]_vars
             PROVE  Money'
  OBVIOUS
<1> USE DEF escrowVars, ledgerVars, moneyVars
<1>1. ASSUME FundingStep
      PROVE  Money'
  <2>1. PICK t \in Tasks :
          \/ \E chosen \in SUBSET Collectibles : CreateTask(t, chosen)
          \/ \E n \in Amounts, k \in Keys : FundTask(t, n, k)
          \/ \E n \in Amounts, k \in Keys : FundTaskFromOrganization(t, n, k)
          \/ \E c \in Collectibles : FundCollectibleReward(t, c)
          \/ \E k \in Keys : RefundTask(t, k)
          \/ RefundCollectibleReward(t)
    BY <1>1 DEF FundingStep
  <2>2. ASSUME NEW n \in Amounts, NEW k \in Keys,
               FundTask(t, n, k) \/ FundTaskFromOrganization(t, n, k)
        PROVE  Money'
    <3>1. PICK a \in Accounts : Fund(a, t, n, k)
      BY <2>2, TasksAssumption DEF FundTask, FundTaskFromOrganization, Accounts
    <3> QED
      BY <3>1, FundMoney, Zenon
  <2>3. ASSUME NEW k \in Keys, RefundTask(t, k)
        PROVE  Money'
    BY <2>3, RefundCreditsMoney DEF RefundTask
  <2>4. ASSUME \/ \E chosen \in SUBSET Collectibles : CreateTask(t, chosen)
               \/ \E c \in Collectibles : FundCollectibleReward(t, c)
               \/ RefundCollectibleReward(t)
        PROVE  Money'
    BY <2>4, MoneyUnchanged
    DEF CreateTask, FundCollectibleReward, RefundCollectibleReward
  <2> QED
    BY <2>1, <2>2, <2>3, <2>4
<1>2. ASSUME LifecycleStep
      PROVE  Money'
  <2>1. ASSUME NEW q \in Requests, CancelTask(q)
        PROVE  Money'
    <3>1. req[q].task \in Tasks
      BY <2>1 DEF CancelTask, TypeOK, WorkTypes, RequestSet, Idle
    <3> QED
      BY <2>1, <3>1, RefundCreditsMoney DEF CancelTask
  <2>2. ASSUME NEW t \in Tasks, ExpireTask(t)
        PROVE  Money'
    BY <2>2, RefundCreditsMoney DEF ExpireTask
  <2>3. ASSUME \/ \E q \in Requests, t \in Tasks, target \in Targets :
                    BeginChangeState(q, t, target)
               \/ \E q \in Requests : OpenTask(q) \/ UnpublishTask(q)
               \/ \E t \in Tasks : TaskFallsDue(t)
        PROVE  Money'
    BY <2>3, MoneyUnchanged DEF BeginChangeState, OpenTask, UnpublishTask, TaskFallsDue
  <2> QED
    BY <1>2, <2>1, <2>2, <2>3 DEF LifecycleStep
<1>3. ASSUME WorkStep
      PROVE  Money'
  BY <1>3, MoneyUnchanged
  DEF WorkStep, Reserve, CancelReservation, ReservationLapses,
      ExpireDueReservations, BeginSubmit, CreateSubmission
<1>4. ASSUME ReviewStep
      PROVE  Money'
  <2>1. ASSUME NEW t \in Tasks, NEW s \in Submissions, NEW k \in Keys,
               RequestChanges(t, s)
        PROVE  Money'
    BY <2>1, MoneyUnchanged DEF RequestChanges, Reviewable
  <2>2. ASSUME NEW t \in Tasks, NEW s \in Submissions, NEW k \in Keys,
               NEW v \in Accounts, NEW pay \in Amounts \cup {0},
               NEW tip \in Amounts \cup {0}, NEW gift \in Collectibles \cup {None},
               AcceptSubmission(v, t, s, k, pay, tip, gift)
        PROVE  Money'
    BY <2>2, AcceptEffect, AcceptMoney
  <2>3. ASSUME NEW t \in Tasks, NEW s \in Submissions, NEW k \in Keys,
               NEW v \in Accounts, NEW pay \in Amounts \cup {0},
               NEW tip \in Amounts \cup {0}, NEW ban \in BOOLEAN,
               RejectSubmission(v, t, s, k, pay, tip, ban)
        PROVE  Money'
    BY <2>3, RejectEffect, RejectMoney
  <2> QED
    BY <1>4, <2>1, <2>2, <2>3 DEF ReviewStep
<1>5. ASSUME MovementStep
      PROVE  Money'
  <2>1. ASSUME NEW a \in Accounts, NEW n \in Amounts, NEW k \in Keys, GrantCredits(a, n, k)
        PROVE  Money'
    <3>1. n \in Nat /\ n \in Int
      BY CreditAssumption
    <3>2. NoOverdraft'
      BY <2>1, <3>1, PostedType
      DEF GrantCredits, Money, NoOverdraft, TypeOK, LedgerTypes
    <3> QED
      BY <2>1, <3>2 DEF GrantCredits, Money, TaskBooks
  <2>2. ASSUME NEW a \in Accounts, NEW b \in Accounts, NEW n \in Amounts,
               NEW k \in Keys, PeerTransfer(a, b, n, k)
        PROVE  Money'
    <3>1. n \in Nat
      BY CreditAssumption
    <3>2. NoOverdraft'
      BY <2>2, <3>1, TransferCovered
      DEF PeerTransfer, SendCovered, Money, NoOverdraft, TypeOK, LedgerTypes
    <3> QED
      BY <2>2, <3>2 DEF PeerTransfer, Money, TaskBooks
  <2>3. ASSUME \/ NewDay
               \/ \E c \in Collectibles :
                    \/ \E u \in Users : GiftCollectible(c, u)
                    \/ WithdrawCollectible(c)
                    \/ ReleaseCollectible(c)
        PROVE  Money'
    BY <2>3, MoneyUnchanged
    DEF NewDay, GiftCollectible, WithdrawCollectible, ReleaseCollectible
  <2> QED
    BY <1>5, <2>1, <2>2, <2>3 DEF MovementStep
<1>6. ASSUME UNCHANGED vars
      PROVE  Money'
  BY <1>6, MoneyUnchanged DEF vars
<1> QED
  BY <1>1, <1>2, <1>3, <1>4, <1>5, <1>6 DEF Next

\* Accounts start with their grant and tasks with nothing set aside.
LEMMA MoneyInit == Init => Money
BY CreditAssumption DEF Init, Money, NoOverdraft, TaskBooks

\* The accounts stay covered and the books balanced in every reachable state.
THEOREM MoneySafe == Spec => []Money
BY MoneyInit, MoneyStep, TypeCorrect, PTL DEF Spec

\* No account is ever overdrawn, whatever the interleaving of fundings, tips,
\* payouts, refunds and sends.
THEOREM NeverOverdrawn == Spec => []NoOverdraft
<1>1. Money => NoOverdraft
  BY DEF Money
<1> QED
  BY <1>1, MoneySafe, PTL

\* The ledger's entries for a task always add up to its task_funds row.
THEOREM BooksBalance == Spec => []TaskBooks
<1>1. Money => TaskBooks
  BY DEF Money
<1> QED
  BY <1>1, MoneySafe, PTL

-----------------------------------------------------------------------------
(* What is set aside for a task is never stranded or shared.               *)

\* RewardRecorded is what makes NoOrphanedEscrow inductive: refunding a
\* collectible reward cancels the task and looks at its kind, not its fund.
Custody == NoOrphanedEscrow /\ RewardRecorded /\ EscrowExclusive

custodyVars == <<state, kind, fund, cstate, held>>

\* A step that leaves the custody rows alone leaves Custody alone.
LEMMA CustodyUnchanged == Custody /\ UNCHANGED custodyVars => Custody'
BY DEF Custody, NoOrphanedEscrow, RewardRecorded, EscrowExclusive, HeldFor, custodyVars

\* Handing back or awarding all the collectibles of a task frees them and
\* touches no other task's.
LEMMA HandOver ==
    ASSUME TypeOK, EscrowExclusive, NEW t \in Tasks,
           cstate' = [c \in Collectibles |->
                        IF c \in HeldFor(t) THEN "minted" ELSE cstate[c]],
           held' = {p \in held : p[1] # t}
    PROVE  /\ EscrowExclusive'
           /\ HeldFor(t)' = {}
           /\ \A x \in Tasks : x # t => HeldFor(x)' = HeldFor(x)
<1>1. HeldFor(t)' = {} /\ \A x \in Tasks : x # t => HeldFor(x)' = HeldFor(x)
  BY DEF HeldFor
<1>2. \A x \in Tasks, c \in Collectibles : <<x, c>> \in held' <=> <<x, c>> \in held /\ x # t
  OBVIOUS
<1>3. ASSUME NEW c \in Collectibles
      PROVE  /\ cstate'[c] = "escrowed" <=> \E x \in Tasks : <<x, c>> \in held'
             /\ \A x, y \in Tasks : <<x, c>> \in held' /\ <<y, c>> \in held' => x = y
  BY <1>2 DEF EscrowExclusive, HeldFor
<1> QED
  BY <1>1, <1>3 DEF EscrowExclusive

\* A task that is settled, and holds nothing any more, strands nothing.
LEMMA SettledCustody ==
    ASSUME TypeOK, Custody, NEW t \in Tasks,
           cstate' = [c \in Collectibles |->
                        IF c \in HeldFor(t) THEN "minted" ELSE cstate[c]],
           held' = {p \in held : p[1] # t},
           fund' = [fund EXCEPT ![t] = 0],
           \A x \in Tasks : x # t => state'[x] = state[x],
           UNCHANGED kind
    PROVE  Custody'
<1>1. /\ EscrowExclusive'
      /\ HeldFor(t)' = {}
      /\ \A x \in Tasks : x # t => HeldFor(x)' = HeldFor(x)
  BY HandOver DEF Custody
<1>2. \A x \in Tasks : fund'[x] = IF x = t THEN 0 ELSE fund[x]
  BY DEF TypeOK, EscrowTypes
<1>3. NoOrphanedEscrow'
  BY <1>1, <1>2 DEF Custody, NoOrphanedEscrow
<1>4. RewardRecorded'
  BY <1>1, <1>2 DEF Custody, RewardRecorded
<1> QED
  BY <1>1, <1>3, <1>4 DEF Custody

\* Escrowing free collectibles for a draft whose kind then says so.
LEMMA EscrowedCustody ==
    ASSUME TypeOK, Custody, NEW t \in Tasks, NEW chosen \in SUBSET Collectibles,
           \A c \in chosen : cstate[c] = "minted",
           cstate' = [c \in Collectibles |->
                        IF c \in chosen THEN "escrowed" ELSE cstate[c]],
           held' = held \cup ({t} \X chosen),
           state'[t] = "draft", state[t] \in {"absent", "draft"},
           \A x \in Tasks : x # t => state'[x] = state[x] /\ kind'[x] = kind[x],
           kind[t] \in CreditKinds => kind'[t] \in CreditKinds,
           kind[t] \in CollectibleKinds => kind'[t] \in CollectibleKinds,
           chosen # {} => kind'[t] \in CollectibleKinds,
           UNCHANGED fund
    PROVE  Custody'
<1>1. \A x \in Tasks, c \in Collectibles :
        <<x, c>> \in held' <=> <<x, c>> \in held \/ (x = t /\ c \in chosen)
  OBVIOUS
<1>2. \A c \in chosen, x \in Tasks : <<x, c>> \notin held
  BY DEF Custody, EscrowExclusive
<1>3. ASSUME NEW c \in Collectibles
      PROVE  /\ cstate'[c] = "escrowed" <=> \E x \in Tasks : <<x, c>> \in held'
             /\ \A x, y \in Tasks : <<x, c>> \in held' /\ <<y, c>> \in held' => x = y
  BY <1>1, <1>2 DEF Custody, EscrowExclusive
<1>4. HeldFor(t)' = HeldFor(t) \cup chosen
  BY <1>1 DEF HeldFor
<1>5. \A x \in Tasks : x # t => HeldFor(x)' = HeldFor(x)
  BY <1>1 DEF HeldFor
<1>6. NoOrphanedEscrow'
  BY <1>5 DEF Custody, NoOrphanedEscrow
<1>7. RewardRecorded'
  BY <1>4, <1>5 DEF Custody, RewardRecorded
<1> QED
  BY <1>3, <1>6, <1>7 DEF Custody, EscrowExclusive

\* Steps that only move a task's state, its fund or its kind.
LEMMA RowCustody ==
    ASSUME TypeOK, Custody, NEW t \in Tasks,
           UNCHANGED <<cstate, held>>,
           state'[t] \in {"draft", "open"},
           \A x \in Tasks : x # t => /\ state'[x] = state[x] /\ kind'[x] = kind[x]
                                     /\ fund'[x] = fund[x],
           fund'[t] > 0 => kind'[t] \in CreditKinds,
           HeldFor(t) # {} => kind'[t] \in CollectibleKinds
    PROVE  Custody'
<1>1. \A x \in Tasks : HeldFor(x)' = HeldFor(x)
  BY DEF HeldFor
<1>2. EscrowExclusive'
  BY DEF Custody, EscrowExclusive
<1>3. NoOrphanedEscrow'
  BY <1>1 DEF Custody, NoOrphanedEscrow
<1>4. RewardRecorded'
  BY <1>1 DEF Custody, RewardRecorded
<1> QED
  BY <1>2, <1>3, <1>4 DEF Custody

\* Creating, funding and refunding a task keep custody.
LEMMA FundingCustody ==
    ASSUME TypeOK, Custody, FundingStep
    PROVE  Custody'
<1>1. PICK t \in Tasks :
        \/ \E chosen \in SUBSET Collectibles : CreateTask(t, chosen)
        \/ \E n \in Amounts, k \in Keys : FundTask(t, n, k)
        \/ \E n \in Amounts, k \in Keys : FundTaskFromOrganization(t, n, k)
        \/ \E c \in Collectibles : FundCollectibleReward(t, c)
        \/ \E k \in Keys : RefundTask(t, k)
        \/ RefundCollectibleReward(t)
  BY DEF FundingStep
<1>2. ASSUME NEW chosen \in SUBSET Collectibles, CreateTask(t, chosen)
      PROVE  Custody'
  BY <1>2, EscrowedCustody
  DEF CreateTask, Escrowable, escrowVars, TypeOK, TaskTypes, CollectibleKinds
<1>3. ASSUME NEW n \in Amounts, NEW k \in Keys,
             FundTask(t, n, k) \/ FundTaskFromOrganization(t, n, k)
      PROVE  Custody'
  <2>1. PICK a : Fund(a, t, n, k)
    BY <1>3 DEF FundTask, FundTaskFromOrganization
  <2>2. /\ state[t] = "draft" /\ UNCHANGED <<state, cstate, held>>
        /\ kind' = [kind EXCEPT ![t] = CASE kind[t] \in CreditKinds -> kind[t]
                                         [] kind[t] = "collectible" -> "bundle"
                                         [] OTHER -> "credit"]
        /\ fund' = [fund EXCEPT ![t] = n]
    BY <2>1 DEF Fund, RequireFundableTask, DeclareCredits, CompleteFunding, SetAside,
         collectibleVars
  <2>3. kind'[t] \in CreditKinds
    BY <2>2 DEF TypeOK, TaskTypes, CreditKinds
  <2>4. HeldFor(t) # {} => kind'[t] \in CollectibleKinds
    BY <2>2 DEF Custody, RewardRecorded, TypeOK, TaskTypes, CreditKinds, CollectibleKinds
  <2>5. \A x \in Tasks : x # t => kind'[x] = kind[x] /\ fund'[x] = fund[x]
    BY <2>2 DEF TypeOK, TaskTypes, EscrowTypes
  <2> QED
    BY <2>2, <2>3, <2>4, <2>5, RowCustody
<1>4. ASSUME NEW c \in Collectibles, FundCollectibleReward(t, c)
      PROVE  Custody'
  <2>1. /\ cstate[c] = "minted" /\ state[t] = "draft" /\ UNCHANGED <<state, fund>>
        /\ kind' = [kind EXCEPT ![t] = CASE kind[t] = "none" -> "collectible"
                                         [] kind[t] = "credit" -> "bundle"
                                         [] OTHER -> kind[t]]
        /\ cstate' = [cstate EXCEPT ![c] = "escrowed"]
        /\ held' = held \cup {<<t, c>>}
    BY <1>4 DEF FundCollectibleReward, Escrowable, escrowVars
  <2>2. kind'[t] \in CollectibleKinds
    BY <2>1 DEF TypeOK, TaskTypes, RewardKinds, CollectibleKinds
  <2>3. kind[t] \in CreditKinds => kind'[t] \in CreditKinds
    BY <2>1 DEF TypeOK, TaskTypes, CreditKinds
  <2>4. \A x \in Tasks : x # t => kind'[x] = kind[x]
    BY <2>1 DEF TypeOK, TaskTypes
  <2>5. cstate' = [x \in Collectibles |-> IF x \in {c} THEN "escrowed" ELSE cstate[x]]
    BY <2>1 DEF TypeOK, CollectibleTypes
  <2>6. held' = held \cup ({t} \X {c})
    BY <2>1
  <2> QED
    BY <2>1, <2>2, <2>3, <2>4, <2>5, <2>6, EscrowedCustody
<1>5. ASSUME NEW k \in Keys, RefundTask(t, k)
      PROVE  Custody'
  BY <1>5, SettledCustody
  DEF RefundTask, RefundCredits, ReturnCollectibles, TypeOK, TaskTypes
<1>6. ASSUME RefundCollectibleReward(t)
      PROVE  Custody'
  <2>1. fund[t] = 0
    BY <1>6 DEF RefundCollectibleReward, Custody, RewardRecorded, CreditKinds,
         CollectibleKinds, TypeOK, EscrowTypes
  <2>2. fund' = [fund EXCEPT ![t] = 0]
    BY <1>6, <2>1 DEF RefundCollectibleReward, escrowVars, TypeOK, EscrowTypes
  <2> QED
    BY <1>6, <2>2, SettledCustody
    DEF RefundCollectibleReward, ReturnCollectibles, TypeOK, TaskTypes
<1> QED
  BY <1>1, <1>2, <1>3, <1>4, <1>5, <1>6

\* Changing the state of a task keeps custody, even when the state it was
\* decided on is gone: opening and unpublishing only move to a live state.
LEMMA LifecycleCustody ==
    ASSUME TypeOK, Custody, LifecycleStep
    PROVE  Custody'
<1>1. ASSUME NEW q \in Requests, req[q].op # "idle"
      PROVE  req[q].task \in Tasks
  BY <1>1 DEF TypeOK, WorkTypes, RequestSet, Idle
<1>2. ASSUME NEW q \in Requests, OpenTask(q) \/ UnpublishTask(q)
      PROVE  Custody'
  <2> DEFINE t == req[q].task
  <2>1. t \in Tasks
    BY <1>1, <1>2 DEF OpenTask, UnpublishTask
  <2>2. UNCHANGED <<kind, fund, cstate, held>>
    BY <1>2 DEF OpenTask, UnpublishTask, escrowVars, collectibleVars
  <2>3. CASE UNCHANGED state
    BY <2>2, <2>3, CustodyUnchanged DEF custodyVars
  <2>4. CASE state' = [state EXCEPT ![t] = "open"] \/ state' = [state EXCEPT ![t] = "draft"]
    <3>1. state'[t] \in {"draft", "open"} /\ \A x \in Tasks : x # t => state'[x] = state[x]
      BY <2>1, <2>4 DEF TypeOK, TaskTypes
    <3> QED
      BY <2>1, <2>2, <3>1, RowCustody DEF Custody, RewardRecorded
  <2> QED
    BY <1>2, <2>3, <2>4 DEF OpenTask, UnpublishTask
<1>3. ASSUME NEW q \in Requests, CancelTask(q)
      PROVE  Custody'
  <2> DEFINE t == req[q].task
  <2>1. t \in Tasks
    BY <1>1, <1>3 DEF CancelTask
  <2> QED
    BY <1>3, <2>1, SettledCustody
    DEF CancelTask, RefundCredits, ReturnCollectibles, TypeOK, TaskTypes
<1>4. ASSUME NEW t \in Tasks, ExpireTask(t)
      PROVE  Custody'
  BY <1>4, SettledCustody
  DEF ExpireTask, RefundCredits, ReturnCollectibles, TypeOK, TaskTypes
<1>5. ASSUME \/ \E q \in Requests, t \in Tasks, target \in Targets :
                  BeginChangeState(q, t, target)
             \/ \E t \in Tasks : TaskFallsDue(t)
      PROVE  Custody'
  BY <1>5, CustodyUnchanged DEF BeginChangeState, TaskFallsDue, custodyVars,
       taskVars, escrowVars, collectibleVars
<1> QED
  BY <1>2, <1>3, <1>4, <1>5 DEF LifecycleStep

\* Reviewing keeps custody.
LEMMA ReviewCustody ==
    ASSUME TypeOK, Custody, ReviewStep
    PROVE  Custody'
<1>1. ASSUME NEW t \in Tasks, NEW s \in Submissions, NEW k \in Keys,
             RequestChanges(t, s)
      PROVE  Custody'
  BY <1>1, CustodyUnchanged DEF RequestChanges, Reviewable, custodyVars, taskVars, escrowVars,
       collectibleVars
<1>2. ASSUME NEW t \in Tasks, NEW s \in Submissions, NEW k \in Keys,
             NEW v \in Accounts, NEW pay \in Amounts \cup {0},
             NEW tip \in Amounts \cup {0}, NEW gift \in Collectibles \cup {None},
             AcceptSubmission(v, t, s, k, pay, tip, gift)
      PROVE  Custody'
  <2>1. /\ cstate' = [c \in Collectibles |->
                        IF c \in HeldFor(t) THEN "minted" ELSE cstate[c]]
        /\ held' = {p \in held : p[1] # t}
        /\ fund' = [fund EXCEPT ![t] = 0]
        /\ state' = [state EXCEPT ![t] = "closed"]
        /\ kind' = kind
    BY <1>2, Zenon DEF AcceptSubmission, Reviewable
  <2>2. \A x \in Tasks : x # t => state'[x] = state[x]
    BY <2>1 DEF TypeOK, TaskTypes
  <2> QED
    BY <2>1, <2>2, SettledCustody
<1>3. ASSUME NEW t \in Tasks, NEW s \in Submissions, NEW k \in Keys,
             NEW v \in Accounts, NEW pay \in Amounts \cup {0},
             NEW tip \in Amounts \cup {0}, NEW ban \in BOOLEAN,
             RejectSubmission(v, t, s, k, pay, tip, ban)
      PROVE  Custody'
  <2>1. RejectWrites(v, t, s, k, pay, tip)
    BY <1>3, RejectEffect
  <2>2. /\ pay \in Nat /\ fund[t] - pay \in Nat
        /\ fund' = [fund EXCEPT ![t] = @ - pay]
    BY <2>1, Zenon DEF RejectWrites
  <2>3. state[t] = "open" /\ UNCHANGED <<state, kind, cstate, held>>
    BY <1>3, Zenon DEF RejectSubmission, Reviewable, taskVars, collectibleVars
  <2>4. \A x \in Tasks : x # t => fund'[x] = fund[x]
    BY <2>2 DEF TypeOK, EscrowTypes
  <2>5. fund'[t] > 0 => fund[t] > 0
    BY <2>2 DEF TypeOK, EscrowTypes
  <2> QED
    BY <2>3, <2>4, <2>5, RowCustody DEF Custody, RewardRecorded
<1> QED
  BY <1>1, <1>2, <1>3 DEF ReviewStep

\* A gift, a withdrawal or a release of a collectible keeps custody: only a
\* collectible that no task holds can be touched.
LEMMA MovementCustody ==
    ASSUME TypeOK, Custody, MovementStep
    PROVE  Custody'
<1> USE DEF taskVars, escrowVars, custodyVars, collectibleVars
<1>1. ASSUME NEW c \in Collectibles, WithdrawCollectible(c) \/ ReleaseCollectible(c)
      PROVE  Custody'
  <2>1. /\ UNCHANGED <<state, kind, fund, held>>
        /\ \A x \in Collectibles : cstate'[x] = "escrowed" <=> cstate[x] = "escrowed"
    BY <1>1 DEF WithdrawCollectible, ReleaseCollectible, TypeOK, CollectibleTypes
  <2> QED
    BY <2>1 DEF Custody, NoOrphanedEscrow, RewardRecorded, EscrowExclusive, HeldFor
<1>2. ASSUME \/ \E a \in Accounts, n \in Amounts, k \in Keys : GrantCredits(a, n, k)
             \/ \E a, b \in Accounts, n \in Amounts, k \in Keys : PeerTransfer(a, b, n, k)
             \/ NewDay
             \/ \E c \in Collectibles, u \in Users : GiftCollectible(c, u)
      PROVE  Custody'
  BY <1>2, CustodyUnchanged DEF GrantCredits, PeerTransfer, NewDay, GiftCollectible
<1> QED
  BY <1>1, <1>2 DEF MovementStep

\* Every step keeps custody.
LEMMA CustodyStep == TypeOK /\ Custody /\ [Next]_vars => Custody'
<1> SUFFICES ASSUME TypeOK, Custody, [Next]_vars
             PROVE  Custody'
  OBVIOUS
<1> USE DEF taskVars, escrowVars, collectibleVars, custodyVars
<1>1. ASSUME WorkStep
      PROVE  Custody'
  BY <1>1, CustodyUnchanged
  DEF WorkStep, Reserve, CancelReservation, ReservationLapses,
      ExpireDueReservations, BeginSubmit, CreateSubmission
<1>2. ASSUME UNCHANGED vars
      PROVE  Custody'
  BY <1>2, CustodyUnchanged DEF vars
<1> QED
  BY <1>1, <1>2, FundingCustody, LifecycleCustody, ReviewCustody, MovementCustody
  DEF Next

\* Nothing is set aside at first.
LEMMA CustodyInit == Init => Custody
BY DEF Init, Custody, NoOrphanedEscrow, RewardRecorded, EscrowExclusive, HeldFor

\* Custody holds in every reachable state.
THEOREM CustodySafe == Spec => []Custody
BY CustodyInit, CustodyStep, TypeCorrect, PTL DEF Spec

\* No credits and no collectibles are ever stranded on a closed, cancelled or
\* expired task, whatever stale state changes interleave with settlement.
THEOREM EscrowNeverOrphaned == Spec => []NoOrphanedEscrow
<1>1. Custody => NoOrphanedEscrow
  BY DEF Custody
<1> QED
  BY <1>1, CustodySafe, PTL

\* A collectible is escrowed for exactly the one task that holds it.
THEOREM EscrowNeverShared == Spec => []EscrowExclusive
<1>1. Custody => EscrowExclusive
  BY DEF Custody
<1> QED
  BY <1>1, CustodySafe, PTL

\* The recorded reward kind names everything that is set aside.
THEOREM RewardAlwaysRecorded == Spec => []RewardRecorded
<1>1. Custody => RewardRecorded
  BY DEF Custody
<1> QED
  BY <1>1, CustodySafe, PTL

-----------------------------------------------------------------------------
(* An open task has its reward set aside.                                  *)

\* A payout of task t is in the ledger.
PaidOut(t) == \E e \in keyed : e.task = t /\ e.kind = "task_payout"

Backed(t) ==
    /\ kind[t] \in CollectibleKinds => HeldFor(t) # {}
    /\ kind[t] \in CreditKinds => fund[t] = declared[t] \/ PaidOut(t)

\* A task whose row a step leaves alone stays backed: entries are only added.
LEMMA BackedUnchanged ==
    ASSUME NEW t \in Tasks, Backed(t), keyed \subseteq keyed',
           HeldFor(t) \subseteq HeldFor(t)',
           kind'[t] = kind[t], declared'[t] = declared[t], fund'[t] = fund[t]
    PROVE  Backed(t)'
BY DEF Backed, PaidOut

\* The invariant holds again if the tasks that are open after a step were
\* open and kept their rows.
LEMMA BackedOthers ==
    ASSUME OpenRewardBacked, keyed \subseteq keyed',
           \A x \in Tasks : state'[x] = "open" =>
             \/ Backed(x)'
             \/ /\ state[x] = "open"
                /\ HeldFor(x) \subseteq HeldFor(x)'
                /\ kind'[x] = kind[x] /\ declared'[x] = declared[x] /\ fund'[x] = fund[x]
    PROVE  OpenRewardBacked'
<1>1. ASSUME NEW x \in Tasks, state'[x] = "open"
      PROVE  Backed(x)'
  <2>1. state[x] = "open" => Backed(x)
    BY DEF OpenRewardBacked, Backed, PaidOut
  <2> QED
    BY <1>1, <2>1, BackedUnchanged
<1> QED
  BY <1>1 DEF OpenRewardBacked, Backed, PaidOut

\* Settling a task leaves it in a state that promises nothing, and the rows of
\* the other tasks alone.
LEMMA BackedSettled ==
    ASSUME TypeOK, OpenRewardBacked, NEW t \in Tasks, NEW new, new # "open",
           state' = [state EXCEPT ![t] = new],
           held' = {p \in held : p[1] # t}, keyed \subseteq keyed',
           \A x \in Tasks : x # t => fund'[x] = fund[x], UNCHANGED <<kind, declared>>
    PROVE  OpenRewardBacked'
<1>1. state'[t] # "open" /\ \A x \in Tasks : x # t => state'[x] = state[x]
  BY DEF TypeOK, TaskTypes
<1>2. \A x \in Tasks : x # t => HeldFor(x) \subseteq HeldFor(x)'
  BY DEF HeldFor
<1> QED
  BY <1>1, <1>2, BackedOthers

\* A step on a draft promises nothing yet.
LEMMA BackedDraft ==
    ASSUME TypeOK, OpenRewardBacked, NEW t \in Tasks, state'[t] = "draft",
           \A x \in Tasks : x # t => /\ state'[x] = state[x] /\ kind'[x] = kind[x]
                                     /\ declared'[x] = declared[x] /\ fund'[x] = fund[x],
           held \subseteq held', keyed \subseteq keyed'
    PROVE  OpenRewardBacked'
<1>1. \A x \in Tasks : HeldFor(x) \subseteq HeldFor(x)'
  BY DEF HeldFor
<1> QED
  BY <1>1, BackedOthers

\* A step that leaves tasks, funds and holdings alone.
LEMMA BackedElsewhere ==
    ASSUME OpenRewardBacked, keyed \subseteq keyed',
           UNCHANGED <<state, kind, declared, fund, held>>
    PROVE  OpenRewardBacked'
<1>1. \A x \in Tasks : HeldFor(x) \subseteq HeldFor(x)'
  BY DEF HeldFor
<1> QED
  BY <1>1, BackedOthers

\* Creating and funding keep open tasks backed: both only write drafts.
LEMMA FundingBacked ==
    ASSUME TypeOK, OpenRewardBacked, FundingStep
    PROVE  OpenRewardBacked'
<1>1. PICK t \in Tasks :
        \/ \E chosen \in SUBSET Collectibles : CreateTask(t, chosen)
        \/ \E n \in Amounts, k \in Keys : FundTask(t, n, k)
        \/ \E n \in Amounts, k \in Keys : FundTaskFromOrganization(t, n, k)
        \/ \E c \in Collectibles : FundCollectibleReward(t, c)
        \/ \E k \in Keys : RefundTask(t, k)
        \/ RefundCollectibleReward(t)
  BY DEF FundingStep
<1>2. ASSUME NEW chosen \in SUBSET Collectibles, CreateTask(t, chosen)
      PROVE  OpenRewardBacked'
  BY <1>2, BackedDraft
  DEF CreateTask, escrowVars, ledgerVars, TypeOK, TaskTypes
<1>3. ASSUME NEW n \in Amounts, NEW k \in Keys,
             FundTask(t, n, k) \/ FundTaskFromOrganization(t, n, k)
      PROVE  OpenRewardBacked'
  <2>1. PICK a : Fund(a, t, n, k)
    BY <1>3 DEF FundTask, FundTaskFromOrganization
  <2>2. /\ state'[t] = "draft" /\ UNCHANGED <<state, held>>
        /\ keyed \subseteq keyed'
        /\ \A x \in Tasks : x # t => kind'[x] = kind[x] /\ declared'[x] = declared[x]
                                     /\ fund'[x] = fund[x]
    BY <2>1 DEF Fund, RequireFundableTask, DeclareCredits, CompleteFunding, SetAside,
         collectibleVars, TypeOK, TaskTypes, EscrowTypes
  <2> QED
    BY <2>2, BackedDraft
<1>4. ASSUME NEW c \in Collectibles, FundCollectibleReward(t, c)
      PROVE  OpenRewardBacked'
  BY <1>4, BackedDraft
  DEF FundCollectibleReward, escrowVars, ledgerVars, TypeOK, TaskTypes
<1>5. ASSUME NEW k \in Keys, RefundTask(t, k)
      PROVE  OpenRewardBacked'
  BY <1>5, BackedSettled
  DEF RefundTask, RefundCredits, ReturnCollectibles, TypeOK, EscrowTypes
<1>6. ASSUME RefundCollectibleReward(t)
      PROVE  OpenRewardBacked'
  BY <1>6, BackedSettled
  DEF RefundCollectibleReward, ReturnCollectibles, escrowVars, ledgerVars
<1> QED
  BY <1>1, <1>2, <1>3, <1>4, <1>5, <1>6

\* Opening asks for the whole reward inside its own transaction, however old
\* the state the request was decided on.
LEMMA LifecycleBacked ==
    ASSUME TypeOK, OpenRewardBacked, LifecycleStep
    PROVE  OpenRewardBacked'
<1>1. ASSUME NEW q \in Requests, req[q].op # "idle"
      PROVE  req[q].task \in Tasks
  BY <1>1 DEF TypeOK, WorkTypes, RequestSet, Idle
<1>2. ASSUME NEW q \in Requests, OpenTask(q)
      PROVE  OpenRewardBacked'
  <2>1. PICK t \in Tasks : t = req[q].task
    BY <1>1, <1>2 DEF OpenTask
  <2>2. UNCHANGED <<kind, declared, fund, held, keyed>>
    BY <1>2 DEF OpenTask, escrowVars, ledgerVars, collectibleVars
  <2>3. CASE ~Openable(t)
    BY <1>2, <2>1, <2>2, <2>3, BackedElsewhere DEF OpenTask
  <2>4. CASE Openable(t)
    <3>1. state' = [state EXCEPT ![t] = "open"]
      BY <1>2, <2>1, <2>4 DEF OpenTask
    <3>2. Backed(t)'
      BY <2>2, <2>4 DEF Openable, Backed, PaidOut, HeldFor
    <3>3. \A x \in Tasks : HeldFor(x) \subseteq HeldFor(x)'
      BY <2>2 DEF HeldFor
    <3>4. \A x \in Tasks : x # t => state'[x] = state[x]
      BY <3>1 DEF TypeOK, TaskTypes
    <3> QED
      BY <2>2, <3>2, <3>3, <3>4, BackedOthers
  <2> QED
    BY <2>3, <2>4
<1>3. ASSUME NEW q \in Requests, UnpublishTask(q)
      PROVE  OpenRewardBacked'
  <2>1. req[q].task \in Tasks
    BY <1>1, <1>3 DEF UnpublishTask
  <2> QED
    BY <1>3, <2>1, BackedDraft
    DEF UnpublishTask, escrowVars, ledgerVars, collectibleVars, TypeOK, TaskTypes
<1>4. ASSUME NEW q \in Requests, CancelTask(q)
      PROVE  OpenRewardBacked'
  <2>1. req[q].task \in Tasks
    BY <1>1, <1>4 DEF CancelTask
  <2> QED
    BY <1>4, <2>1, BackedSettled
    DEF CancelTask, RefundCredits, ReturnCollectibles, TypeOK, EscrowTypes
<1>5. ASSUME NEW t \in Tasks, ExpireTask(t)
      PROVE  OpenRewardBacked'
  BY <1>5, BackedSettled
  DEF ExpireTask, RefundCredits, ReturnCollectibles, TypeOK, EscrowTypes
<1>6. ASSUME \/ \E q \in Requests, t \in Tasks, target \in Targets :
                  BeginChangeState(q, t, target)
             \/ \E t \in Tasks : TaskFallsDue(t)
      PROVE  OpenRewardBacked'
  BY <1>6, BackedElsewhere
  DEF BeginChangeState, TaskFallsDue, taskVars, escrowVars, ledgerVars, collectibleVars
<1> QED
  BY <1>2, <1>3, <1>4, <1>5, <1>6 DEF LifecycleStep

\* A review closes the task, or leaves a payout behind that explains what is
\* missing from its fund.
LEMMA ReviewBacked ==
    ASSUME TypeOK, OpenRewardBacked, ReviewStep
    PROVE  OpenRewardBacked'
<1>1. ASSUME NEW t \in Tasks, NEW s \in Submissions, RequestChanges(t, s)
      PROVE  OpenRewardBacked'
  BY <1>1, BackedElsewhere
  DEF RequestChanges, Reviewable, taskVars, escrowVars, ledgerVars, collectibleVars
<1>2. ASSUME NEW t \in Tasks, NEW s \in Submissions, NEW k \in Keys,
             NEW v \in Accounts, NEW pay \in Amounts \cup {0},
             NEW tip \in Amounts \cup {0}, NEW gift \in Collectibles \cup {None},
             AcceptSubmission(v, t, s, k, pay, tip, gift)
      PROVE  OpenRewardBacked'
  <2>1. AcceptWrites(v, t, s, k, pay, tip)
    BY <1>2, AcceptEffect
  <2>2. /\ state' = [state EXCEPT ![t] = "closed"] /\ held' = {p \in held : p[1] # t}
        /\ fund' = [fund EXCEPT ![t] = 0]
    BY <2>1, Zenon DEF AcceptWrites
  <2>3. keyed \subseteq keyed'
    BY <2>1, Zenon DEF AcceptWrites
  <2>4. UNCHANGED <<kind, declared>>
    BY <1>2, Zenon DEF AcceptSubmission, Reviewable
  <2>5. \A x \in Tasks : x # t => fund'[x] = fund[x]
    BY <2>2 DEF TypeOK, EscrowTypes
  <2> QED
    BY <2>2, <2>3, <2>4, <2>5, BackedSettled
<1>3. ASSUME NEW t \in Tasks, NEW s \in Submissions, NEW k \in Keys,
             NEW v \in Accounts, NEW pay \in Amounts \cup {0},
             NEW tip \in Amounts \cup {0}, NEW ban \in BOOLEAN,
             RejectSubmission(v, t, s, k, pay, tip, ban)
      PROVE  OpenRewardBacked'
  <2>1. RejectWrites(v, t, s, k, pay, tip)
    BY <1>3, RejectEffect
  <2>2. /\ pay \in Nat /\ fund' = [fund EXCEPT ![t] = @ - pay]
        /\ keyed' = keyed \cup PayoutEntries(sub[s].user, t, k, pay)
                          \cup TipEntries(v, sub[s].user, t, k, tip)
    BY <2>1, Zenon DEF RejectWrites
  <2>3. state[t] = "open" /\ UNCHANGED <<state, kind, declared, held>>
    BY <1>3, Zenon DEF RejectSubmission, Reviewable, taskVars, collectibleVars
  <2>4. keyed \subseteq keyed' /\ \A x \in Tasks : HeldFor(x) \subseteq HeldFor(x)'
    BY <2>2, <2>3 DEF HeldFor
  <2>5. CASE pay = 0
    <3>1. fund' = fund
      BY <2>2, <2>5 DEF TypeOK, EscrowTypes
    <3> QED
      BY <2>3, <2>4, <3>1, BackedElsewhere
  <2>6. CASE pay # 0
    <3>1. Entry(sub[s].user, Bare(k), "task_payout", t, pay) \in keyed'
      BY <2>2, <2>6, Zenon DEF PayoutEntries
    <3>2. PaidOut(t)'
      BY <3>1 DEF PaidOut, Entry
    <3>3. kind[t] \in CollectibleKinds => HeldFor(t) # {}
      BY <2>3 DEF OpenRewardBacked
    <3>4. Backed(t)'
      BY <2>3, <2>4, <3>2, <3>3 DEF Backed
    <3>5. \A x \in Tasks : x # t => fund'[x] = fund[x]
      BY <2>2 DEF TypeOK, EscrowTypes
    <3> QED
      BY <2>3, <2>4, <3>4, <3>5, BackedOthers
  <2> QED
    BY <2>5, <2>6
<1> QED
  BY <1>1, <1>2, <1>3 DEF ReviewStep

\* Every step keeps open tasks backed.
LEMMA BackedStep == TypeOK /\ OpenRewardBacked /\ [Next]_vars => OpenRewardBacked'
<1> SUFFICES ASSUME TypeOK, OpenRewardBacked, [Next]_vars
             PROVE  OpenRewardBacked'
  OBVIOUS
<1> USE DEF taskVars, escrowVars, ledgerVars, collectibleVars
<1>1. CASE WorkStep
  BY <1>1, BackedElsewhere
  DEF WorkStep, Reserve, CancelReservation, ReservationLapses,
      ExpireDueReservations, BeginSubmit, CreateSubmission
<1>2. CASE MovementStep
  BY <1>2, BackedElsewhere
  DEF MovementStep, GrantCredits, PeerTransfer, NewDay, GiftCollectible,
      WithdrawCollectible, ReleaseCollectible
<1>3. CASE UNCHANGED vars
  BY <1>3, BackedElsewhere DEF vars
<1> QED
  BY <1>1, <1>2, <1>3, FundingBacked, LifecycleBacked, ReviewBacked DEF Next

\* What an open task promises is set aside for it, also when a stale request
\* opens or reopens it, unless a rejected submission was paid from it.
THEOREM OpenAlwaysBacked == Spec => []OpenRewardBacked
<1>1. Init => OpenRewardBacked
  BY DEF Init, OpenRewardBacked
<1> QED
  BY <1>1, BackedStep, TypeCorrect, PTL DEF Spec

-----------------------------------------------------------------------------
(* Where escrowed credits go.                                              *)

\* Nobody but the worker and the funder gains by a review: a tip is a loss to
\* the reviewer.
LEMMA ReviewGains ==
    ASSUME NEW b \in [Accounts -> Int], NEW v \in Accounts, NEW w \in Accounts,
           NEW tip \in Nat, NEW a \in Accounts, a # w
    PROVE  Transferred(b, v, w, tip)[a] <= b[a]
<1> DEFINE d == Posted(b, v, -tip)
<1>1. tip \in Int /\ -tip \in Int
  OBVIOUS
<1>2. /\ d \in [Accounts -> Int]
      /\ d[a] = IF a = v THEN b[a] + (-tip) ELSE b[a]
  BY <1>1, PostedType
<1>3. Posted(d, w, tip)[a] = d[a]
  <2> HIDE DEF d
  <2> QED
    BY <1>1, <1>2, PostedType
<1>4. d[a] <= b[a]
  <2> HIDE DEF d
  <2> QED
    BY <1>2
<1> HIDE DEF d
<1> QED
  BY <1>3, <1>4 DEF Transferred, d

GainIsEarned(t, a) ==
    \/ a = funder[t]
    \/ \E s \in Submissions : /\ sub[s].task = t /\ sub[s].user = a
                              /\ sub[s].state = "submitted"

\* A fund row that shrinks makes nobody richer but its funder and a worker.
LEMMA GainStep ==
    ASSUME TypeOK, [Next]_vars, NEW t \in Tasks, NEW a \in Accounts,
           fund'[t] < fund[t], balance'[a] > balance[a]
    PROVE  GainIsEarned(t, a)
<1>0. /\ balance \in [Accounts -> Int] /\ balance[a] \in Int
      /\ \A x \in Tasks : fund[x] \in Nat
      /\ fund \in [Tasks -> Nat]
  BY DEF TypeOK, LedgerTypes, EscrowTypes
<1>u. fund' # fund
  BY <1>0
<1>i. balance'[a] \in Int
  BY TypeStep DEF TypeOK, LedgerTypes
<1>1. ASSUME NEW x \in Tasks, RefundCredits(x)
      PROVE  GainIsEarned(t, a)
  <2>1. x = t
    BY <1>0, <1>1 DEF RefundCredits
  <2>2. fund[x] \in Int
    BY <1>0
  <2>3. balance'[a] = IF a = funder[x] THEN balance[a] + fund[x] ELSE balance[a]
    BY <1>0, <1>1, <2>2, PostedType DEF RefundCredits
  <2> QED
    BY <1>0, <2>1, <2>3 DEF GainIsEarned
<1>2. CASE FundingStep
  <2>1. PICK x \in Tasks :
          \/ \E chosen \in SUBSET Collectibles : CreateTask(x, chosen)
          \/ \E n \in Amounts, k \in Keys : FundTask(x, n, k)
          \/ \E n \in Amounts, k \in Keys : FundTaskFromOrganization(x, n, k)
          \/ \E c \in Collectibles : FundCollectibleReward(x, c)
          \/ \E k \in Keys : RefundTask(x, k)
          \/ RefundCollectibleReward(x)
    BY <1>2 DEF FundingStep
  <2>2. ASSUME NEW n \in Amounts, NEW k \in Keys,
               FundTask(x, n, k) \/ FundTaskFromOrganization(x, n, k)
        PROVE  FALSE
    <3>1. fund[x] = 0 /\ fund' = [fund EXCEPT ![x] = n]
      BY <2>2 DEF FundTask, FundTaskFromOrganization, Fund, CompleteFunding, SetAside
    <3>2. n \in Nat
      BY CreditAssumption
    <3> QED
      BY <1>0, <3>1, <3>2
  <2> QED
    BY <1>u, <1>1, <2>1, <2>2
    DEF CreateTask, FundCollectibleReward, RefundTask, RefundCollectibleReward, escrowVars
<1>3. CASE LifecycleStep
  <2>1. ASSUME NEW q \in Requests, CancelTask(q)
        PROVE  GainIsEarned(t, a)
    <3>1. req[q].task \in Tasks
      BY <2>1 DEF CancelTask, TypeOK, WorkTypes, RequestSet, Idle
    <3> QED
      BY <1>1, <2>1, <3>1 DEF CancelTask
  <2> QED
    BY <1>u, <1>1, <1>3, <2>1
    DEF LifecycleStep, BeginChangeState, OpenTask, UnpublishTask, TaskFallsDue,
        ExpireTask, escrowVars
<1>4. CASE ReviewStep
  <2>1. ASSUME NEW x \in Tasks, NEW s \in Submissions, NEW k \in Keys,
               NEW v \in Accounts, NEW pay \in Amounts \cup {0},
               NEW tip \in Amounts \cup {0}, NEW gift \in Collectibles \cup {None},
               AcceptSubmission(v, x, s, k, pay, tip, gift)
        PROVE  GainIsEarned(t, a)
    <3> DEFINE w == sub[s].user
               n == Payout(x, pay)
               mid == Posted(balance, w, n)
               paid == Settled(w, x, n)
    <3>1. AcceptWrites(v, x, s, k, pay, tip)
      BY <2>1, AcceptEffect
    <3>2. /\ w \in Users /\ sub[s].task = x /\ sub[s].state = "submitted"
          /\ n \in Nat /\ fund[x] - n \in Nat /\ tip \in Nat
          /\ paid \in [Accounts -> Int]
          /\ balance' = Transferred(paid, v, w, tip)
          /\ fund' = [fund EXCEPT ![x] = 0]
      BY <3>1, Zenon DEF AcceptWrites
    <3>3. x = t
      BY <1>0, <3>2
    <3>4. ASSUME a # w, a # funder[x]
          PROVE  FALSE
      <4>1. n \in Int /\ fund[x] - n \in Int
        BY <3>2
      <4>2. mid \in [Accounts -> Int] /\ mid[a] = balance[a]
        BY <1>0, <3>4, <4>1, PostedType
      <4>3. paid[a] = mid[a]
        <5> HIDE DEF mid, n
        <5> QED
          BY <3>4, <4>1, <4>2, PostedType DEF Settled, mid
      <4>4. balance'[a] <= paid[a]
        <5>1. w \in Accounts
          BY <3>2 DEF Accounts
        <5> HIDE DEF paid, w
        <5> QED
          BY <3>2, <3>4, <5>1, ReviewGains
      <4> HIDE DEF paid, mid
      <4> QED
        BY <1>0, <1>i, <4>2, <4>3, <4>4
    <3> QED
      BY <3>2, <3>3, <3>4 DEF GainIsEarned
  <2>2. ASSUME NEW x \in Tasks, NEW s \in Submissions, NEW k \in Keys,
               NEW v \in Accounts, NEW pay \in Amounts \cup {0},
               NEW tip \in Amounts \cup {0}, NEW ban \in BOOLEAN,
               RejectSubmission(v, x, s, k, pay, tip, ban)
        PROVE  GainIsEarned(t, a)
    <3> DEFINE w == sub[s].user
               paid == Posted(balance, w, pay)
    <3>1. RejectWrites(v, x, s, k, pay, tip)
      BY <2>2, RejectEffect
    <3>2. /\ w \in Users /\ sub[s].task = x /\ sub[s].state = "submitted"
          /\ pay \in Nat /\ tip \in Nat
          /\ paid \in [Accounts -> Int]
          /\ balance' = Transferred(paid, v, w, tip)
          /\ fund' = [fund EXCEPT ![x] = @ - pay]
      BY <3>1, Zenon DEF RejectWrites
    <3>3. x = t
      BY <1>0, <3>2
    <3>4. ASSUME a # w
          PROVE  FALSE
      <4>1. pay \in Int
        BY <3>2
      <4>2. paid[a] = balance[a]
        BY <1>0, <3>4, <4>1, PostedType
      <4>3. balance'[a] <= paid[a]
        <5>1. w \in Accounts
          BY <3>2 DEF Accounts
        <5> HIDE DEF paid, w
        <5> QED
          BY <3>2, <3>4, <5>1, ReviewGains
      <4> HIDE DEF paid
      <4> QED
        BY <1>0, <1>i, <4>2, <4>3
    <3> QED
      BY <3>2, <3>3, <3>4 DEF GainIsEarned
  <2>3. ASSUME NEW x \in Tasks, NEW s \in Submissions, RequestChanges(x, s)
        PROVE  FALSE
    BY <1>u, <2>3 DEF RequestChanges, Reviewable, escrowVars
  <2> QED
    BY <1>4, <2>1, <2>2, <2>3 DEF ReviewStep
<1>5. CASE WorkStep
  BY <1>u, <1>5
  DEF WorkStep, Reserve, CancelReservation, ReservationLapses,
      ExpireDueReservations, BeginSubmit, CreateSubmission, escrowVars
<1>6. CASE MovementStep
  BY <1>u, <1>6
  DEF MovementStep, GrantCredits, PeerTransfer, NewDay, GiftCollectible,
      WithdrawCollectible, ReleaseCollectible, escrowVars
<1>7. CASE UNCHANGED vars
  BY <1>u, <1>7 DEF vars, escrowVars
<1> QED
  BY <1>2, <1>3, <1>4, <1>5, <1>6, <1>7 DEF Next

\* Escrowed credits leave a task only for the account that funded it or for a
\* user whose submission was awaiting review, whoever asks and by which path.
THEOREM EscrowReachesFunderOrWorker == Spec => EscrowGoesToFunderOrWorker
<1>1. TypeOK /\ [Next]_vars =>
        [\A t \in Tasks, a \in Accounts :
           fund'[t] < fund[t] /\ balance'[a] > balance[a] =>
             \/ a = funder[t]
             \/ \E s \in Submissions : /\ sub[s].task = t /\ sub[s].user = a
                                       /\ sub[s].state = "submitted"]_vars
  BY GainStep DEF GainIsEarned
<1> QED
  BY <1>1, TypeCorrect, PTL DEF Spec, EscrowGoesToFunderOrWorker

-----------------------------------------------------------------------------
(* The marketplace implements Escrow.                                      *)

\* A task without credits has no funder: the fund row is deleted when it is
\* empty.  Returning an empty pot would otherwise forget its payer.
FundRows == \A t \in Tasks : fund[t] = 0 => funder[t] = None

\* Every step keeps the fund rows that way.
LEMMA FundRowsStep == TypeOK /\ FundRows /\ [Next]_vars => FundRows'
<1> SUFFICES ASSUME TypeOK, FundRows, [Next]_vars
             PROVE  FundRows'
  OBVIOUS
<1> USE DEF escrowVars
<1>0. ASSUME UNCHANGED <<fund, funder>>
      PROVE  FundRows'
  BY <1>0 DEF FundRows
<1>1. ASSUME NEW t \in Tasks, fund' = [fund EXCEPT ![t] = 0],
             funder' = [funder EXCEPT ![t] = None]
      PROVE  FundRows'
  BY <1>1 DEF FundRows, TypeOK, EscrowTypes
<1>2. CASE FundingStep
  <2>1. ASSUME NEW t \in Tasks, NEW n \in Amounts, NEW k \in Keys,
               FundTask(t, n, k) \/ FundTaskFromOrganization(t, n, k)
        PROVE  FundRows'
    <3>1. n # 0
      BY CreditAssumption
    <3>2. PICK a : fund' = [fund EXCEPT ![t] = n] /\ funder' = [funder EXCEPT ![t] = a]
      BY <2>1 DEF FundTask, FundTaskFromOrganization, Fund, CompleteFunding, SetAside
    <3> QED
      BY <3>1, <3>2 DEF FundRows, TypeOK, EscrowTypes
  <2> QED
    BY <1>0, <1>1, <1>2, <2>1
    DEF FundingStep, CreateTask, FundCollectibleReward, RefundTask, RefundCredits,
        RefundCollectibleReward
<1>3. CASE LifecycleStep
  <2>1. ASSUME NEW q \in Requests, CancelTask(q)
        PROVE  FundRows'
    <3>1. req[q].task \in Tasks
      BY <2>1 DEF CancelTask, TypeOK, WorkTypes, RequestSet, Idle
    <3> QED
      BY <1>1, <2>1, <3>1 DEF CancelTask, RefundCredits
  <2> QED
    BY <1>0, <1>1, <1>3, <2>1
    DEF LifecycleStep, BeginChangeState, OpenTask, UnpublishTask, TaskFallsDue,
        ExpireTask, RefundCredits
<1>4. CASE ReviewStep
  <2>1. ASSUME NEW t \in Tasks, NEW s \in Submissions, NEW k \in Keys,
               NEW v \in Accounts, NEW pay \in Amounts \cup {0},
               NEW tip \in Amounts \cup {0}, NEW gift \in Collectibles \cup {None},
               AcceptSubmission(v, t, s, k, pay, tip, gift)
        PROVE  FundRows'
    <3>1. /\ fund' = [fund EXCEPT ![t] = 0]
          /\ funder' = [funder EXCEPT ![t] = None]
      BY <2>1, Zenon DEF AcceptSubmission, Reviewable
    <3> QED
      BY <1>1, <3>1
  <2>2. ASSUME NEW t \in Tasks, NEW s \in Submissions, NEW k \in Keys,
               NEW v \in Accounts, NEW pay \in Amounts \cup {0},
               NEW tip \in Amounts \cup {0}, NEW ban \in BOOLEAN,
               RejectSubmission(v, t, s, k, pay, tip, ban)
        PROVE  FundRows'
    <3>1. RejectWrites(v, t, s, k, pay, tip)
      BY <2>2, RejectEffect
    <3>2. /\ pay \in Nat /\ fund' = [fund EXCEPT ![t] = @ - pay]
          /\ funder' = [funder EXCEPT ![t] = IF fund[t] = pay THEN None ELSE @]
      BY <3>1, Zenon DEF RejectWrites
    <3> QED
      BY <3>2 DEF FundRows, TypeOK, EscrowTypes
  <2>3. ASSUME NEW t \in Tasks, NEW s \in Submissions, RequestChanges(t, s)
        PROVE  FundRows'
    BY <1>0, <2>3 DEF RequestChanges, Reviewable
  <2> QED
    BY <1>4, <2>1, <2>2, <2>3 DEF ReviewStep
<1>5. CASE WorkStep
  BY <1>0, <1>5
  DEF WorkStep, Reserve, CancelReservation, ReservationLapses,
      ExpireDueReservations, BeginSubmit, CreateSubmission
<1>6. CASE MovementStep
  BY <1>0, <1>6
  DEF MovementStep, GrantCredits, PeerTransfer, NewDay, GiftCollectible,
      WithdrawCollectible, ReleaseCollectible
<1>7. CASE UNCHANGED vars
  BY <1>0, <1>7 DEF vars
<1> QED
  BY <1>2, <1>3, <1>4, <1>5, <1>6, <1>7 DEF Next

\* The task that holds c according to the rows h, and what all of them say.
HolderIn(h, c) == IF \E t \in Tasks : <<t, c>> \in h
                  THEN CHOOSE t \in Tasks : <<t, c>> \in h
                  ELSE None
PledgeIn(h) == [c \in Collectibles |-> HolderIn(h, c)]

\* The rows of one collectible name its holder.
LEMMA HolderNamed ==
    ASSUME NEW h, NEW c,
           \A t1, t2 \in Tasks : <<t1, c>> \in h /\ <<t2, c>> \in h => t1 = t2
    PROVE  /\ \A t \in Tasks : <<t, c>> \in h => HolderIn(h, c) = t
           /\ (\A t \in Tasks : <<t, c>> \notin h) => HolderIn(h, c) = None
BY DEF HolderIn

\* The mapping reads the rows, before and after a step.
LEMMA PledgeMapping ==
    /\ [c \in Collectibles |-> Holder(c)] = PledgeIn(held)
    /\ [c \in Collectibles |-> Holder(c)]' = PledgeIn(held')
BY DEF Holder, PledgeIn, HolderIn

\* A collectible that is not escrowed is pledged to no task.
LEMMA FreeIsUnpledged ==
    ASSUME EscrowExclusive, NEW c \in Collectibles, cstate[c] # "escrowed"
    PROVE  PledgeIn(held)[c] = None
BY HolderNamed DEF EscrowExclusive, PledgeIn

\* A collectible is pledged to the task that holds it, and to no other.
LEMMA PledgedIsHeld ==
    ASSUME EscrowExclusive, NEW c \in Collectibles, NEW t \in Tasks
    PROVE  PledgeIn(held)[c] = t <=> c \in HeldFor(t)
<1>1. CASE \E x \in Tasks : <<x, c>> \in held
  BY <1>1, HolderNamed DEF EscrowExclusive, PledgeIn, HeldFor
<1>2. CASE \A x \in Tasks : <<x, c>> \notin held
  BY <1>2, HolderNamed, PartiesAssumption DEF PledgeIn, HeldFor
<1> QED
  BY <1>1, <1>2

\* Deleting the rows of a task frees what was pledged to it.
LEMMA PledgeEmptied ==
    ASSUME EscrowExclusive, NEW t \in Tasks, held' = {p \in held : p[1] # t}
    PROVE  PledgeIn(held') = [c \in Collectibles |->
             IF PledgeIn(held)[c] = t THEN None ELSE PledgeIn(held)[c]]
<1>1. ASSUME NEW c \in Collectibles
      PROVE  HolderIn(held', c) = IF PledgeIn(held)[c] = t THEN None
                                  ELSE PledgeIn(held)[c]
  <2>1. \A x \in Tasks : <<x, c>> \in held' <=> <<x, c>> \in held /\ x # t
    OBVIOUS
  <2>2. \A x, y \in Tasks : <<x, c>> \in held /\ <<y, c>> \in held => x = y
    BY DEF EscrowExclusive
  <2>3. PledgeIn(held)[c] = HolderIn(held, c)
    BY DEF PledgeIn
  <2>4. CASE \A x \in Tasks : <<x, c>> \notin held
    BY <2>1, <2>3, <2>4, HolderNamed
  <2>5. CASE \E x \in Tasks : <<x, c>> \in held
    <3>1. PICK x \in Tasks : <<x, c>> \in held
      BY <2>5
    <3>2. HolderIn(held, c) = x
      BY <2>2, <3>1, HolderNamed
    <3>3. CASE x = t
      <4>1. \A y \in Tasks : <<y, c>> \notin held'
        BY <2>1, <2>2, <3>1, <3>3
      <4> QED
        BY <2>3, <3>2, <3>3, <4>1, HolderNamed
    <3>4. CASE x # t
      <4>1. HolderIn(held', c) = x
        BY <2>1, <2>2, <3>1, <3>4, HolderNamed
      <4> QED
        BY <2>3, <3>2, <3>4, <4>1
    <3> QED
      BY <3>3, <3>4
  <2> QED
    BY <2>4, <2>5
<1> QED
  BY <1>1 DEF PledgeIn

\* New rows of a task pledge the chosen collectibles to it.
LEMMA PledgeAdded ==
    ASSUME EscrowExclusive, NEW t \in Tasks, NEW chosen \in SUBSET Collectibles,
           \A c \in chosen : cstate[c] = "minted", held' = held \cup ({t} \X chosen)
    PROVE  PledgeIn(held') = [c \in Collectibles |->
             IF c \in chosen THEN t ELSE PledgeIn(held)[c]]
<1>1. ASSUME NEW c \in Collectibles
      PROVE  HolderIn(held', c) = IF c \in chosen THEN t ELSE HolderIn(held, c)
  <2>1. \A x \in Tasks : <<x, c>> \in held' <=> <<x, c>> \in held \/ (x = t /\ c \in chosen)
    OBVIOUS
  <2>2. \A x, y \in Tasks : <<x, c>> \in held /\ <<y, c>> \in held => x = y
    BY DEF EscrowExclusive
  <2>3. CASE c \in chosen
    <3>1. \A x \in Tasks : <<x, c>> \notin held
      BY <2>3 DEF EscrowExclusive
    <3> QED
      BY <2>1, <2>3, <3>1, HolderNamed
  <2>4. CASE c \notin chosen
    BY <2>1, <2>2, <2>4, HolderNamed
  <2> QED
    BY <2>3, <2>4
<1> QED
  BY <1>1 DEF PledgeIn

\* Escrow's way of writing a credit and a tip is the ledger's.
LEMMA PromisePosts ==
    ASSUME NEW b, NEW a, NEW n, NEW x
    PROVE  /\ Promise!Credited(b, a, n) = Posted(b, a, n)
           /\ Promise!Tipped(b, a, x, n) = Transferred(b, a, x, n)
BY DEF Promise!Credited, Promise!Tipped, Posted, Transferred

promiseVars == <<balance, books, funder, cowner, held, issued>>

\* A step that touches none of it is a stuttering step of Escrow.
LEMMA PromiseUnchanged == UNCHANGED promiseVars => UNCHANGED Promise!vars
<1> SUFFICES ASSUME UNCHANGED promiseVars PROVE UNCHANGED Promise!vars
  OBVIOUS
<1>1. [c \in Collectibles |-> Holder(c)]' = [c \in Collectibles |-> Holder(c)]
  BY PledgeMapping DEF promiseVars
<1> QED
  BY <1>1 DEF promiseVars, Promise!vars

\* Deleting a task's collectible rows, its funder and its books is what
\* emptying a pot means.
LEMMA PromiseEmptied ==
    ASSUME EscrowExclusive, NEW t \in Tasks, held' = {p \in held : p[1] # t},
           books' = [books EXCEPT ![t] = 0], funder' = [funder EXCEPT ![t] = None]
    PROVE  Promise!Emptied(t)
<1>1. PledgeIn(held') = [c \in Collectibles |->
        IF PledgeIn(held)[c] = t THEN None ELSE PledgeIn(held)[c]]
  BY PledgeEmptied
<1>2. [c \in Collectibles |-> Holder(c)]' = [c \in Collectibles |->
        IF [x \in Collectibles |-> Holder(x)][c] = t THEN None
        ELSE [x \in Collectibles |-> Holder(x)][c]]
  BY <1>1, PledgeMapping, Zenon
<1> QED
  BY <1>2 DEF Promise!Emptied

\* Every way a task is cancelled, refunded or expired is a return.
LEMMA PromiseReturn ==
    ASSUME TypeOK, Money, EscrowExclusive, NEW t \in Tasks,
           held' = {p \in held : p[1] # t}, RefundCredits(t),
           UNCHANGED <<cowner, issued>>
    PROVE  Promise!Return(t)
<1>1. books[t] = fund[t] /\ fund[t] \in Nat
  BY DEF Money, TaskBooks, TypeOK, EscrowTypes
<1>2. books' = [books EXCEPT ![t] = 0]
  <2>1. books[t] - fund[t] = 0
    BY <1>1
  <2>2. books' = [books EXCEPT ![t] = books[t] - fund[t]]
    BY DEF RefundCredits
  <2> QED
    BY <2>1, <2>2, Zenon
<1>3. balance' = Promise!Credited(balance, funder[t], books[t])
  BY <1>1, PromisePosts DEF RefundCredits
<1>4. Promise!Emptied(t)
  BY <1>2, PromiseEmptied DEF RefundCredits
<1> QED
  BY <1>3, <1>4 DEF Promise!Return

\* So is the refund of a collectible reward: it writes neither the ledger nor
\* the fund, because there are no credits and no funder to forget.
LEMMA PromiseReturnGoods ==
    ASSUME TypeOK, Money, Custody, FundRows, NEW t \in Tasks,
           RefundCollectibleReward(t)
    PROVE  Promise!Return(t)
<1>1. fund[t] \in Nat /\ books[t] = fund[t]
  BY DEF Money, TaskBooks, TypeOK, EscrowTypes
<1>2. kind[t] = "collectible"
  BY DEF RefundCollectibleReward, Custody, RewardRecorded, CollectibleKinds
<1>3. fund[t] = 0
  BY <1>1, <1>2 DEF Custody, RewardRecorded, CreditKinds
<1>4. funder[t] = None
  BY <1>3 DEF FundRows
<1>5. /\ books' = [books EXCEPT ![t] = 0] /\ funder' = [funder EXCEPT ![t] = None]
      /\ balance' = balance /\ held' = {p \in held : p[1] # t}
      /\ UNCHANGED <<cowner, issued>>
  BY <1>1, <1>3, <1>4
  DEF RefundCollectibleReward, ReturnCollectibles, escrowVars, ledgerVars,
      TypeOK, EscrowTypes
<1>6. balance' = Promise!Credited(balance, funder[t], books[t])
  BY <1>4, <1>5, PartiesAssumption, PromisePosts DEF Posted
<1>7. Promise!Emptied(t)
  BY <1>5, PromiseEmptied DEF Custody
<1> QED
  BY <1>5, <1>6, <1>7 DEF Promise!Return

\* Escrowing minted collectibles of the creator is a pledge.
LEMMA PromisePledge ==
    ASSUME EscrowExclusive, NEW t \in Tasks, NEW chosen \in SUBSET Collectibles,
           \A c \in chosen : Escrowable(c, Creator[t]),
           held' = held \cup ({t} \X chosen),
           UNCHANGED <<balance, books, funder, cowner, issued>>
    PROVE  Promise!Pledge(t, Creator[t], chosen)
<1>1. \A c \in chosen : cowner[c] = Creator[t] /\ cstate[c] = "minted"
  BY DEF Escrowable
<1>2. \A c \in chosen : [x \in Collectibles |-> Holder(x)][c] = None
  BY <1>1, FreeIsUnpledged, PledgeMapping
<1>3. PledgeIn(held') = [c \in Collectibles |->
        IF c \in chosen THEN t ELSE PledgeIn(held)[c]]
  <2>1. \A c \in chosen : cstate[c] = "minted"
    BY <1>1
  <2> QED
    BY <2>1, PledgeAdded
<1>4. [c \in Collectibles |-> Holder(c)]' = [c \in Collectibles |->
        IF c \in chosen THEN t ELSE [x \in Collectibles |-> Holder(x)][c]]
  BY <1>3, PledgeMapping, Zenon
<1> QED
  BY <1>1, <1>2, <1>4 DEF Promise!Pledge

\* A funding is a deposit into an empty pot.
LEMMA PromiseDeposit ==
    ASSUME TypeOK, Money, NEW a \in Accounts, NEW t \in Tasks, NEW n \in Amounts,
           NEW k \in Keys, Fund(a, t, n, k)
    PROVE  n \in 1..balance[a] /\ Promise!Deposit(t, a, n)
<1>1. n \in Nat /\ n > 0 /\ n <= balance[a] /\ balance[a] \in Int
  BY CreditAssumption DEF Fund, CompleteFunding, TypeOK, LedgerTypes
<1>2. books[t] = 0
  BY DEF Fund, CompleteFunding, Money, TaskBooks
<1>3. /\ books' = [books EXCEPT ![t] = n] /\ funder' = [funder EXCEPT ![t] = a]
      /\ balance' = Posted(balance, a, -n) /\ UNCHANGED <<cowner, held, issued>>
  BY <1>1, <1>2
  DEF Fund, CompleteFunding, SetAside, collectibleVars, TypeOK, EscrowTypes
<1>4. [c \in Collectibles |-> Holder(c)]' = [c \in Collectibles |-> Holder(c)]
  BY <1>3, PledgeMapping
<1> QED
  BY <1>1, <1>2, <1>3, <1>4, PromisePosts DEF Promise!Deposit

\* A rejection is a compensation.
LEMMA PromiseCompensate ==
    ASSUME TypeOK, Money, NEW v \in Accounts, NEW t \in Tasks,
           NEW s \in Submissions, NEW k \in Keys, NEW pay, NEW tip,
           RejectWrites(v, t, s, k, pay, tip), UNCHANGED <<cowner, held, issued>>
    PROVE  /\ pay \in 0..books[t] /\ tip \in 0..balance[v] + books[t]
           /\ Promise!Compensate(t, sub[s].user, pay, v, tip)
<1> DEFINE w == sub[s].user
           paid == Posted(balance, w, pay)
<1>1. /\ w \in Users
      /\ pay \in Nat /\ pay <= fund[t] /\ tip \in Nat
      /\ TipAllowed(paid, v, w, k, tip)
      /\ balance' = Transferred(paid, v, w, tip)
      /\ funder' = [funder EXCEPT ![t] = IF fund[t] = pay THEN None ELSE @]
      /\ books' = [books EXCEPT ![t] = @ - pay]
  BY Zenon DEF RejectWrites
<1>2. books[t] = fund[t] /\ fund[t] \in Nat /\ balance[v] \in Int /\ balance[v] >= 0
  BY DEF Money, NoOverdraft, TaskBooks, TypeOK, EscrowTypes, LedgerTypes
<1>3. tip > 0 => paid[v] >= tip
  BY <1>1 DEF TipAllowed
<1>4. paid[v] = IF v = w THEN balance[v] + pay ELSE balance[v]
  <2>1. pay \in Int /\ balance \in [Accounts -> Int]
    BY <1>1 DEF TypeOK, LedgerTypes
  <2> HIDE DEF w
  <2> QED
    BY <2>1, PostedType
<1> HIDE DEF w, paid
<1>5. tip \in 0..balance[v] + books[t]
  BY <1>1, <1>2, <1>3, <1>4
<1>6. pay \in 0..books[t]
  BY <1>1, <1>2
<1>7. [c \in Collectibles |-> Holder(c)]' = [c \in Collectibles |-> Holder(c)]
  BY PledgeMapping
<1>8. paid = Promise!Credited(balance, w, pay)
  BY PromisePosts DEF paid
<1>9. Promise!CanTip(paid, v, tip) /\ balance' = Promise!Tipped(paid, v, w, tip)
  BY <1>1, <1>3, PromisePosts DEF Promise!CanTip
<1>10. funder' = [funder EXCEPT ![t] = IF books[t] = pay THEN None ELSE @]
  BY <1>1, <1>2, Zenon
<1>11. pay <= books[t]
  BY <1>1, <1>2
<1>12. Promise!Compensate(t, w, pay, v, tip)
  BY <1>1, <1>7, <1>8, <1>9, <1>10, <1>11, Zenon DEF Promise!Compensate
<1> QED
  BY <1>5, <1>6, <1>12 DEF w

\* What the acceptance of t for w by v does to the collectibles: everything the
\* task holds goes to the worker, and so do the given ones, v's own and free.
GoodsAwarded(t, w, v, given) ==
    /\ \A c \in given : c \notin HeldFor(t) /\ cowner[c] = v /\ cstate[c] = "minted"
    /\ cowner' = [c \in Collectibles |->
         IF c \in given THEN w ELSE IF c \in HeldFor(t) THEN w ELSE cowner[c]]

\* A gift the worker already owns, or the task holds, gives nothing more.
LEMMA AcceptGoods ==
    ASSUME TypeOK, NEW v \in Accounts, NEW t \in Tasks, NEW s \in Submissions,
           NEW k \in Keys, NEW pay \in Amounts \cup {0},
           NEW tip \in Amounts \cup {0}, NEW gift \in Collectibles \cup {None},
           AcceptSubmission(v, t, s, k, pay, tip, gift)
    PROVE  \E given \in SUBSET Collectibles :
             GoodsAwarded(t, sub[s].user, v, given)
<1> DEFINE w == sub[s].user
           owner == [c \in Collectibles |-> IF c \in HeldFor(t) THEN w ELSE cowner[c]]
<1>1. /\ gift # None =>
           \/ owner[gift] = w
           \/ owner[gift] = v /\ cstate[gift] = "minted" /\ gift \in Giftable
      /\ cowner' = [c \in Collectibles |-> IF c = gift THEN w ELSE owner[c]]
  BY Zenon DEF AcceptSubmission, Reviewable
<1> HIDE DEF w
<1>2. \A c \in Collectibles : c # None
  BY PartiesAssumption
<1>3. CASE gift = None \/ owner[gift] = w
  <2>1. cowner' = [c \in Collectibles |->
          IF c \in {} THEN w ELSE IF c \in HeldFor(t) THEN w ELSE cowner[c]]
    BY <1>1, <1>2, <1>3
  <2>2. GoodsAwarded(t, w, v, {})
    BY <2>1 DEF GoodsAwarded
  <2> QED
    BY <2>2 DEF w
<1>4. CASE gift # None /\ owner[gift] # w
  <2>1. /\ gift \in Collectibles /\ owner[gift] = v /\ cstate[gift] = "minted"
    BY <1>1, <1>4
  <2>2. gift \notin HeldFor(t) /\ cowner[gift] = v
    BY <1>4, <2>1
  <2>3. cowner' = [c \in Collectibles |->
          IF c \in {gift} THEN w ELSE IF c \in HeldFor(t) THEN w ELSE cowner[c]]
    BY <1>1
  <2>4. GoodsAwarded(t, w, v, {gift})
    BY <2>1, <2>2, <2>3 DEF GoodsAwarded
  <2>5. {gift} \in SUBSET Collectibles
    BY <2>1
  <2> QED
    BY <2>4, <2>5, Zenon DEF w
<1> QED
  BY <1>3, <1>4

\* An acceptance is an award.
LEMMA PromiseAward ==
    ASSUME TypeOK, Money, Custody, NEW v \in Accounts, NEW t \in Tasks,
           NEW s \in Submissions, NEW k \in Keys, NEW pay \in Amounts \cup {0},
           NEW tip \in Amounts \cup {0}, NEW gift \in Collectibles \cup {None},
           AcceptSubmission(v, t, s, k, pay, tip, gift)
    PROVE  \E w \in Accounts, n \in 0..books[t], x \in 0..balance[v] + books[t],
              given \in SUBSET Collectibles : Promise!Award(t, w, n, v, x, given)
<1> DEFINE w == sub[s].user
           n == Payout(t, pay)
           mid == Posted(balance, w, n)
           paid == Settled(w, t, n)
<1>0. AcceptWrites(v, t, s, k, pay, tip) /\ issued' = issued
  BY AcceptEffect, Zenon DEF AcceptSubmission, Reviewable
<1>1. /\ w \in Users
      /\ n \in Nat /\ n <= fund[t] /\ fund[t] - n \in Nat /\ tip \in Nat
      /\ TipAllowed(paid, v, w, k, tip)
      /\ balance' = Transferred(paid, v, w, tip)
      /\ funder' = [funder EXCEPT ![t] = None]
      /\ books' = [books EXCEPT ![t] = @ - n - (fund[t] - n)]
      /\ held' = {p \in held : p[1] # t}
  BY <1>0, Zenon DEF AcceptWrites
<1>2. books[t] = fund[t] /\ fund[t] \in Nat /\ balance[v] \in Int /\ balance[v] >= 0
  BY DEF Money, NoOverdraft, TaskBooks, TypeOK, EscrowTypes, LedgerTypes
<1>a. PICK given \in SUBSET Collectibles : GoodsAwarded(t, w, v, given)
  BY AcceptGoods, Zenon
<1>3. /\ \A c \in given : c \notin HeldFor(t) /\ cowner[c] = v /\ cstate[c] = "minted"
      /\ cowner' = [c \in Collectibles |->
           IF c \in given THEN w ELSE IF c \in HeldFor(t) THEN w ELSE cowner[c]]
  BY <1>a, Zenon DEF GoodsAwarded
<1> HIDE DEF w, n
<1>4. n \in 0..books[t] /\ n <= books[t] /\ w \in Accounts
  BY <1>1, <1>2 DEF Accounts
<1>5. tip > 0 => paid[v] >= tip
  <2> HIDE DEF paid
  <2> QED
    BY <1>1 DEF TipAllowed
<1>6. tip \in 0..balance[v] + books[t]
  <2>1. n \in Int /\ fund[t] - n \in Int /\ balance \in [Accounts -> Int]
    BY <1>1 DEF TypeOK, LedgerTypes
  <2>2. /\ mid \in [Accounts -> Int]
        /\ mid[v] = IF v = w THEN balance[v] + n ELSE balance[v]
    BY <2>1, PostedType
  <2> HIDE DEF mid
  <2>3. paid[v] = IF v = funder[t] THEN mid[v] + (fund[t] - n) ELSE mid[v]
    BY <2>1, <2>2, PostedType DEF Settled, mid
  <2> HIDE DEF paid
  <2> QED
    BY <1>1, <1>2, <1>5, <2>1, <2>2, <2>3
<1>7. books' = [books EXCEPT ![t] = 0]
  <2>1. books[t] - n - (fund[t] - n) = 0
    BY <1>1, <1>2
  <2>2. books' = [books EXCEPT ![t] = books[t] - n - (fund[t] - n)]
    BY <1>1, Zenon
  <2> QED
    BY <2>1, <2>2, Zenon
<1>8. Promise!Emptied(t)
  BY <1>1, <1>7, PromiseEmptied DEF Custody
<1>9. paid = Promise!Credited(Promise!Credited(balance, w, n), funder[t], books[t] - n)
  BY <1>2, PromisePosts DEF Settled
<1> HIDE DEF paid
<1>10. Promise!CanTip(paid, v, tip) /\ balance' = Promise!Tipped(paid, v, w, tip)
  BY <1>1, <1>5, PromisePosts DEF Promise!CanTip
<1> DEFINE awarded == [c \in Collectibles |->
             IF [x \in Collectibles |-> Holder(x)][c] = t THEN w ELSE cowner[c]]
<1>11. \A c \in Collectibles :
         awarded[c] = IF c \in HeldFor(t) THEN w ELSE cowner[c]
  BY PledgeMapping, PledgedIsHeld DEF Custody
<1>12. \A c \in given : awarded[c] = v /\ [x \in Collectibles |-> Holder(x)][c] = None
  <2>1. \A c \in given : PledgeIn(held)[c] = None
    BY <1>3, FreeIsUnpledged DEF Custody
  <2> HIDE DEF awarded
  <2> QED
    BY <1>3, <1>11, <2>1, PledgeMapping
<1>13. cowner' = [c \in Collectibles |-> IF c \in given THEN w ELSE awarded[c]]
  <2> HIDE DEF awarded
  <2> QED
    BY <1>3, <1>11
<1>14. \A c \in given : /\ awarded[c] \in {v, w}
                        /\ [x \in Collectibles |-> Holder(x)][c] \in {None, t}
  BY <1>12
<1>15. Promise!Award(t, w, n, v, tip, given)
  BY <1>0, <1>4, <1>8, <1>9, <1>10, <1>13, <1>14, Zenon DEF Promise!Award
<1> QED
  BY <1>4, <1>6, <1>15

PromiseStep == Promise!Next \/ UNCHANGED Promise!vars

\* Every step of the marketplace is a step of Escrow or changes nothing there.
LEMMA RefinesStep ==
    ASSUME TypeOK, Money, Custody, FundRows, [Next]_vars
    PROVE  PromiseStep
<1> USE DEF escrowVars, ledgerVars, collectibleVars, promiseVars
<1>0. ASSUME UNCHANGED promiseVars
      PROVE  PromiseStep
  BY <1>0, PromiseUnchanged DEF PromiseStep
<1>1. ASSUME NEW t \in Tasks, Promise!Return(t)
      PROVE  PromiseStep
  BY <1>1 DEF PromiseStep, Promise!Next, Promise!PotStep
<1>2. ASSUME NEW t \in Tasks, NEW chosen \in SUBSET Collectibles,
             Promise!Pledge(t, Creator[t], chosen)
      PROVE  PromiseStep
  <2>1. Creator[t] \in Accounts
    BY TasksAssumption DEF Accounts
  <2> QED
    BY <1>2, <2>1, Zenon DEF PromiseStep, Promise!Next, Promise!PotStep
<1>3. CASE FundingStep
  <2>1. PICK t \in Tasks :
          \/ \E chosen \in SUBSET Collectibles : CreateTask(t, chosen)
          \/ \E n \in Amounts, k \in Keys : FundTask(t, n, k)
          \/ \E n \in Amounts, k \in Keys : FundTaskFromOrganization(t, n, k)
          \/ \E c \in Collectibles : FundCollectibleReward(t, c)
          \/ \E k \in Keys : RefundTask(t, k)
          \/ RefundCollectibleReward(t)
    BY <1>3 DEF FundingStep
  <2>2. ASSUME NEW chosen \in SUBSET Collectibles, CreateTask(t, chosen)
        PROVE  PromiseStep
    BY <1>2, <2>2, PromisePledge DEF CreateTask, Custody
  <2>3. ASSUME NEW c \in Collectibles, FundCollectibleReward(t, c)
        PROVE  PromiseStep
    <3>1. /\ Escrowable(c, Creator[t]) /\ held' = held \cup {<<t, c>>}
          /\ UNCHANGED <<balance, books, funder, cowner, issued>>
      BY <2>3 DEF FundCollectibleReward
    <3>2. held' = held \cup ({t} \X {c})
      BY <3>1
    <3>3. {c} \in SUBSET Collectibles /\ \A x \in {c} : Escrowable(x, Creator[t])
      BY <3>1
    <3>4. Promise!Pledge(t, Creator[t], {c})
      BY <3>1, <3>2, <3>3, PromisePledge DEF Custody
    <3> QED
      BY <1>2, <3>3, <3>4
  <2>4. ASSUME NEW n \in Amounts, NEW k \in Keys,
               FundTask(t, n, k) \/ FundTaskFromOrganization(t, n, k)
        PROVE  PromiseStep
    <3>1. PICK a \in Accounts : Fund(a, t, n, k)
      BY <2>4, TasksAssumption DEF FundTask, FundTaskFromOrganization, Accounts
    <3>2. n \in 1..balance[a] /\ Promise!Deposit(t, a, n)
      BY <3>1, PromiseDeposit
    <3> QED
      BY <3>2, Zenon DEF PromiseStep, Promise!Next, Promise!PotStep
  <2>5. ASSUME NEW k \in Keys, RefundTask(t, k)
        PROVE  PromiseStep
    BY <1>1, <2>5, PromiseReturn DEF RefundTask, ReturnCollectibles, Custody
  <2>6. ASSUME RefundCollectibleReward(t)
        PROVE  PromiseStep
    BY <1>1, <2>6, PromiseReturnGoods
  <2> QED
    BY <2>1, <2>2, <2>3, <2>4, <2>5, <2>6
<1>4. CASE LifecycleStep
  <2>1. ASSUME NEW q \in Requests, CancelTask(q)
        PROVE  PromiseStep
    <3>1. PICK t \in Tasks : t = req[q].task
      BY <2>1 DEF CancelTask, TypeOK, WorkTypes, RequestSet, Idle
    <3> QED
      BY <1>1, <2>1, <3>1, PromiseReturn DEF CancelTask, ReturnCollectibles, Custody
  <2>2. ASSUME NEW t \in Tasks, ExpireTask(t)
        PROVE  PromiseStep
    BY <1>1, <2>2, PromiseReturn DEF ExpireTask, ReturnCollectibles, Custody
  <2> QED
    BY <1>0, <1>4, <2>1, <2>2
    DEF LifecycleStep, BeginChangeState, OpenTask, UnpublishTask, TaskFallsDue
<1>5. CASE WorkStep
  BY <1>0, <1>5
  DEF WorkStep, Reserve, CancelReservation, ReservationLapses,
      ExpireDueReservations, BeginSubmit, CreateSubmission
<1>6. CASE ReviewStep
  <2>1. ASSUME NEW t \in Tasks, NEW s \in Submissions, NEW k \in Keys,
               NEW v \in Accounts, NEW pay \in Amounts \cup {0},
               NEW tip \in Amounts \cup {0}, NEW gift \in Collectibles \cup {None},
               AcceptSubmission(v, t, s, k, pay, tip, gift)
        PROVE  PromiseStep
    <3>1. PICK w \in Accounts, n \in 0..books[t], x \in 0..balance[v] + books[t],
               given \in SUBSET Collectibles : Promise!Award(t, w, n, v, x, given)
      BY <2>1, PromiseAward, Zenon
    <3> QED
      BY <3>1, Zenon DEF PromiseStep, Promise!Next, Promise!PotStep
  <2>2. ASSUME NEW t \in Tasks, NEW s \in Submissions, NEW k \in Keys,
               NEW v \in Accounts, NEW pay \in Amounts \cup {0},
               NEW tip \in Amounts \cup {0}, NEW ban \in BOOLEAN,
               RejectSubmission(v, t, s, k, pay, tip, ban)
        PROVE  PromiseStep
    <3>1. RejectWrites(v, t, s, k, pay, tip) /\ UNCHANGED <<cowner, held, issued>>
      BY <2>2, RejectEffect, Zenon DEF RejectSubmission, Reviewable
    <3>2. sub[s].user \in Accounts
      BY <3>1, Zenon DEF RejectWrites, Accounts
    <3>3. /\ pay \in 0..books[t] /\ tip \in 0..balance[v] + books[t]
          /\ Promise!Compensate(t, sub[s].user, pay, v, tip)
      BY <3>1, PromiseCompensate, Zenon
    <3> QED
      BY <3>2, <3>3, Zenon DEF PromiseStep, Promise!Next, Promise!PotStep
  <2>3. ASSUME NEW t \in Tasks, NEW s \in Submissions, RequestChanges(t, s)
        PROVE  PromiseStep
    BY <1>0, <2>3 DEF RequestChanges, Reviewable
  <2> QED
    BY <1>6, <2>1, <2>2, <2>3 DEF ReviewStep
<1>7. CASE MovementStep
  <2>1. ASSUME NEW a \in Accounts, NEW n \in Amounts, NEW k \in Keys,
               GrantCredits(a, n, k)
        PROVE  PromiseStep
    <3>1. /\ issued \in Nat /\ n \in Nat /\ n > 0 /\ issued' = issued + n
          /\ balance' = Posted(balance, a, n)
          /\ UNCHANGED <<books, funder, cowner, held>>
      BY <2>1, CreditAssumption DEF GrantCredits, TypeOK, LedgerTypes
    <3>2. issued' > issued /\ issued' - issued = n
      BY <3>1
    <3>3. [c \in Collectibles |-> Holder(c)]' = [c \in Collectibles |-> Holder(c)]
      BY <3>1, PledgeMapping
    <3>4. Promise!Issue(a)
      BY <3>1, <3>2, <3>3, PromisePosts DEF Promise!Issue
    <3> QED
      BY <3>4, Zenon DEF PromiseStep, Promise!Next
  <2>2. ASSUME NEW a \in Accounts, NEW b \in Accounts, NEW n \in Amounts,
               NEW k \in Keys, PeerTransfer(a, b, n, k)
        PROVE  PromiseStep
    <3>1. /\ n \in 1..balance[a] /\ n <= balance[a]
          /\ balance' = Transferred(balance, a, b, n)
          /\ UNCHANGED <<books, funder, cowner, held, issued>>
      BY <2>2, CreditAssumption DEF PeerTransfer, SendCovered, TypeOK, LedgerTypes
    <3>2. [c \in Collectibles |-> Holder(c)]' = [c \in Collectibles |-> Holder(c)]
      BY <3>1, PledgeMapping
    <3>3. Promise!Send(a, b, n)
      BY <3>1, <3>2, PromisePosts DEF Promise!Send
    <3> QED
      BY <3>1, <3>3, Zenon DEF PromiseStep, Promise!Next
  <2>3. ASSUME NEW c \in Collectibles, NEW u \in Users, GiftCollectible(c, u)
        PROVE  PromiseStep
    <3>1. /\ cstate[c] = "minted" /\ cowner' = [cowner EXCEPT ![c] = u]
          /\ UNCHANGED <<balance, books, funder, held, issued>>
      BY <2>3 DEF GiftCollectible
    <3>2. [x \in Collectibles |-> Holder(x)]' = [x \in Collectibles |-> Holder(x)]
      BY <3>1, PledgeMapping
    <3>3. [x \in Collectibles |-> Holder(x)][c] = None
      BY <3>1, FreeIsUnpledged, PledgeMapping DEF Custody
    <3>4. Promise!Give(c, u)
      BY <3>1, <3>2, <3>3 DEF Promise!Give
    <3>5. u \in Accounts
      BY DEF Accounts
    <3> QED
      BY <3>4, <3>5, Zenon DEF PromiseStep, Promise!Next
  <2> QED
    BY <1>0, <1>7, <2>1, <2>2, <2>3
    DEF MovementStep, NewDay, WithdrawCollectible, ReleaseCollectible
<1>8. CASE UNCHANGED vars
  BY <1>0, <1>8 DEF vars
<1> QED
  BY <1>3, <1>4, <1>5, <1>6, <1>7, <1>8 DEF Next

\* Nothing is set aside at first.
LEMMA RefinesInit == Init => Promise!Init
<1> SUFFICES ASSUME Init PROVE Promise!Init
  OBVIOUS
<1>1. cowner \in [Collectibles -> Accounts]
  BY DEF Init, Accounts
<1>2. [c \in Collectibles |-> Holder(c)] = [c \in Collectibles |-> None]
  BY DEF Init, Holder
<1> QED
  BY <1>1, <1>2 DEF Init, Promise!Init

\* The marketplace implements Escrow: whatever the handlers, their keys, their
\* stale reads and the sweeps do, credits and collectibles only move the ways
\* Escrow allows, for any users, tasks, amounts and requests in flight.
THEOREM MarketplaceImplementsEscrow == Spec => ImplementsEscrow
<1>1. Spec => []FundRows
  <2>1. Init => FundRows
    BY DEF Init, FundRows
  <2> QED
    BY <2>1, FundRowsStep, TypeCorrect, PTL DEF Spec
<1>2. TypeOK /\ Money /\ Custody /\ FundRows /\ [Next]_vars => [Promise!Next]_(Promise!vars)
  BY RefinesStep DEF PromiseStep
<1> QED
  BY <1>1, <1>2, RefinesInit, TypeCorrect, MoneySafe, CustodySafe, PTL
  DEF Spec, ImplementsEscrow, Promise!Spec
-----------------------------------------------------------------------------
(* Sums.  A sum takes the elements of a set one by one, in an order of its *)
(* own, which is the same for all functions on that set.                   *)

FirstOf(s) == CHOOSE x \in s : TRUE

\* g gives the sum of f over each subset of S.
Sums(f, S, g) ==
    g = [s \in SUBSET S |-> IF s = {} THEN 0 ELSE f[FirstOf(s)] + g[s \ {FirstOf(s)}]]

\* Every number is reached from 0.
LEMMA Counting ==
    ASSUME NEW N \in SUBSET Nat, 0 \in N, \A n \in N : n + 1 \in N
    PROVE  N = Nat
<1> DEFINE T == {m \in Nat : m \notin N}
<1> SUFFICES ASSUME T # {} PROVE FALSE
  OBVIOUS
<1>0. T \subseteq Nat
  OBVIOUS
<1>1. PICK n \in T : \A m \in T : ~(<<m, n>> \in OpToRel(<, Nat))
  <2> HIDE DEF T
  <2> QED
    BY <1>0, NatLessThanWellFounded, WFMin
<1>2. n # 0 /\ n \in Nat /\ n - 1 \in Nat /\ n - 1 < n
  <2>1. n \in Nat /\ n \notin N
    BY <1>1
  <2>2. n # 0
    BY <2>1
  <2> QED
    BY <2>1, <2>2
<1>3. n - 1 \in N
  <2>1. n - 1 \notin T
    BY <1>0, <1>1, <1>2 DEF OpToRel
  <2> QED
    BY <1>2, <2>1
<1>4. n - 1 + 1 \in N
  BY <1>3
<1>5. n - 1 + 1 = n
  BY <1>2
<1> QED
  BY <1>1, <1>4, <1>5

\* Every subset is reached from the empty one.
LEMMA Collecting ==
    ASSUME NEW S, IsFiniteSet(S), NEW B \in SUBSET SUBSET S, {} \in B,
           \A s \in SUBSET S : s # {} /\ s \ {FirstOf(s)} \in B => s \in B
    PROVE  B = SUBSET S
<1> DEFINE N == {n \in Nat : \A s \in SUBSET S : Cardinality(s) = n => s \in B}
<1>1. \A s \in SUBSET S : IsFiniteSet(s) /\ Cardinality(s) \in Nat
  BY FS_Subset, FS_CardinalityType
<1>2. 0 \in N
  BY <1>1, FS_EmptySet
<1>3. ASSUME NEW n \in N PROVE n + 1 \in N
  <2> SUFFICES ASSUME NEW s \in SUBSET S, Cardinality(s) = n + 1 PROVE s \in B
    OBVIOUS
  <2>1. s # {}
    BY <1>1, FS_EmptySet
  <2>2. FirstOf(s) \in s
    BY <2>1 DEF FirstOf
  <2>3. Cardinality(s \ {FirstOf(s)}) = n
    BY <1>1, <2>2, FS_RemoveElement
  <2>4. s \ {FirstOf(s)} \in B
    BY <2>3
  <2> QED
    BY <2>1, <2>4
<1>4. N = Nat
  <2> HIDE DEF N
  <2>1. N \in SUBSET Nat
    BY DEF N
  <2> QED
    BY <1>2, <1>3, <2>1, Counting
<1> QED
  BY <1>1, <1>4

\* There is a sum.
LEMMA SumsExist ==
    ASSUME NEW S, IsFiniteSet(S), NEW f \in [S -> Int]
    PROVE  \E g : Sums(f, S, g)
<1> DEFINE Right(g, s) == g[s] = IF s = {} THEN 0 ELSE f[FirstOf(s)] + g[s \ {FirstOf(s)}]
           Upto(n, g) == \A s \in SUBSET S : Cardinality(s) <= n => Right(g, s)
           N == {n \in Nat : \E g \in [SUBSET S -> Int] : Upto(n, g)}
<1>1. \A s \in SUBSET S : IsFiniteSet(s) /\ Cardinality(s) \in Nat
  BY FS_Subset, FS_CardinalityType
<1>2. 0 \in N
  <2>1. PICK g : g = [s \in SUBSET S |-> 0]
    OBVIOUS
  <2>2. \A s \in SUBSET S : Cardinality(s) <= 0 => s = {}
    BY <1>1, FS_EmptySet
  <2>3. g \in [SUBSET S -> Int] /\ Upto(0, g)
    BY <2>1, <2>2
  <2> QED
    BY <2>3
<1>3. ASSUME NEW n \in N PROVE n + 1 \in N
  <2>1. PICK g \in [SUBSET S -> Int] : Upto(n, g)
    OBVIOUS
  <2>2. PICK h : h = [s \in SUBSET S |->
                        IF s = {} THEN 0 ELSE f[FirstOf(s)] + g[s \ {FirstOf(s)}]]
    OBVIOUS
  <2>3. h \in [SUBSET S -> Int]
    <3>1. \A s \in SUBSET S : s # {} => FirstOf(s) \in S
      BY DEF FirstOf
    <3> QED
      BY <2>2, <3>1
  <2>4. \A s \in SUBSET S : Cardinality(s) <= n => h[s] = g[s]
    BY <2>1, <2>2
  <2>5. ASSUME NEW s \in SUBSET S, Cardinality(s) <= n + 1 PROVE Right(h, s)
    <3>1. CASE s = {}
      BY <2>2, <3>1
    <3>2. CASE s # {}
      <4>1. FirstOf(s) \in s
        BY <3>2 DEF FirstOf
      <4>2. Cardinality(s \ {FirstOf(s)}) = Cardinality(s) - 1
        BY <1>1, <4>1, FS_RemoveElement
      <4>3. h[s \ {FirstOf(s)}] = g[s \ {FirstOf(s)}]
        BY <1>1, <2>4, <2>5, <4>2
      <4> QED
        BY <2>2, <3>2, <4>3
    <3> QED
      BY <3>1, <3>2
  <2>6. Upto(n + 1, h)
    BY <2>5
  <2>7. \E z \in [SUBSET S -> Int] : Upto(n + 1, z)
    <3> HIDE DEF Upto
    <3> QED
      BY <2>3, <2>6
  <2>8. n + 1 \in Nat
    OBVIOUS
  <2> QED
    BY <2>7, <2>8
<1>4. N = Nat
  <2> HIDE DEF N
  <2>1. N \in SUBSET Nat
    BY DEF N
  <2> QED
    BY <1>2, <1>3, <2>1, Counting
<1>5. PICK g \in [SUBSET S -> Int] : Upto(Cardinality(S), g)
  <2>1. Cardinality(S) \in N
    BY <1>4, FS_CardinalityType
  <2> QED
    BY <2>1
<1>6. \A s \in SUBSET S : Cardinality(s) <= Cardinality(S)
  BY FS_Subset
<1>7. Sums(f, S, g)
  BY <1>5, <1>6 DEF Sums
<1> QED
  BY <1>7

\* The sum of a function over its domain.
LEMMA SumIs ==
    ASSUME NEW S, IsFiniteSet(S), NEW f \in [S -> Int]
    PROVE  \E g : Sums(f, S, g) /\ SumFunction(f) = g[S]
<1>1. SumFunctionOnSet(f, S) = (CHOOSE g : Sums(f, S, g))[S]
  BY DEF SumFunctionOnSet, FoldFunctionOnSet, MapThenFoldSet, Sums, FirstOf
<1>2. SumFunction(f) = SumFunctionOnSet(f, S)
  BY DEF SumFunction
<1> QED
  BY <1>1, <1>2, SumsExist

\* What the sum over a subset is.
LEMMA SumUnfolds ==
    ASSUME NEW S, NEW f \in [S -> Int], NEW g, Sums(f, S, g)
    PROVE  /\ g[{}] = 0
           /\ \A s \in SUBSET S : s # {} =>
                /\ g[s] = f[FirstOf(s)] + g[s \ {FirstOf(s)}]
                /\ FirstOf(s) \in s /\ FirstOf(s) \in S /\ f[FirstOf(s)] \in Int
<1> DEFINE h == [s \in SUBSET S |-> IF s = {} THEN 0 ELSE f[FirstOf(s)] + g[s \ {FirstOf(s)}]]
<1>1. g = h
  BY DEF Sums
<1>2. h[{}] = 0 /\ \A s \in SUBSET S : s # {} => h[s] = f[FirstOf(s)] + g[s \ {FirstOf(s)}]
  OBVIOUS
<1>3. \A s \in SUBSET S : s # {} => FirstOf(s) \in s /\ FirstOf(s) \in S
  BY DEF FirstOf
<1> HIDE DEF h
<1>4. \A s \in SUBSET S : s # {} => f[FirstOf(s)] \in Int
  BY <1>3
<1> QED
  BY <1>1, <1>2, <1>3, <1>4

\* Changing one value changes the sum by as much.
LEMMA SumChanges ==
    ASSUME NEW S, IsFiniteSet(S), NEW f \in [S -> Int], NEW e \in [S -> Int], NEW x \in S,
           \A y \in S : y # x => e[y] = f[y]
    PROVE  SumFunction(f) \in Int /\ SumFunction(e) = SumFunction(f) + e[x] - f[x]
<1>1. PICK g : Sums(f, S, g) /\ SumFunction(f) = g[S]
  BY SumIs
<1>2. PICK h : Sums(e, S, h) /\ SumFunction(e) = h[S]
  BY SumIs
<1>a. /\ g[{}] = 0
      /\ \A s \in SUBSET S : s # {} =>
           /\ g[s] = f[FirstOf(s)] + g[s \ {FirstOf(s)}]
           /\ FirstOf(s) \in s /\ FirstOf(s) \in S /\ f[FirstOf(s)] \in Int
  BY <1>1, SumUnfolds
<1>b. /\ h[{}] = 0
      /\ \A s \in SUBSET S : s # {} =>
           /\ h[s] = e[FirstOf(s)] + h[s \ {FirstOf(s)}]
           /\ FirstOf(s) \in s /\ FirstOf(s) \in S /\ e[FirstOf(s)] \in Int
  BY <1>2, SumUnfolds
<1>3. PICK d \in Int : d = e[x] - f[x] /\ e[x] = f[x] + d
  OBVIOUS
<1> DEFINE B == {s \in SUBSET S : /\ g[s] \in Int
                                  /\ h[s] = IF x \in s THEN g[s] + d ELSE g[s]}
<1>4. {} \in B
  <2>1. {} \in SUBSET S
    OBVIOUS
  <2> QED
    BY <2>1, <1>a, <1>b
<1>5. ASSUME NEW s \in SUBSET S, s # {}, s \ {FirstOf(s)} \in B PROVE s \in B
  <2>1. /\ g[s] = f[FirstOf(s)] + g[s \ {FirstOf(s)}]
        /\ FirstOf(s) \in s /\ FirstOf(s) \in S /\ f[FirstOf(s)] \in Int
    BY <1>a, <1>5
  <2>2. h[s] = e[FirstOf(s)] + h[s \ {FirstOf(s)}]
    BY <1>b, <1>5
  <2>3. CASE FirstOf(s) = x
    <3>1. h[s \ {FirstOf(s)}] = g[s \ {FirstOf(s)}] /\ g[s \ {FirstOf(s)}] \in Int
      BY <1>5, <2>3
    <3>2. h[s] = g[s] + d /\ g[s] \in Int /\ x \in s
      BY <1>3, <2>1, <2>2, <2>3, <3>1
    <3> QED
      BY <3>2
  <2>4. CASE FirstOf(s) # x
    <3>1. x \in s \ {FirstOf(s)} <=> x \in s
      BY <2>4
    <3>2. e[FirstOf(s)] = f[FirstOf(s)]
      BY <2>1, <2>4
    <3>3. /\ g[s \ {FirstOf(s)}] \in Int
          /\ h[s \ {FirstOf(s)}] =
               IF x \in s THEN g[s \ {FirstOf(s)}] + d ELSE g[s \ {FirstOf(s)}]
      BY <1>5, <3>1
    <3> QED
      BY <1>3, <2>1, <2>2, <3>2, <3>3
  <2> QED
    BY <2>3, <2>4
<1>6. B = SUBSET S
  <2> HIDE DEF B
  <2>1. B \in SUBSET SUBSET S
    BY DEF B
  <2> QED
    BY <1>4, <1>5, <2>1, Collecting
<1>7. S \in B
  BY <1>6
<1> QED
  BY <1>1, <1>2, <1>3, <1>7

\* The sum of equal values.
LEMMA SumOfEqual ==
    ASSUME NEW S, IsFiniteSet(S), NEW c \in Int, NEW f \in [S -> Int],
           \A x \in S : f[x] = c
    PROVE  SumFunction(f) = Cardinality(S) * c
<1>2. PICK g : Sums(f, S, g) /\ SumFunction(f) = g[S]
  BY SumIs
<1>a. /\ g[{}] = 0
      /\ \A s \in SUBSET S : s # {} =>
           /\ g[s] = f[FirstOf(s)] + g[s \ {FirstOf(s)}]
           /\ FirstOf(s) \in s /\ FirstOf(s) \in S
  BY <1>2, SumUnfolds
<1> DEFINE B == {s \in SUBSET S : g[s] = Cardinality(s) * c}
<1>3. {} \in B
  <2>1. {} \in SUBSET S /\ 0 * c = 0
    OBVIOUS
  <2> QED
    BY <2>1, <1>a, FS_EmptySet
<1>4. ASSUME NEW s \in SUBSET S, s # {}, s \ {FirstOf(s)} \in B PROVE s \in B
  <2>1. g[s] = f[FirstOf(s)] + g[s \ {FirstOf(s)}] /\ FirstOf(s) \in s /\ FirstOf(s) \in S
    BY <1>a, <1>4
  <2>2. f[FirstOf(s)] = c
    BY <2>1
  <2>3. /\ Cardinality(s \ {FirstOf(s)}) = Cardinality(s) - 1 /\ Cardinality(s) \in Nat
    BY <2>1, FS_Subset, FS_CardinalityType, FS_RemoveElement
  <2>4. PICK n \in Nat : n = Cardinality(s)
    BY <2>3
  <2>5. g[s] = c + (n - 1) * c
    BY <1>4, <2>1, <2>2, <2>3, <2>4
  <2>6. c + (n - 1) * c = n * c
    OBVIOUS
  <2> QED
    BY <2>4, <2>5, <2>6
<1>5. B = SUBSET S
  <2> HIDE DEF B
  <2>1. B \in SUBSET SUBSET S
    BY DEF B
  <2> QED
    BY <1>3, <1>4, <2>1, Collecting
<1>6. S \in B
  BY <1>5
<1> QED
  BY <1>2, <1>6

\* A sum is a number.
LEMMA SumType ==
    ASSUME NEW S, IsFiniteSet(S), NEW f \in [S -> Int]
    PROVE  SumFunction(f) \in Int
<1>1. PICK g : Sums(f, S, g) /\ SumFunction(f) = g[S]
  BY SumIs
<1>2. /\ g[{}] = 0
      /\ \A s \in SUBSET S : s # {} =>
           /\ g[s] = f[FirstOf(s)] + g[s \ {FirstOf(s)}]
           /\ FirstOf(s) \in s /\ FirstOf(s) \in S /\ f[FirstOf(s)] \in Int
  BY <1>1, SumUnfolds
<1> DEFINE B == {s \in SUBSET S : g[s] \in Int}
<1>3. {} \in B
  BY <1>2
<1>4. ASSUME NEW s \in SUBSET S, s # {}, s \ {FirstOf(s)} \in B PROVE s \in B
  <2>1. g[s] = f[FirstOf(s)] + g[s \ {FirstOf(s)}] /\ f[FirstOf(s)] \in Int
    BY <1>2, <1>4
  <2>2. g[s \ {FirstOf(s)}] \in Int
    BY <1>4
  <2>3. g[s] \in Int
    BY <2>1, <2>2
  <2> QED
    BY <2>3
<1>5. B = SUBSET S
  <2> HIDE DEF B
  <2>1. B \in SUBSET SUBSET S
    BY DEF B
  <2> QED
    BY <1>3, <1>4, <2>1, Collecting
<1>6. S \in B
  BY <1>5
<1> QED
  BY <1>1, <1>6

-----------------------------------------------------------------------------
(* Credits are conserved.                                                  *)

\* An entry changes what the balances add up to by its amount.
LEMMA SumPosted ==
    ASSUME NEW b \in [Accounts -> Int], NEW a, NEW n \in Int
    PROVE  /\ Posted(b, a, n) \in [Accounts -> Int] /\ SumFunction(b) \in Int
           /\ SumFunction(Posted(b, a, n)) =
                IF a \in Accounts THEN SumFunction(b) + n ELSE SumFunction(b)
<1>1. Posted(b, a, n) \in [Accounts -> Int]
  BY PostedType
<1>2. SumFunction(b) \in Int
  BY RowsAssumption, SumType
<1>3. CASE a \in Accounts
  <2>1. PICK e \in [Accounts -> Int] : /\ e = Posted(b, a, n) /\ e[a] = b[a] + n
                                       /\ \A y \in Accounts : y # a => e[y] = b[y]
    BY <1>1, <1>3 DEF Posted
  <2>2. SumFunction(e) = SumFunction(b) + e[a] - b[a]
    <3>1. IsFiniteSet(Accounts)
      BY RowsAssumption
    <3>2. \A y \in Accounts : y # a => e[y] = b[y]
      BY <2>1
    <3> QED
      BY <1>3, <3>1, <3>2, SumChanges
  <2>3. SumFunction(e) = SumFunction(b) + n
    <3>1. b[a] \in Int
      BY <1>3
    <3> QED
      BY <1>2, <2>1, <2>2, <3>1
  <2> QED
    BY <1>1, <1>2, <1>3, <2>1, <2>3
<1>4. CASE a \notin Accounts
  BY <1>1, <1>2, <1>4 DEF Posted
<1> QED
  BY <1>3, <1>4

\* A double entry changes nothing.
LEMMA SumTransferred ==
    ASSUME NEW b \in [Accounts -> Int], NEW x \in Accounts, NEW y \in Accounts, NEW n \in Int
    PROVE  SumFunction(Transferred(b, x, y, n)) = SumFunction(b)
<1>1. -n \in Int
  OBVIOUS
<1>2. PICK d \in [Accounts -> Int] : /\ d = Posted(b, x, -n) /\ SumFunction(b) \in Int
                                     /\ SumFunction(d) = SumFunction(b) + (-n)
  BY <1>1, SumPosted
<1>3. SumFunction(Posted(d, y, n)) = SumFunction(d) + n
  BY SumPosted
<1>4. Transferred(b, x, y, n) = Posted(d, y, n)
  BY <1>2 DEF Transferred
<1> QED
  BY <1>2, <1>3, <1>4

\* A pot changes what the pots add up to by as much.
LEMMA SumPot ==
    ASSUME NEW d \in [Tasks -> Int], NEW e \in [Tasks -> Int], NEW t \in Tasks,
           \A y \in Tasks : y # t => e[y] = d[y]
    PROVE  SumFunction(e) = SumFunction(d) + e[t] - d[t]
<1>1. IsFiniteSet(Tasks)
  BY RowsAssumption
<1> QED
  BY <1>1, SumChanges

Total == SumFunction(balance) + SumFunction(books)

\* What the balances and the pots of Escrow are.
LEMMA PotFacts ==
    ASSUME TypeOK, Money, NEW t \in Tasks
    PROVE  /\ balance \in [Accounts -> Int] /\ books \in [Tasks -> Int]
           /\ books[t] \in Nat /\ (funder[t] \notin Accounts => books[t] = 0)
           /\ SumFunction(balance) \in Int /\ SumFunction(books) \in Int
<1>1. balance \in [Accounts -> Int] /\ books \in [Tasks -> Int]
  BY DEF TypeOK, LedgerTypes, EscrowTypes
<1>2. books[t] = fund[t] /\ fund[t] \in Nat /\ (fund[t] > 0 => funder[t] \in Accounts)
  BY DEF Money, TaskBooks, TypeOK, EscrowTypes
<1>3. IsFiniteSet(Accounts) /\ IsFiniteSet(Tasks)
  BY RowsAssumption
<1>4. SumFunction(balance) \in Int
  BY <1>1, <1>3, SumType
<1>5. SumFunction(books) \in Int
  BY <1>1, <1>3, SumType
<1> QED
  BY <1>1, <1>2, <1>4, <1>5

\* A deposit moves credits from a purse to a pot.
LEMMA DepositTotal ==
    ASSUME TypeOK, Money, NEW t \in Tasks, NEW a \in Accounts, NEW n \in Nat,
           Promise!Deposit(t, a, n)
    PROVE  Total' = Total
<1>0. /\ balance \in [Accounts -> Int] /\ books \in [Tasks -> Int]
      /\ SumFunction(balance) \in Int /\ SumFunction(books) \in Int
  BY PotFacts
<1>1. /\ books[t] = 0 /\ books' = [books EXCEPT ![t] = n]
      /\ balance' = Posted(balance, a, -n)
  BY PromisePosts DEF Promise!Deposit
<1>2. SumFunction(balance') = SumFunction(balance) + (-n)
  <2>1. -n \in Int
    OBVIOUS
  <2> QED
    BY <1>0, <1>1, <2>1, SumPosted
<1>3. SumFunction(books') = SumFunction(books) + n - books[t]
  <2>1. /\ books' \in [Tasks -> Int] /\ books'[t] = n
        /\ \A y \in Tasks : y # t => books'[y] = books[y]
    BY <1>0, <1>1
  <2> QED
    BY <1>0, <2>1, SumPot
<1> QED
  BY <1>0, <1>1, <1>2, <1>3 DEF Total

\* An award empties a pot into the purses of the worker and the payer.
LEMMA AwardTotal ==
    ASSUME TypeOK, Money, NEW t \in Tasks, NEW w \in Accounts, NEW v \in Accounts,
           NEW n \in Nat, n <= books[t], NEW tip \in Nat, NEW gift,
           Promise!Award(t, w, n, v, tip, gift)
    PROVE  Total' = Total
<1>0. /\ balance \in [Accounts -> Int] /\ books \in [Tasks -> Int] /\ books[t] \in Nat
      /\ funder[t] \notin Accounts => books[t] = 0
      /\ SumFunction(balance) \in Int /\ SumFunction(books) \in Int
  BY PotFacts
<1>1. books[t] - n \in Int /\ (funder[t] \notin Accounts => books[t] - n = 0 /\ n = 0)
  BY <1>0
<1>2. PICK paid \in [Accounts -> Int] : /\ paid = Posted(balance, w, n)
                                        /\ SumFunction(paid) = SumFunction(balance) + n
  BY <1>0, SumPosted
<1>3. PICK settled \in [Accounts -> Int] :
        /\ settled = Posted(paid, funder[t], books[t] - n)
        /\ SumFunction(settled) = SumFunction(balance) + books[t]
  <2>1. /\ Posted(paid, funder[t], books[t] - n) \in [Accounts -> Int]
        /\ SumFunction(Posted(paid, funder[t], books[t] - n)) =
             IF funder[t] \in Accounts THEN SumFunction(paid) + (books[t] - n)
                                       ELSE SumFunction(paid)
    BY <1>1, SumPosted
  <2>2. SumFunction(Posted(paid, funder[t], books[t] - n)) = SumFunction(balance) + books[t]
    BY <1>0, <1>1, <1>2, <2>1
  <2> QED
    BY <2>1, <2>2
<1>4. balance' = Transferred(settled, v, w, tip) /\ books' = [books EXCEPT ![t] = 0]
  <2>1. balance' = Promise!Tipped(Promise!Credited(Promise!Credited(balance, w, n),
                                                   funder[t], books[t] - n), v, w, tip)
    BY DEF Promise!Award
  <2>2. books' = [books EXCEPT ![t] = 0]
    BY DEF Promise!Award, Promise!Emptied
  <2>3. balance' = Transferred(Posted(Posted(balance, w, n), funder[t], books[t] - n),
                               v, w, tip)
    BY <2>1, PromisePosts
  <2> QED
    BY <1>2, <1>3, <2>2, <2>3
<1>5. SumFunction(balance') = SumFunction(balance) + books[t]
  <2>1. SumFunction(Transferred(settled, v, w, tip)) = SumFunction(settled)
    BY SumTransferred
  <2> QED
    BY <1>3, <1>4, <2>1
<1>6. SumFunction(books') = SumFunction(books) + 0 - books[t]
  <2>1. /\ books' \in [Tasks -> Int] /\ books'[t] = 0
        /\ \A y \in Tasks : y # t => books'[y] = books[y]
    BY <1>0, <1>4
  <2> QED
    BY <1>0, <2>1, SumPot
<1> QED
  BY <1>0, <1>5, <1>6 DEF Total

\* A compensation moves a part of a pot to the worker.
LEMMA CompensateTotal ==
    ASSUME TypeOK, Money, NEW t \in Tasks, NEW w \in Accounts, NEW v \in Accounts,
           NEW n \in Nat, NEW tip \in Nat, Promise!Compensate(t, w, n, v, tip)
    PROVE  Total' = Total
<1>0. /\ balance \in [Accounts -> Int] /\ books \in [Tasks -> Int] /\ books[t] \in Nat
      /\ SumFunction(balance) \in Int /\ SumFunction(books) \in Int
  BY PotFacts
<1>1. PICK paid \in [Accounts -> Int] : /\ paid = Posted(balance, w, n)
                                        /\ SumFunction(paid) = SumFunction(balance) + n
  BY <1>0, SumPosted
<1>2. balance' = Transferred(paid, v, w, tip) /\ books' = [books EXCEPT ![t] = books[t] - n]
  BY <1>0, <1>1, PromisePosts DEF Promise!Compensate
<1>3. SumFunction(balance') = SumFunction(balance) + n
  <2>1. SumFunction(Transferred(paid, v, w, tip)) = SumFunction(paid)
    BY SumTransferred
  <2> QED
    BY <1>1, <1>2, <2>1
<1>4. SumFunction(books') = SumFunction(books) + (books[t] - n) - books[t]
  <2>1. books[t] - n \in Int
    BY <1>0
  <2> QED
    <3>1. /\ books' \in [Tasks -> Int] /\ books'[t] = books[t] - n
          /\ \A y \in Tasks : y # t => books'[y] = books[y]
      BY <1>0, <1>2, <2>1
    <3> QED
      BY <1>0, <3>1, SumPot
<1> QED
  BY <1>0, <1>3, <1>4 DEF Total

\* A return empties a pot into its payer's purse.
LEMMA ReturnTotal ==
    ASSUME TypeOK, Money, NEW t \in Tasks, Promise!Return(t)
    PROVE  Total' = Total
<1>0. /\ balance \in [Accounts -> Int] /\ books \in [Tasks -> Int] /\ books[t] \in Nat
      /\ funder[t] \notin Accounts => books[t] = 0
      /\ SumFunction(balance) \in Int /\ SumFunction(books) \in Int
  BY PotFacts
<1>1. balance' = Posted(balance, funder[t], books[t]) /\ books' = [books EXCEPT ![t] = 0]
  BY PromisePosts DEF Promise!Return, Promise!Emptied
<1>2. SumFunction(balance') =
        IF funder[t] \in Accounts THEN SumFunction(balance) + books[t] ELSE SumFunction(balance)
  <2>1. books[t] \in Int
    BY <1>0
  <2> QED
    BY <1>0, <1>1, <2>1, SumPosted
<1>3. SumFunction(books') = SumFunction(books) + 0 - books[t]
  <2>1. /\ books' \in [Tasks -> Int] /\ books'[t] = 0
        /\ \A y \in Tasks : y # t => books'[y] = books[y]
    BY <1>0, <1>1
  <2> QED
    BY <1>0, <2>1, SumPot
<1> QED
  BY <1>0, <1>2, <1>3 DEF Total

\* Only an issue changes what purses and pots add up to, by what it issues.
LEMMA TotalStep ==
    ASSUME TypeOK, TypeOK', Money, PromiseStep
    PROVE  Total' - issued' = Total - issued
<1>0. /\ balance \in [Accounts -> Int] /\ books \in [Tasks -> Int]
      /\ SumFunction(balance) \in Int /\ SumFunction(books) \in Int
      /\ issued \in Int /\ issued' \in Int /\ Total \in Int
  <2>1. balance \in [Accounts -> Int] /\ books \in [Tasks -> Int]
    BY DEF TypeOK, LedgerTypes, EscrowTypes
  <2>2. SumFunction(balance) \in Int
    BY <2>1, RowsAssumption, SumType
  <2>3. SumFunction(books) \in Int
    BY <2>1, RowsAssumption, SumType
  <2> QED
    BY <2>1, <2>2, <2>3 DEF TypeOK, LedgerTypes, Total
<1>1. ASSUME Total' = Total, UNCHANGED issued PROVE Total' - issued' = Total - issued
  BY <1>0, <1>1
<1>2. ASSUME UNCHANGED <<balance, books, issued>> PROVE Total' - issued' = Total - issued
  BY <1>1, <1>2 DEF Total
<1>3. ASSUME NEW t \in Tasks, Promise!PotStep(t) PROVE Total' - issued' = Total - issued
  <2>1. /\ books[t] \in Nat /\ \A a \in Accounts : balance[a] \in Nat
    BY <1>0, PotFacts DEF Money, NoOverdraft
  <2>2. ASSUME NEW a \in Accounts, NEW n \in 1..balance[a], Promise!Deposit(t, a, n)
        PROVE  Total' - issued' = Total - issued
    <3>1. n \in Nat /\ UNCHANGED issued
      BY <2>1, <2>2 DEF Promise!Deposit
    <3> QED
      BY <1>1, <2>2, <3>1, DepositTotal
  <2>3. ASSUME NEW a \in Accounts, NEW chosen \in SUBSET Collectibles,
               Promise!Pledge(t, a, chosen)
        PROVE  Total' - issued' = Total - issued
    BY <1>2, <2>3 DEF Promise!Pledge
  <2>4. ASSUME NEW w \in Accounts, NEW v \in Accounts, NEW n \in 0..books[t],
               NEW tip \in 0..balance[v] + books[t], NEW gift \in SUBSET Collectibles,
               Promise!Award(t, w, n, v, tip, gift)
        PROVE  Total' - issued' = Total - issued
    <3>1. n \in Nat /\ tip \in Nat /\ n <= books[t]
      BY <2>1
    <3>2. UNCHANGED issued
      BY <2>4 DEF Promise!Award
    <3> QED
      BY <1>1, <2>4, <3>1, <3>2, AwardTotal
  <2>5. ASSUME NEW w \in Accounts, NEW v \in Accounts, NEW n \in 0..books[t],
               NEW tip \in 0..balance[v] + books[t], Promise!Compensate(t, w, n, v, tip)
        PROVE  Total' - issued' = Total - issued
    <3>1. n \in Nat /\ tip \in Nat
      BY <2>1
    <3>2. UNCHANGED issued
      BY <2>5 DEF Promise!Compensate
    <3> QED
      BY <1>1, <2>5, <3>1, <3>2, CompensateTotal
  <2>6. CASE Promise!Return(t)
    <3>1. UNCHANGED issued
      BY <2>6 DEF Promise!Return
    <3> QED
      BY <1>1, <2>6, <3>1, ReturnTotal
  <2> QED
    BY <1>3, <2>2, <2>3, <2>4, <2>5, <2>6, Zenon DEF Promise!PotStep
<1>4. ASSUME NEW a \in Accounts, NEW b \in Accounts, NEW n \in 1..balance[a],
             Promise!Send(a, b, n)
      PROVE  Total' - issued' = Total - issued
  <2>1. n \in Int /\ UNCHANGED <<books, issued>> /\ balance' = Transferred(balance, a, b, n)
    BY <1>0, <1>4, PromisePosts DEF Promise!Send
  <2>2. SumFunction(balance') = SumFunction(balance)
    BY <1>0, <2>1, SumTransferred
  <2> QED
    BY <1>1, <2>1, <2>2 DEF Total
<1>5. ASSUME NEW a \in Accounts, Promise!Issue(a)
      PROVE  Total' - issued' = Total - issued
  <2>1. UNCHANGED books /\ balance' = Posted(balance, a, issued' - issued)
    BY <1>5, PromisePosts DEF Promise!Issue
  <2>2. SumFunction(balance') = SumFunction(balance) + (issued' - issued)
    <3>1. issued' - issued \in Int
      BY <1>0
    <3> QED
      BY <1>0, <2>1, <3>1, SumPosted
  <2> QED
    BY <1>0, <2>1, <2>2 DEF Total
<1>6. ASSUME NEW c \in Collectibles, NEW a \in Accounts, Promise!Give(c, a)
      PROVE  Total' - issued' = Total - issued
  BY <1>2, <1>6 DEF Promise!Give
<1>7. CASE UNCHANGED Promise!vars
  BY <1>2, <1>7 DEF Promise!vars
<1> QED
  BY <1>3, <1>4, <1>5, <1>6, <1>7, Zenon DEF PromiseStep, Promise!Next

\* Two ways to say that everything adds up to k.
LEMMA AddsUp ==
    ASSUME NEW b \in [Accounts -> Int], NEW d \in [Tasks -> Int], NEW i \in Int, NEW k \in Int
    PROVE  SumFunction(b) + SumFunction(d) = k + i <=> (SumFunction(b) + SumFunction(d)) - i = k
<1>1. PICK m \in Int : m = SumFunction(b)
  BY RowsAssumption, SumType
<1>2. PICK n \in Int : n = SumFunction(d)
  BY RowsAssumption, SumType
<1>3. m + n = k + i <=> (m + n) - i = k
  OBVIOUS
<1> QED
  BY <1>1, <1>2, <1>3, Zenon

\* No credit appears or disappears: through every funding, award, partial
\* payout, tip, refund, sweep and transfer, balances and escrow together add
\* up to the signup grants and what administrators issued.
THEOREM CreditsConserved == Spec => []Conservation
<1>1. Spec => [](TypeOK /\ Money /\ Custody /\ FundRows)
  <2>1. Init => FundRows
    BY DEF Init, FundRows
  <2> QED
    BY <2>1, FundRowsStep, TypeCorrect, MoneySafe, CustodySafe, PTL DEF Spec
<1>2. Init => Conservation
  <2> SUFFICES ASSUME Init PROVE Conservation
    OBVIOUS
  <2>1. /\ balance \in [Accounts -> Int] /\ \A a \in Accounts : balance[a] = InitialCredits
        /\ fund \in [Tasks -> Int] /\ \A t \in Tasks : fund[t] = 0 /\ issued = 0
    BY CreditAssumption DEF Init
  <2>2. SumFunction(balance) = Cardinality(Accounts) * InitialCredits
    BY <2>1, CreditAssumption, RowsAssumption, SumOfEqual
  <2>3. SumFunction(fund) = Cardinality(Tasks) * 0
    BY <2>1, RowsAssumption, SumOfEqual
  <2>4. PICK k \in Int : k = Cardinality(Accounts) * InitialCredits
    BY RowsAssumption, FS_CardinalityType, CreditAssumption
  <2>5. Cardinality(Tasks) * 0 = 0
    BY RowsAssumption, FS_CardinalityType
  <2>6. issued = 0
    BY DEF Init
  <2> QED
    BY <2>2, <2>3, <2>4, <2>5, <2>6 DEF Conservation
<1>3. /\ TypeOK /\ Money /\ Custody /\ FundRows
      /\ (TypeOK /\ Money /\ Custody /\ FundRows)' /\ Conservation /\ [Next]_vars
      => Conservation'
  <2> SUFFICES ASSUME TypeOK, Money, Custody, FundRows, TypeOK', Money', Conservation,
                      [Next]_vars
               PROVE  Conservation'
    OBVIOUS
  <2>1. PromiseStep
    BY RefinesStep
  <2>2. Total' - issued' = Total - issued
    BY <2>1, TotalStep
  <2>3. PICK k \in Int : k = Cardinality(Accounts) * InitialCredits
    BY RowsAssumption, FS_CardinalityType, CreditAssumption
  <2>4. Conservation <=> Total - issued = k
    <3>1. fund = books
      BY DEF TypeOK, EscrowTypes, Money, TaskBooks
    <3>2. balance \in [Accounts -> Int] /\ books \in [Tasks -> Int] /\ issued \in Int
      BY DEF TypeOK, LedgerTypes, EscrowTypes
    <3>3. Conservation <=> SumFunction(balance) + SumFunction(books) = k + issued
      BY <2>3, <3>1 DEF Conservation
    <3>4. Total - issued = k <=> (SumFunction(balance) + SumFunction(books)) - issued = k
      BY DEF Total
    <3> QED
      BY <3>2, <3>3, <3>4, AddsUp
  <2>5. Conservation' <=> Total' - issued' = k
    <3>1. fund' = books'
      BY DEF TypeOK, EscrowTypes, Money, TaskBooks
    <3>2. balance' \in [Accounts -> Int] /\ books' \in [Tasks -> Int] /\ issued' \in Int
      BY DEF TypeOK, LedgerTypes, EscrowTypes
    <3>3. Conservation' <=> SumFunction(balance') + SumFunction(books') = k + issued'
      BY <2>3, <3>1 DEF Conservation
    <3>4. Total' - issued' = k <=> (SumFunction(balance') + SumFunction(books')) - issued' = k
      BY DEF Total
    <3> QED
      BY <3>2, <3>3, <3>4, AddsUp
  <2> QED
    BY <2>2, <2>4, <2>5
<1> QED
  BY <1>1, <1>2, <1>3, PTL DEF Spec
=============================================================================
