-------------------------- MODULE AgentWorkProofs --------------------------
(* Proofs that agents stay within the budgets they were given.             *)
EXTENDS AgentWork, FiniteSetTheorems, TLAPS

-----------------------------------------------------------------------------
(* The inductive invariant.                                                *)

\* The active reservations of c that were budgeted: no request for changes
\* put them back.
Budgeted(c) == {r \in ActiveVia(c) : ~res[r].revived}

\* A credential that does not exist has no policy, and every policy on a row
\* was granted.
PoliciesGranted ==
    \A c \in Creds : /\ cred[c].state = "absent" => policy[c] = Disabled
                     /\ policy[c] \in granted[c] \cup {Disabled}

InPlay(r) == r.step \in {"verified", "charged"}

\* A request works with a policy its credential was given, with the present one
\* unless it was overtaken.
Authorized(r) ==
    InPlay(r) =>
      /\ r.cred \in Creds
      /\ r.policy \in granted[r.cred] \cup {Disabled}
      /\ ~r.outdated => r.policy = policy[r.cred]

\* What an open transaction is about to book still fits its policy.
Fits(r) ==
    r.step = "charged" =>
      /\ r.op \in {"reserve", "submit", "spend"}
      /\ r.op \in {"reserve", "submit"} =>
           /\ r.policy # Disabled /\ r.amount = 1
           /\ used[r.cred][r.day] + 1 <= r.policy.tasks
      /\ r.op = "reserve" /\ r.policy.cap # None =>
           Cardinality(Budgeted(r.cred)) + 1 <= r.policy.cap
      /\ r.op = "spend" =>
           /\ r.policy.spend # None
           /\ spent[r.cred][r.day] + r.amount <= r.policy.spend

\* The lock on the credential's row: one open transaction at a time.
Exclusive(r1, r2) == ~(r1.step = "charged" /\ r2.step = "charged" /\ r1.cred = r2.cred)
Serial == \A q1, q2 \in Requests : q1 # q2 => Exclusive(request[q1], request[q2])

RequestsCovered ==
    /\ \A q \in Requests : Authorized(request[q]) /\ Fits(request[q])
    /\ Serial

\* Rows are made one at a time.
RowsFinite == IsFiniteSet({r \in Reservations : res[r] # NoReservation})

\* Everything booked was within some policy the credential was given.
WithinAt(c) ==
    /\ \A d \in Calendar :
         /\ used[c][d] = 0 \/ \E p \in granted[c] : used[c][d] <= p.tasks
         /\ spent[c][d] = 0 \/ \E p \in granted[c] : p.spend # None /\ spent[c][d] <= p.spend
    /\ (\A p \in granted[c] : p.cap # None) =>
         \/ Cardinality(Budgeted(c)) = 0
         \/ \E p \in granted[c] : Cardinality(Budgeted(c)) <= p.cap
BookedWithin == \A c \in Creds : WithinAt(c)

\* A set of numbers with a greatest one.
Topped(S) == \E m \in S : \A x \in S : x <= m

TaskLimits(c) == {0} \cup {p.tasks : p \in granted[c]}
SpendLimits(c) == {0} \cup {p.spend : p \in {x \in granted[c] : x.spend # None}}
CapLimits(c) == {0} \cup {p.cap : p \in {x \in granted[c] : x.cap # None}}

\* There is a most generous policy, as policies are granted one at a time.
LimitsTopped ==
    \A c \in Creds : Topped(TaskLimits(c)) /\ Topped(SpendLimits(c)) /\ Topped(CapLimits(c))

IInv == /\ TypeOK /\ PoliciesGranted /\ RequestsCovered
        /\ RowsFinite /\ BookedWithin /\ LimitsTopped

-----------------------------------------------------------------------------
(* Facts about the definitions.                                            *)

\* A number that is at most the greatest one is at most Max.
LEMMA MaxBounds ==
    ASSUME NEW S \in SUBSET Nat, Topped(S), NEW x \in S
    PROVE  x <= Max(S)
BY DEF Max, Topped

\* A set keeps a greatest number when one is added.
LEMMA ToppedAdd ==
    ASSUME NEW S \in SUBSET Nat, Topped(S), NEW n \in Nat
    PROVE  Topped(S \cup {n})
<1>1. PICK m \in S : \A x \in S : x <= m
  BY DEF Topped
<1>2. CASE n <= m
  BY <1>1, <1>2 DEF Topped
<1>3. CASE m <= n
  <2>1. \A x \in S \cup {n} : x <= n
    BY <1>1, <1>3
  <2> QED
    BY <2>1 DEF Topped
<1> QED
  BY <1>2, <1>3

\* What a policy is made of.
LEMMA PolicyParts ==
    ASSUME NEW p \in Policies
    PROVE  /\ p.tasks \in Nat \ {0} /\ p # Disabled
           /\ p.cap # None => p.cap \in Nat
           /\ p.spend # None => p.spend \in Nat
<1>1. p \in [tasks : Nat \ {0}, cap : (Nat \ {0}) \cup {None},
             spend : (Nat \ {0}) \cup {None}, suits : SUBSET Tasks]
  BY PolicyAssumption
<1> QED
  BY <1>1 DEF Disabled

\* Every limit is a number.
LEMMA LimitsAreNumbers ==
    ASSUME TypeOK, NEW c \in Creds
    PROVE  /\ TaskLimits(c) \in SUBSET Nat /\ SpendLimits(c) \in SUBSET Nat
           /\ CapLimits(c) \in SUBSET Nat
<1>1. granted[c] \subseteq Policies
  BY DEF TypeOK
<1> QED
  BY <1>1, PolicyParts DEF TaskLimits, SpendLimits, CapLimits

\* A request that is over, or not begun, needs no cover.
LEMMA OverCovered ==
    /\ NoRequest \in RequestSet /\ NoRequest.step = "unused"
    /\ [NoRequest EXCEPT !.step = "over"] \in RequestSet
    /\ [NoRequest EXCEPT !.step = "over"].step = "over"
<1>1. 0 \in Calendar
  BY DayAssumption DEF Calendar
<1>2. NoRequest \in RequestSet /\ NoRequest.step = "unused"
  BY <1>1 DEF NoRequest, RequestSet
<1> QED
  BY <1>2 DEF RequestSet

\* Active reservations are rows, and finitely many.
LEMMA ActiveFinite ==
    ASSUME RowsFinite, NEW c
    PROVE  /\ IsFiniteSet(ActiveVia(c)) /\ IsFiniteSet(Budgeted(c))
           /\ Cardinality(Budgeted(c)) \in Nat /\ Cardinality(ActiveVia(c)) \in Nat
           /\ Cardinality(Budgeted(c)) <= Cardinality(ActiveVia(c))
<1>1. ActiveVia(c) \in SUBSET {r \in Reservations : res[r] # NoReservation}
  BY DEF ActiveVia, NoReservation
<1>2. IsFiniteSet(ActiveVia(c))
  BY <1>1, FS_Subset DEF RowsFinite
<1>3. Budgeted(c) \in SUBSET ActiveVia(c)
  BY DEF Budgeted
<1> QED
  BY <1>2, <1>3, FS_Subset, FS_CardinalityType

\* Nothing is granted, booked or in flight at first.
LEMMA WorkInit == Init => IInv
<1> SUFFICES ASSUME Init PROVE IInv
  OBVIOUS
<1>1. TypeOK
  BY OverCovered, DayAssumption DEF Init, TypeOK, Calendar, NoReservation, Disabled
<1>2. PoliciesGranted
  BY DEF Init, PoliciesGranted
<1>3. RequestsCovered
  BY OverCovered DEF Init, RequestsCovered, Serial, Exclusive, Authorized, Fits, InPlay
<1>4. {r \in Reservations : res[r] # NoReservation} = {}
  BY DEF Init
<1>5. RowsFinite
  BY <1>4, FS_EmptySet DEF RowsFinite
<1>6. \A c \in Creds : Budgeted(c) = {}
  BY DEF Init, Budgeted, ActiveVia, NoReservation
<1>7. BookedWithin
  BY <1>6, FS_EmptySet DEF Init, BookedWithin, WithinAt
<1>8. \A c \in Creds : TaskLimits(c) = {0} /\ SpendLimits(c) = {0} /\ CapLimits(c) = {0}
  BY DEF Init, TaskLimits, SpendLimits, CapLimits
<1>9. LimitsTopped
  BY <1>8 DEF LimitsTopped, Topped
<1> QED
  BY <1>1, <1>2, <1>3, <1>5, <1>7, <1>9 DEF IInv

-----------------------------------------------------------------------------
(* Steps that leave the counters and the rows alone.                       *)

ruleVars == <<policy, granted>>
bookVars == <<used, spent, refused, res>>

\* While no rule and no book changes, what is booked stays within the rules.
LEMMA BooksKept ==
    ASSUME IInv, UNCHANGED <<granted, used, spent, res>>
    PROVE  RowsFinite' /\ BookedWithin' /\ LimitsTopped'
<1>1. \A c \in Creds :
        /\ Budgeted(c)' = Budgeted(c)
        /\ TaskLimits(c)' = TaskLimits(c) /\ SpendLimits(c)' = SpendLimits(c)
        /\ CapLimits(c)' = CapLimits(c)
  BY DEF Budgeted, ActiveVia, TaskLimits, SpendLimits, CapLimits
<1>2. RowsFinite'
  BY DEF IInv, RowsFinite
<1>3. BookedWithin'
  BY <1>1 DEF IInv, BookedWithin, WithinAt
<1>4. LimitsTopped'
  BY <1>1 DEF IInv, LimitsTopped
<1> QED
  BY <1>2, <1>3, <1>4

\* One request moves to a state that is covered.
LEMMA RequestMoves ==
    ASSUME IInv, NEW q \in Requests, NEW r \in RequestSet,
           request' = [request EXCEPT ![q] = r], Authorized(r), Fits(r),
           \A x \in Requests : x # q => Exclusive(request[x], r),
           UNCHANGED <<cred, ruleVars, bookVars, day>>
    PROVE  IInv'
<1>1. \A x \in Requests : request'[x] = IF x = q THEN r ELSE request[x]
  BY DEF IInv, TypeOK
<1>2. TypeOK'
  BY DEF IInv, TypeOK, ruleVars, bookVars
<1>3. PoliciesGranted'
  BY DEF IInv, PoliciesGranted, ruleVars
<1>4. \A c : Budgeted(c)' = Budgeted(c)
  BY DEF Budgeted, ActiveVia, bookVars
<1>5. \A x \in Requests : Authorized(request[x])'
  <2>1. \A x \in Requests : Authorized(request[x]) /\ Authorized(r)
    BY DEF IInv, RequestsCovered
  <2> QED
    BY <1>1, <2>1 DEF Authorized, InPlay, ruleVars
<1>6. \A x \in Requests : Fits(request[x])'
  <2>1. \A x \in Requests : Fits(request[x]) /\ Fits(r)
    BY DEF IInv, RequestsCovered
  <2> QED
    BY <1>1, <1>4, <2>1 DEF Fits, bookVars
<1>7. Serial'
  BY <1>1 DEF IInv, RequestsCovered, Serial, Exclusive
<1>8. RowsFinite' /\ BookedWithin' /\ LimitsTopped'
  BY BooksKept DEF ruleVars, bookVars
<1> QED
  BY <1>2, <1>3, <1>5, <1>6, <1>7, <1>8 DEF IInv, RequestsCovered

\* A request that ends without booking anything.
LEMMA FinishKeeps ==
    ASSUME IInv, NEW q \in Requests, Finish(q),
           UNCHANGED <<cred, ruleVars, bookVars, day>>
    PROVE  IInv'
<1> DEFINE r == [NoRequest EXCEPT !.step = "over"]
<1>1. r \in RequestSet /\ r.step = "over"
  BY OverCovered
<1> HIDE DEF r
<1>2. Authorized(r) /\ Fits(r) /\ \A x : Exclusive(x, r)
  BY <1>1 DEF Authorized, InPlay, Fits, Exclusive
<1>3. request' = [request EXCEPT ![q] = r]
  BY DEF Finish, r
<1> QED
  BY <1>1, <1>2, <1>3, RequestMoves

\* Verifying a credential reads the policy it has now.
LEMMA VerifyKeeps ==
    ASSUME IInv, NEW q \in Requests, NEW c \in Creds, VerifyCredential(q, c)
    PROVE  IInv'
<1> DEFINE r == [NoRequest EXCEPT !.step = "verified", !.cred = c, !.policy = policy[c]]
<1>1. policy[c] \in Policies \cup {Disabled} /\ policy[c] \in granted[c] \cup {Disabled}
  BY DEF IInv, TypeOK, PoliciesGranted
<1>2. r \in RequestSet /\ r.step = "verified" /\ r.cred = c /\ r.policy = policy[c]
  BY <1>1, OverCovered DEF RequestSet
<1> HIDE DEF r
<1>3. Authorized(r) /\ Fits(r) /\ \A x : Exclusive(x, r)
  BY <1>1, <1>2 DEF Authorized, Fits, Exclusive
<1>4. request' = [request EXCEPT ![q] = r] /\ UNCHANGED <<cred, ruleVars, bookVars, day>>
  BY DEF VerifyCredential, Verified, r, ruleVars, bookVars, counterVars
<1> QED
  BY <1>2, <1>3, <1>4, RequestMoves

\* A charge under the lock on the credential's row.
LEMMA ChargeKeeps ==
    ASSUME IInv, NEW q \in Requests, NEW op \in {"reserve", "submit", "spend"},
           NEW t \in Tasks \cup {None}, NEW n \in Nat, Charge(q, op, t, n),
           request[q].step = "verified", ~Locked(request[q].cred),
           op \in {"reserve", "submit"} =>
             /\ request[q].policy # Disabled /\ n = 1
             /\ used[request[q].cred][day] + 1 <= request[q].policy.tasks,
           op = "reserve" /\ request[q].policy.cap # None =>
             Cardinality(Budgeted(request[q].cred)) + 1 <= request[q].policy.cap,
           op = "spend" =>
             /\ request[q].policy.spend # None
             /\ spent[request[q].cred][day] + n <= request[q].policy.spend,
           UNCHANGED <<cred, ruleVars, bookVars, day>>
    PROVE  IInv'
<1> DEFINE r == [request[q] EXCEPT !.step = "charged", !.op = op, !.task = t,
                                   !.amount = n, !.day = day]
<1>1. request[q] \in RequestSet /\ day \in Calendar
  BY DEF IInv, TypeOK
<1>2. /\ r \in RequestSet /\ r.step = "charged" /\ r.op = op /\ r.amount = n /\ r.day = day
      /\ r.cred = request[q].cred /\ r.policy = request[q].policy
      /\ r.outdated = request[q].outdated
  BY <1>1 DEF RequestSet
<1>3. request' = [request EXCEPT ![q] = r]
  BY <1>1 DEF Charge, RequestSet, IInv, TypeOK
<1> HIDE DEF r
<1>4. Authorized(r)
  BY <1>2 DEF IInv, RequestsCovered, Authorized, InPlay
<1>5. Fits(r)
  BY <1>2 DEF Fits
<1>6. \A x \in Requests : x # q => Exclusive(request[x], r)
  BY <1>2 DEF Exclusive, Locked, InFlight
<1> QED
  BY <1>2, <1>3, <1>4, <1>5, <1>6, RequestMoves

-----------------------------------------------------------------------------
(* Steps that book, or that move rows.                                     *)

\* No counter of c goes up, nor does the number of its budgeted reservations.
Lowered(c) ==
    /\ \A d \in Calendar : used'[c][d] <= used[c][d] /\ spent'[c][d] <= spent[c][d]
    /\ Cardinality(Budgeted(c)') <= Cardinality(Budgeted(c))

\* What was within a policy stays within it.
LEMMA LoweredWithin ==
    ASSUME IInv, TypeOK', RowsFinite', UNCHANGED granted, NEW c \in Creds, Lowered(c)
    PROVE  WithinAt(c)'
<1>0. /\ TypeOK /\ RowsFinite /\ WithinAt(c)
      /\ \A p \in granted[c] : p \in Policies
  BY DEF IInv, BookedWithin, TypeOK
<1>1. ASSUME NEW d \in Calendar
      PROVE  /\ used'[c][d] = 0 \/ \E p \in granted[c] : used'[c][d] <= p.tasks
             /\ spent'[c][d] = 0 \/ \E p \in granted[c] : p.spend # None /\ spent'[c][d] <= p.spend
  <2>1. /\ used[c][d] \in Nat /\ used'[c][d] \in Nat /\ used'[c][d] <= used[c][d]
        /\ spent[c][d] \in Nat /\ spent'[c][d] \in Nat /\ spent'[c][d] <= spent[c][d]
    BY <1>0 DEF TypeOK, Lowered
  <2>2. used'[c][d] = 0 \/ \E p \in granted[c] : used'[c][d] <= p.tasks
    <3>1. CASE used[c][d] = 0
      BY <2>1, <3>1
    <3>2. CASE \E p \in granted[c] : used[c][d] <= p.tasks
      BY <1>0, <2>1, <3>2, PolicyParts
    <3> QED
      BY <1>0, <3>1, <3>2 DEF WithinAt
  <2>3. spent'[c][d] = 0 \/ \E p \in granted[c] : p.spend # None /\ spent'[c][d] <= p.spend
    <3>1. CASE spent[c][d] = 0
      BY <2>1, <3>1
    <3>2. CASE \E p \in granted[c] : p.spend # None /\ spent[c][d] <= p.spend
      BY <1>0, <2>1, <3>2, PolicyParts
    <3> QED
      BY <1>0, <3>1, <3>2 DEF WithinAt
  <2> QED
    BY <2>2, <2>3
<1>2. ASSUME \A p \in granted[c] : p.cap # None
      PROVE  \/ Cardinality(Budgeted(c)') = 0
             \/ \E p \in granted[c] : Cardinality(Budgeted(c)') <= p.cap
  <2>1. Cardinality(Budgeted(c)) \in Nat
    BY <1>0, ActiveFinite
  <2>2. Cardinality(Budgeted(c)') \in Nat
    <3>1. Budgeted(c)' \in SUBSET {r \in Reservations : res'[r] # NoReservation}
      BY DEF Budgeted, ActiveVia, NoReservation
    <3> QED
      BY <3>1, FS_Subset, FS_CardinalityType DEF RowsFinite
  <2>3. Cardinality(Budgeted(c)') <= Cardinality(Budgeted(c))
    BY DEF Lowered
  <2>4. CASE Cardinality(Budgeted(c)) = 0
    BY <2>2, <2>3, <2>4
  <2>5. CASE \E p \in granted[c] : Cardinality(Budgeted(c)) <= p.cap
    BY <1>0, <1>2, <2>1, <2>2, <2>3, <2>5, PolicyParts
  <2> QED
    BY <1>0, <1>2, <2>4, <2>5 DEF WithinAt
<1> QED
  BY <1>1, <1>2 DEF WithinAt

\* A step that ends requests, and may book what one of them was charged for.
LEMMA BooksMove ==
    ASSUME IInv, TypeOK', RowsFinite', UNCHANGED <<cred, ruleVars>>,
           \A x \in Requests : request'[x] = request[x] \/ request'[x].step = "over",
           \A c \in Creds :
             \/ Lowered(c)
             \/ /\ WithinAt(c)'
                /\ \A x \in Requests : request'[x].step = "charged" => request'[x].cred # c
    PROVE  IInv'
<1>0. TypeOK /\ RowsFinite /\ \A x \in Requests : Authorized(request[x]) /\ Fits(request[x])
  BY DEF IInv, RequestsCovered
<1>1. PoliciesGranted'
  BY DEF IInv, PoliciesGranted, ruleVars
<1>2. \A x \in Requests : Authorized(request[x])'
  BY <1>0 DEF Authorized, InPlay, ruleVars
<1>3. ASSUME NEW x \in Requests
      PROVE  Fits(request[x])'
  <2>1. SUFFICES ASSUME request'[x].step = "charged" PROVE Fits(request[x])'
    BY DEF Fits
  <2>2. request'[x] = request[x] /\ request[x] \in RequestSet
    BY <1>0, <2>1 DEF TypeOK
  <2>3. PICK c \in Creds : c = request[x].cred
    BY <1>0, <2>1, <2>2 DEF Authorized, InPlay
  <2>4. PICK d \in Calendar : d = request[x].day
    BY <2>2 DEF RequestSet
  <2>5. Lowered(c)
    BY <2>1, <2>2, <2>3
  <2>6. /\ used[c][d] \in Nat /\ used'[c][d] \in Nat /\ used'[c][d] <= used[c][d]
        /\ spent[c][d] \in Nat /\ spent'[c][d] \in Nat /\ spent'[c][d] <= spent[c][d]
    BY <1>0, <2>5 DEF TypeOK, Lowered
  <2>7. /\ Cardinality(Budgeted(c)) \in Nat /\ Cardinality(Budgeted(c)') \in Nat
        /\ Cardinality(Budgeted(c)') <= Cardinality(Budgeted(c))
    <3>1. Budgeted(c)' \in SUBSET {r \in Reservations : res'[r] # NoReservation}
      BY DEF Budgeted, ActiveVia, NoReservation
    <3>2. Cardinality(Budgeted(c)') \in Nat
      BY <3>1, FS_Subset, FS_CardinalityType DEF RowsFinite
    <3> QED
      BY <1>0, <2>5, <3>2, ActiveFinite DEF Lowered
  <2>8. /\ request[x].policy.tasks \in Nat /\ request[x].amount \in Nat
        /\ request[x].policy.cap # None => request[x].policy.cap \in Nat
        /\ request[x].policy.spend # None => request[x].policy.spend \in Nat
    <3>1. request[x].policy \in Policies \cup {Disabled} /\ request[x].amount \in Nat
      BY <2>2 DEF RequestSet
    <3>2. Disabled.tasks = 0 /\ Disabled.cap = None /\ Disabled.spend = None
      BY DEF Disabled
    <3> QED
      BY <3>1, <3>2, PolicyParts
  <2>9. Fits(request[x])
    BY <1>0
  <2> DEFINE n == Cardinality(Budgeted(c))
             m == Cardinality(Budgeted(c)')
  <2>10. /\ request[x].op \in {"reserve", "submit", "spend"}
         /\ request[x].op \in {"reserve", "submit"} =>
              /\ request[x].policy # Disabled /\ request[x].amount = 1
              /\ used[c][d] + 1 <= request[x].policy.tasks
         /\ request[x].op = "reserve" /\ request[x].policy.cap # None =>
              n + 1 <= request[x].policy.cap
         /\ request[x].op = "spend" =>
              /\ request[x].policy.spend # None
              /\ spent[c][d] + request[x].amount <= request[x].policy.spend
    BY <2>1, <2>2, <2>3, <2>4, <2>9 DEF Fits
  <2>11. /\ n \in Nat /\ m \in Nat /\ m <= n
    BY <2>7
  <2> HIDE DEF n, m
  <2>12. /\ request[x].op \in {"reserve", "submit"} => used'[c][d] + 1 <= request[x].policy.tasks
         /\ request[x].op = "reserve" /\ request[x].policy.cap # None =>
              m + 1 <= request[x].policy.cap
         /\ request[x].op = "spend" =>
              spent'[c][d] + request[x].amount <= request[x].policy.spend
    BY <2>6, <2>8, <2>10, <2>11
  <2> QED
    BY <2>2, <2>3, <2>4, <2>10, <2>12 DEF Fits, m
<1>4. Serial'
  <2>1. \A x \in Requests : request'[x].step = "charged" => request'[x] = request[x]
    OBVIOUS
  <2> QED
    BY <2>1 DEF IInv, RequestsCovered, Serial, Exclusive
<1>5. BookedWithin'
  BY LoweredWithin DEF BookedWithin, ruleVars
<1>6. LimitsTopped'
  BY DEF IInv, LimitsTopped, TaskLimits, SpendLimits, CapLimits, ruleVars
<1> QED
  BY <1>1, <1>2, <1>3, <1>4, <1>5, <1>6 DEF IInv, RequestsCovered

-----------------------------------------------------------------------------
(* The steps of credentials.                                               *)

\* Only credentials change, and one that does not exist had no policy.
LEMMA CredentialsMove ==
    ASSUME IInv, TypeOK', UNCHANGED <<policy, request, res, counterVars, day, granted>>,
           \A c \in Creds : cred'[c].state = "absent" => cred[c].state = "absent"
    PROVE  IInv'
<1>1. PoliciesGranted'
  BY DEF IInv, PoliciesGranted
<1>2. RowsFinite' /\ BookedWithin' /\ LimitsTopped'
  BY BooksKept DEF counterVars
<1>3. RequestsCovered'
  <2>1. \A c : Budgeted(c)' = Budgeted(c)
    BY DEF Budgeted, ActiveVia
  <2>2. \A q \in Requests : Authorized(request[q])'
    BY DEF IInv, RequestsCovered, Authorized
  <2>3. \A q \in Requests : Fits(request[q])'
    BY <2>1 DEF IInv, RequestsCovered, Fits, counterVars
  <2>4. Serial'
    BY DEF IInv, RequestsCovered, Serial
  <2> QED
    BY <2>2, <2>3, <2>4 DEF RequestsCovered
<1> QED
  BY <1>1, <1>2, <1>3 DEF IInv

\* A task-scoped credential is issued for a task, or for none.
LEMMA CreateKeeps ==
    ASSUME IInv, NEW c \in Creds,
           \/ CreateCredential(c)
           \/ \E r \in Reservations : IssueTaskWorkerCredential(c, r)
           \/ RevokeCredential(c)
           \/ CredentialExpires(c)
    PROVE  IInv'
<1>1. PICK n \in [state : {"active", "expired", "revoked"}, scope : Tasks \cup {None}] :
        /\ cred' = [cred EXCEPT ![c] = n]
        /\ n.scope = cred[c].scope \/ cred[c].state = "absent"
  <2>0. cred[c] \in [state : {"absent", "active", "expired", "revoked"}, scope : Tasks \cup {None}]
    BY DEF IInv, TypeOK
  <2>1. CASE CreateCredential(c) \/ RevokeCredential(c) \/ CredentialExpires(c)
    <3>1. PICK s \in {"active", "expired", "revoked"} : cred' = [cred EXCEPT ![c].state = s]
      BY <2>1 DEF CreateCredential, RevokeCredential, CredentialExpires
    <3> DEFINE n == [state |-> s, scope |-> cred[c].scope]
    <3>2. n \in [state : {"active", "expired", "revoked"}, scope : Tasks \cup {None}]
      BY <2>0
    <3>3. n = [cred[c] EXCEPT !.state = s]
      BY <2>0
    <3>4. cred' = [cred EXCEPT ![c] = n]
      BY <3>1, <3>3
    <3> QED
      BY <3>2, <3>4
  <2>2. ASSUME NEW r \in Reservations, IssueTaskWorkerCredential(c, r)
        PROVE  \E n \in [state : {"active", "expired", "revoked"}, scope : Tasks \cup {None}] :
                 /\ cred' = [cred EXCEPT ![c] = n]
                 /\ n.scope = cred[c].scope \/ cred[c].state = "absent"
    <3>1. res[r].task \in Tasks \cup {None}
      BY DEF IInv, TypeOK
    <3> QED
      BY <2>2, <3>1 DEF IssueTaskWorkerCredential
  <2> QED
    BY <2>1, <2>2
<1>2. UNCHANGED <<policy, request, res, counterVars, day, granted>>
  BY DEF CreateCredential, IssueTaskWorkerCredential, RevokeCredential, CredentialExpires
<1>3. \A x \in Creds : cred'[x] = IF x = c THEN n ELSE cred[x]
  BY <1>1 DEF IInv, TypeOK
<1>4. TypeOK'
  <2>1. \A x \in Creds : cred'[x].scope # None => policy[x] = Disabled
    BY <1>1, <1>3 DEF IInv, TypeOK, PoliciesGranted
  <2> QED
    BY <1>1, <1>2, <2>1 DEF IInv, TypeOK, counterVars
<1>5. \A x \in Creds : cred'[x].state = "absent" => cred[x].state = "absent"
  BY <1>1, <1>3
<1> QED
  BY <1>2, <1>4, <1>5, CredentialsMove

\* The owner sets a policy: it is granted, and overtakes the open requests.
LEMMA PolicyKeeps ==
    ASSUME IInv, NEW c \in Creds, NEW p \in Policies \cup {Disabled}, UpdateWorkPolicy(c, p)
    PROVE  IInv'
<1>0. /\ TypeOK /\ UNCHANGED <<cred, res, used, spent, refused, day>>
      /\ cred[c].scope = None /\ cred[c].state # "absent" /\ ~Locked(c)
  BY DEF IInv, UpdateWorkPolicy, counterVars
<1>1. /\ policy' = [policy EXCEPT ![c] = p]
      /\ \A x \in Creds : policy'[x] = IF x = c THEN p ELSE policy[x]
  BY <1>0 DEF UpdateWorkPolicy, TypeOK
<1>2. /\ granted' \in [Creds -> SUBSET Policies]
      /\ \A x \in Creds : granted'[x] = IF x = c THEN granted[x] \cup ({p} \ {Disabled})
                                        ELSE granted[x]
  BY <1>0 DEF UpdateWorkPolicy, TypeOK
<1>3. \A q \in Requests :
        /\ request'[q] \in RequestSet
        /\ request'[q].step = request[q].step /\ request'[q].cred = request[q].cred
        /\ request'[q].policy = request[q].policy /\ request'[q].op = request[q].op
        /\ request'[q].amount = request[q].amount /\ request'[q].day = request[q].day
        /\ q \in InFlight(c) => request'[q].outdated
        /\ q \notin InFlight(c) => request'[q] = request[q]
  <2> SUFFICES ASSUME NEW q \in Requests
               PROVE  /\ request'[q] \in RequestSet
                      /\ request'[q].step = request[q].step
                      /\ request'[q].cred = request[q].cred
                      /\ request'[q].policy = request[q].policy
                      /\ request'[q].op = request[q].op
                      /\ request'[q].amount = request[q].amount
                      /\ request'[q].day = request[q].day
                      /\ q \in InFlight(c) => request'[q].outdated
                      /\ q \notin InFlight(c) => request'[q] = request[q]
    OBVIOUS
  <2>1. request[q] \in RequestSet
    BY <1>0 DEF TypeOK
  <2>2. request'[q] = IF q \in InFlight(c) THEN [request[q] EXCEPT !.outdated = TRUE]
                      ELSE request[q]
    BY DEF UpdateWorkPolicy
  <2> QED
    BY <2>1, <2>2 DEF RequestSet
<1>4. TypeOK'
  <2>1. request' \in [Requests -> RequestSet]
    BY <1>3 DEF UpdateWorkPolicy
  <2>2. policy' \in [Creds -> Policies \cup {Disabled}]
    BY <1>0, <1>1 DEF TypeOK
  <2> QED
    BY <1>0, <1>1, <1>2, <2>1, <2>2 DEF TypeOK
<1>5. PoliciesGranted'
  <2>1. PoliciesGranted
    BY DEF IInv
  <2> QED
    BY <1>0, <1>1, <1>2, <2>1 DEF PoliciesGranted
<1>6. RequestsCovered'
  <2>0. /\ \A q \in Requests : Authorized(request[q]) /\ Fits(request[q])
        /\ Serial
    BY DEF IInv, RequestsCovered
  <2>1. \A q \in Requests : Authorized(request[q])'
    <3> SUFFICES ASSUME NEW q \in Requests, InPlay(request'[q])
                 PROVE  /\ request'[q].cred \in Creds
                        /\ request'[q].policy \in granted'[request'[q].cred] \cup {Disabled}
                        /\ ~request'[q].outdated => request'[q].policy = policy'[request'[q].cred]
      BY DEF Authorized
    <3>1. InPlay(request[q])
      BY <1>3 DEF InPlay
    <3>2. /\ request[q].cred \in Creds
          /\ request[q].policy \in granted[request[q].cred] \cup {Disabled}
          /\ ~request[q].outdated => request[q].policy = policy[request[q].cred]
      BY <2>0, <3>1 DEF Authorized
    <3>3. request[q].cred = c => q \in InFlight(c)
      BY <3>1 DEF InFlight, InPlay
    <3> QED
      BY <1>1, <1>2, <1>3, <3>2, <3>3
  <2>2. \A x : Budgeted(x)' = Budgeted(x)
    BY <1>0 DEF Budgeted, ActiveVia
  <2>3. \A q \in Requests : Fits(request[q])'
    BY <1>0, <1>3, <2>0, <2>2 DEF Fits
  <2>4. Serial'
    BY <1>3, <2>0 DEF Serial, Exclusive
  <2> QED
    BY <2>1, <2>3, <2>4 DEF RequestsCovered
<1>7. RowsFinite'
  BY <1>0 DEF IInv, RowsFinite
<1>8. BookedWithin'
  <2> SUFFICES ASSUME NEW x \in Creds PROVE WithinAt(x)'
    BY DEF BookedWithin
  <2>1. WithinAt(x) /\ granted[x] \subseteq granted'[x]
    BY <1>2 DEF IInv, BookedWithin
  <2>2. Budgeted(x)' = Budgeted(x)
    BY <1>0 DEF Budgeted, ActiveVia
  <2> QED
    BY <1>0, <2>1, <2>2 DEF WithinAt
<1>9. LimitsTopped'
  <2> SUFFICES ASSUME NEW x \in Creds
               PROVE  /\ Topped(TaskLimits(x)') /\ Topped(SpendLimits(x)')
                      /\ Topped(CapLimits(x)')
    BY DEF LimitsTopped, Topped
  <2>1. /\ Topped(TaskLimits(x)) /\ Topped(SpendLimits(x)) /\ Topped(CapLimits(x))
        /\ TaskLimits(x) \in SUBSET Nat /\ SpendLimits(x) \in SUBSET Nat
        /\ CapLimits(x) \in SUBSET Nat
    BY LimitsAreNumbers DEF IInv, LimitsTopped
  <2>2. CASE granted'[x] = granted[x]
    BY <2>1, <2>2 DEF TaskLimits, SpendLimits, CapLimits
  <2>3. CASE granted'[x] = granted[x] \cup {p} /\ p \in Policies
    <3>1. /\ p.tasks \in Nat
          /\ p.cap # None => p.cap \in Nat
          /\ p.spend # None => p.spend \in Nat
      BY <2>3, PolicyParts
    <3>2. TaskLimits(x)' = TaskLimits(x) \cup {p.tasks}
      BY <2>3 DEF TaskLimits
    <3>3. SpendLimits(x)' = IF p.spend = None THEN SpendLimits(x)
                            ELSE SpendLimits(x) \cup {p.spend}
      BY <2>3 DEF SpendLimits
    <3>4. CapLimits(x)' = IF p.cap = None THEN CapLimits(x) ELSE CapLimits(x) \cup {p.cap}
      BY <2>3 DEF CapLimits
    <3> QED
      BY <2>1, <3>1, <3>2, <3>3, <3>4, ToppedAdd
  <2> QED
    BY <1>2, <2>2, <2>3
<1> QED
  BY <1>4, <1>5, <1>6, <1>7, <1>8, <1>9 DEF IInv

-----------------------------------------------------------------------------
(* The steps of requests.                                                  *)

\* Opening a transaction, or ending a request that charged nothing.
LEMMA OpenKeeps ==
    ASSUME IInv, NEW q \in Requests,
           \/ \E t \in Tasks : ReserveTask(q, t) \/ SubmitDirectly(q, t)
           \/ \E n \in Amounts : SpendCredits(q, n)
    PROVE  IInv'
<1>0. /\ TypeOK /\ RowsFinite /\ request[q] \in RequestSet /\ day \in Calendar
      /\ request[q].step = "verified" => request[q].cred \in Creds
  BY DEF IInv, TypeOK, RequestsCovered, Authorized, InPlay
<1>1. ASSUME NEW t \in Tasks, ReserveTask(q, t) PROVE IInv'
  <2>1. /\ request[q].step = "verified" /\ ~Locked(request[q].cred)
        /\ request[q].policy # Disabled /\ Charge(q, "reserve", t, 1)
        /\ UNCHANGED <<cred, ruleVars, bookVars, day>>
    BY <1>1 DEF ReserveTask, MaySeekWork, ruleVars, bookVars, counterVars
  <2>2. /\ request[q].policy \in Policies
        /\ used[request[q].cred][day] \in Nat
    BY <1>0, <2>1 DEF RequestSet, TypeOK
  <2>3. used[request[q].cred][day] + 1 <= request[q].policy.tasks
    BY <1>1, <2>2, PolicyParts DEF ReserveTask, ReservationBudget, Exhausted
  <2>4. request[q].policy.cap # None =>
          Cardinality(Budgeted(request[q].cred)) + 1 <= request[q].policy.cap
    <3>1. request[q].policy.cap # None =>
            /\ Cardinality(ActiveVia(request[q].cred)) < request[q].policy.cap
            /\ request[q].policy.cap \in Nat
      BY <1>1, <2>2, PolicyParts DEF ReserveTask, ReservationBudget
    <3>2. /\ Cardinality(Budgeted(request[q].cred)) \in Nat
          /\ Cardinality(ActiveVia(request[q].cred)) \in Nat
          /\ Cardinality(Budgeted(request[q].cred)) <= Cardinality(ActiveVia(request[q].cred))
      BY <1>0, ActiveFinite
    <3> QED
      BY <3>1, <3>2
  <2> QED
    BY <2>1, <2>3, <2>4, ChargeKeeps
<1>2. ASSUME NEW t \in Tasks, SubmitDirectly(q, t) PROVE IInv'
  <2>1. /\ request[q].step = "verified" /\ ~Locked(request[q].cred)
        /\ request[q].policy # Disabled /\ Charge(q, "submit", t, 1)
        /\ UNCHANGED <<cred, ruleVars, bookVars, day>>
    BY <1>2 DEF SubmitDirectly, MaySeekWork, ruleVars, bookVars, counterVars
  <2>2. /\ request[q].policy \in Policies
        /\ used[request[q].cred][day] \in Nat
    BY <1>0, <2>1 DEF RequestSet, TypeOK
  <2>3. used[request[q].cred][day] + 1 <= request[q].policy.tasks
    BY <1>2, <2>2, PolicyParts DEF SubmitDirectly, TaskBudget, Exhausted
  <2> QED
    BY <2>1, <2>3, ChargeKeeps
<1>3. ASSUME NEW n \in Amounts, SpendCredits(q, n) PROVE IInv'
  <2>1. /\ request[q].step = "verified" /\ ~Locked(request[q].cred)
        /\ request[q].policy.spend # None /\ Charge(q, "spend", None, n)
        /\ UNCHANGED <<cred, ruleVars, bookVars, day>>
    BY <1>3 DEF SpendCredits, MaySpend, ruleVars, bookVars, counterVars
  <2>2. request[q].policy \in Policies
    BY <1>0, <2>1 DEF RequestSet, Disabled
  <2>3. n \in Nat /\ spent[request[q].cred][day] \in Nat /\ request[q].policy.spend \in Nat
    BY <1>0, <2>1, <2>2, PolicyParts, DayAssumption DEF TypeOK
  <2>4. spent[request[q].cred][day] + n <= request[q].policy.spend
    BY <1>3, <2>3 DEF SpendCredits, SpendBudget, Exhausted
  <2> QED
    BY <2>1, <2>3, <2>4, ChargeKeeps
<1> QED
  BY <1>1, <1>2, <1>3

\* What a commit writes to a counter.
LEMMA BookedCounter ==
    ASSUME TypeOK, NEW q \in Requests, NEW k \in [Creds -> [Calendar -> Nat]],
           request[q].cred \in Creds
    PROVE  /\ Booked(k, q) \in [Creds -> [Calendar -> Nat]]
           /\ \A c \in Creds, d \in Calendar :
                Booked(k, q)[c][d] = IF c = request[q].cred /\ d = request[q].day
                                     THEN k[c][d] + request[q].amount ELSE k[c][d]
<1>1. request[q].day \in Calendar /\ request[q].amount \in Nat
  BY DEF TypeOK, RequestSet
<1> QED
  BY <1>1 DEF Booked

\* Ending a request leaves a well-formed table.
LEMMA FinishTypes ==
    ASSUME TypeOK, NEW q \in Requests, Finish(q)
    PROVE  /\ request' \in [Requests -> RequestSet]
           /\ request'[q].step = "over"
           /\ \A x \in Requests : request'[x] = request[x] \/ request'[x].step = "over"
           /\ \A x \in Requests : x # q => request'[x] = request[x]
BY OverCovered DEF Finish, TypeOK

\* One row more is still a finite number of rows.
LEMMA RowAdded ==
    ASSUME RowsFinite, NEW r, \A x \in Reservations : x # r => res'[x] = res[x]
    PROVE  RowsFinite'
<1> DEFINE Rows == {x \in Reservations : res[x] # NoReservation}
           After == {x \in Reservations : res'[x] # NoReservation}
<1>1. IsFiniteSet(Rows \cup {r})
  BY FS_AddElement DEF RowsFinite
<1>2. After \in SUBSET (Rows \cup {r})
  OBVIOUS
<1>3. IsFiniteSet(After)
  BY <1>1, <1>2, FS_Subset
<1> QED
  BY <1>3 DEF RowsFinite

\* A credential with no budgeted reservation more has none counted more.
LEMMA FewerLowered ==
    ASSUME IInv, NEW c \in Creds, UNCHANGED <<used, spent>>,
           Budgeted(c)' \subseteq Budgeted(c)
    PROVE  Lowered(c)
<1>1. IsFiniteSet(Budgeted(c))
  BY ActiveFinite DEF IInv
<1>2. Cardinality(Budgeted(c)') <= Cardinality(Budgeted(c))
  BY <1>1, FS_Subset
<1>3. \A d \in Calendar : used[c][d] \in Nat /\ spent[c][d] \in Nat
  BY DEF IInv, TypeOK
<1> QED
  BY <1>2, <1>3 DEF Lowered

\* While a transaction is open on a credential, no other one is.
LEMMA Alone ==
    ASSUME IInv, NEW q \in Requests, request[q].step = "charged", Finish(q)
    PROVE  \A x \in Requests :
             request'[x].step = "charged" => request'[x].cred # request[q].cred
BY FinishTypes DEF IInv, RequestsCovered, Serial, Exclusive

\* What a request carries when its transaction commits.
LEMMA ChargedFacts ==
    ASSUME IInv, NEW q \in Requests, request[q].step = "charged"
    PROVE  /\ request[q].cred \in Creds
           /\ Authorized(request[q]) /\ Fits(request[q])
           /\ request[q].policy \in granted[request[q].cred] \cup {Disabled}
BY DEF IInv, RequestsCovered, Authorized, InPlay

\* The transaction of a reservation commits: the row is new and charged.
LEMMA CommitReservationKeeps ==
    ASSUME IInv, NEW q \in Requests, NEW r \in Reservations, CommitReservation(q, r)
    PROVE  IInv'
<1>0. /\ TypeOK /\ RowsFinite /\ request[q] \in RequestSet
      /\ request[q].step = "charged" /\ request[q].op = "reserve" /\ Finish(q)
      /\ UNCHANGED <<cred, policy, spent, refused, day, granted>>
      /\ used' = Booked(used, q) /\ res[r] = NoReservation
      /\ res' = [res EXCEPT ![r] = NewReservation(request[q].task, request[q].cred)]
  BY DEF IInv, TypeOK, CommitReservation
<1>1. PICK c \in Creds : c = request[q].cred
  BY <1>0, ChargedFacts
<1>2. PICK p \in granted[c] : p = request[q].policy
  BY <1>0, <1>1, ChargedFacts DEF Fits
<1>3. PICK e \in Calendar : e = request[q].day
  BY <1>0 DEF RequestSet
<1>4. p \in Policies /\ request[q].amount = 1 /\ used[c][e] + 1 <= p.tasks
  BY <1>0, <1>1, <1>2, <1>3, ChargedFacts DEF Fits, TypeOK
<1>5. p.cap # None => Cardinality(Budgeted(c)) + 1 <= p.cap
  BY <1>0, <1>1, <1>2, ChargedFacts DEF Fits
<1>6. /\ used' \in [Creds -> [Calendar -> Nat]]
      /\ \A x \in Creds, d \in Calendar :
           used'[x][d] = IF x = c /\ d = e THEN used[x][d] + 1 ELSE used[x][d]
  BY <1>0, <1>1, <1>3, <1>4, BookedCounter DEF TypeOK
<1>7. \A x \in Reservations :
        res'[x] = IF x = r THEN NewReservation(request[q].task, c) ELSE res[x]
  BY <1>0, <1>1 DEF TypeOK
<1>8. TypeOK'
  <2>1. NewReservation(request[q].task, c) \in
          [state : {"absent", "active", "submitted", "ended"}, task : Tasks \cup {None},
           via : Creds \cup {None}, revived : BOOLEAN]
    BY <1>0 DEF NewReservation, RequestSet
  <2> QED
    BY <1>0, <1>1, <1>6, <2>1, FinishTypes DEF TypeOK
<1>9. RowsFinite'
  BY <1>0, <1>7, RowAdded
<1>10. \A x \in Creds : x # c => Budgeted(x)' = Budgeted(x)
  BY <1>0, <1>7 DEF Budgeted, ActiveVia, NewReservation, NoReservation
<1>11. Budgeted(c)' = Budgeted(c) \cup {r} /\ r \notin Budgeted(c)
  BY <1>0, <1>7 DEF Budgeted, ActiveVia, NewReservation, NoReservation
<1>12. Cardinality(Budgeted(c)') = Cardinality(Budgeted(c)) + 1
  BY <1>0, <1>11, ActiveFinite, FS_AddElement
<1>13. ASSUME NEW x \in Creds, x # c
       PROVE  Lowered(x)
  <2>1. \A d \in Calendar : /\ used'[x][d] = used[x][d] /\ used[x][d] \in Nat
                            /\ spent'[x][d] = spent[x][d] /\ spent[x][d] \in Nat
    BY <1>0, <1>6, <1>13 DEF TypeOK
  <2>2. Cardinality(Budgeted(x)) \in Nat
    BY <1>0, ActiveFinite
  <2> QED
    BY <1>10, <1>13, <2>1, <2>2 DEF Lowered
<1>14. WithinAt(c)'
  <2>1. WithinAt(c)
    BY DEF IInv, BookedWithin
  <2>2. \A d \in Calendar : used'[c][d] = 0 \/ \E x \in granted[c] : used'[c][d] <= x.tasks
    BY <1>4, <1>6, <2>1 DEF WithinAt
  <2>3. (\A x \in granted[c] : x.cap # None) =>
          \E x \in granted[c] : Cardinality(Budgeted(c)') <= x.cap
    BY <1>5, <1>12
  <2> QED
    BY <1>0, <2>1, <2>2, <2>3 DEF WithinAt
<1>15. \A x \in Requests : request'[x].step = "charged" => request'[x].cred # c
  BY <1>0, <1>1, Alone
<1> QED
  BY <1>0, <1>8, <1>9, <1>13, <1>14, <1>15, FinishTypes, BooksMove DEF ruleVars

\* The transaction of a direct submission commits.
LEMMA CommitSubmissionKeeps ==
    ASSUME IInv, NEW q \in Requests, CommitSubmission(q)
    PROVE  IInv'
<1>0. /\ TypeOK /\ RowsFinite /\ request[q] \in RequestSet
      /\ request[q].step = "charged" /\ request[q].op = "submit" /\ Finish(q)
      /\ UNCHANGED <<cred, policy, res, spent, refused, day, granted>>
      /\ used' = Booked(used, q)
  BY DEF IInv, TypeOK, CommitSubmission
<1>1. PICK c \in Creds : c = request[q].cred
  BY <1>0, ChargedFacts
<1>2. PICK p \in granted[c] : p = request[q].policy
  BY <1>0, <1>1, ChargedFacts DEF Fits
<1>3. PICK e \in Calendar : e = request[q].day
  BY <1>0 DEF RequestSet
<1>4. p \in Policies /\ request[q].amount = 1 /\ used[c][e] + 1 <= p.tasks
  BY <1>0, <1>1, <1>2, <1>3, ChargedFacts DEF Fits, TypeOK
<1>5. /\ used' \in [Creds -> [Calendar -> Nat]]
      /\ \A x \in Creds, d \in Calendar :
           used'[x][d] = IF x = c /\ d = e THEN used[x][d] + 1 ELSE used[x][d]
  BY <1>0, <1>1, <1>3, <1>4, BookedCounter DEF TypeOK
<1>6. TypeOK'
  BY <1>0, <1>5, FinishTypes DEF TypeOK
<1>7. RowsFinite' /\ \A x \in Creds : Budgeted(x)' = Budgeted(x)
  BY <1>0 DEF RowsFinite, Budgeted, ActiveVia
<1>8. ASSUME NEW x \in Creds, x # c
      PROVE  Lowered(x)
  <2>1. \A d \in Calendar : /\ used'[x][d] = used[x][d] /\ used[x][d] \in Nat
                            /\ spent'[x][d] = spent[x][d] /\ spent[x][d] \in Nat
    BY <1>0, <1>5, <1>8 DEF TypeOK
  <2>2. Cardinality(Budgeted(x)) \in Nat
    BY <1>0, ActiveFinite
  <2> QED
    BY <1>7, <2>1, <2>2 DEF Lowered
<1>9. WithinAt(c)'
  <2>1. WithinAt(c)
    BY DEF IInv, BookedWithin
  <2>2. \A d \in Calendar : used'[c][d] = 0 \/ \E x \in granted[c] : used'[c][d] <= x.tasks
    BY <1>4, <1>5, <2>1 DEF WithinAt
  <2> QED
    BY <1>0, <1>7, <2>1, <2>2 DEF WithinAt
<1>10. \A x \in Requests : request'[x].step = "charged" => request'[x].cred # c
  BY <1>0, <1>1, Alone
<1> QED
  BY <1>0, <1>6, <1>7, <1>8, <1>9, <1>10, FinishTypes, BooksMove DEF ruleVars

\* The transaction of a spending request commits.
LEMMA CommitSpendKeeps ==
    ASSUME IInv, NEW q \in Requests, CommitSpend(q)
    PROVE  IInv'
<1>0. /\ TypeOK /\ RowsFinite /\ request[q] \in RequestSet
      /\ request[q].step = "charged" /\ request[q].op = "spend" /\ Finish(q)
      /\ UNCHANGED <<cred, policy, res, used, refused, day, granted>>
      /\ spent' = Booked(spent, q)
  BY DEF IInv, TypeOK, CommitSpend
<1>1. PICK c \in Creds : c = request[q].cred
  BY <1>0, ChargedFacts
<1>2. PICK p \in granted[c] : p = request[q].policy
  BY <1>0, <1>1, ChargedFacts DEF Fits, Disabled
<1>3. PICK e \in Calendar : e = request[q].day
  BY <1>0 DEF RequestSet
<1>4. /\ p.spend # None /\ request[q].amount \in Nat
      /\ spent[c][e] + request[q].amount <= p.spend
  BY <1>0, <1>1, <1>2, <1>3, ChargedFacts DEF Fits, RequestSet
<1>5. /\ spent' \in [Creds -> [Calendar -> Nat]]
      /\ \A x \in Creds, d \in Calendar :
           spent'[x][d] = IF x = c /\ d = e THEN spent[x][d] + request[q].amount
                          ELSE spent[x][d]
  BY <1>0, <1>1, <1>3, BookedCounter DEF TypeOK
<1>6. TypeOK'
  BY <1>0, <1>5, FinishTypes DEF TypeOK
<1>7. RowsFinite' /\ \A x \in Creds : Budgeted(x)' = Budgeted(x)
  BY <1>0 DEF RowsFinite, Budgeted, ActiveVia
<1>8. ASSUME NEW x \in Creds, x # c
      PROVE  Lowered(x)
  <2>1. \A d \in Calendar : /\ used'[x][d] = used[x][d] /\ used[x][d] \in Nat
                            /\ spent'[x][d] = spent[x][d] /\ spent[x][d] \in Nat
    BY <1>0, <1>5, <1>8 DEF TypeOK
  <2>2. Cardinality(Budgeted(x)) \in Nat
    BY <1>0, ActiveFinite
  <2> QED
    BY <1>7, <2>1, <2>2 DEF Lowered
<1>9. WithinAt(c)'
  <2>1. WithinAt(c)
    BY DEF IInv, BookedWithin
  <2>2. \A d \in Calendar :
          spent'[c][d] = 0 \/ \E x \in granted[c] : x.spend # None /\ spent'[c][d] <= x.spend
    BY <1>4, <1>5, <2>1 DEF WithinAt
  <2> QED
    BY <1>0, <1>7, <2>1, <2>2 DEF WithinAt
<1>10. \A x \in Requests : request'[x].step = "charged" => request'[x].cred # c
  BY <1>0, <1>1, Alone
<1> QED
  BY <1>0, <1>6, <1>7, <1>8, <1>9, <1>10, FinishTypes, BooksMove DEF ruleVars

\* The other ends of a request: refused, rolled back, spent without a cap, or
\* bringing in reserved work.
LEMMA EndKeeps ==
    ASSUME IInv, NEW q \in Requests,
           \/ SpendUncharged(q)
           \/ RefuseOverBudget(q)
           \/ Rollback(q)
           \/ \E r \in Reservations : SubmitReserved(q, r)
    PROVE  IInv'
<1>0. TypeOK /\ RowsFinite
  BY DEF IInv
<1>1. CASE SpendUncharged(q) \/ Rollback(q)
  <2>1. Finish(q) /\ UNCHANGED <<cred, ruleVars, bookVars, day>>
    BY <1>1 DEF SpendUncharged, Rollback, ruleVars, bookVars, counterVars
  <2> QED
    BY <2>1, FinishKeeps
<1>2. CASE RefuseOverBudget(q)
  <2>1. /\ Finish(q) /\ refused' = [refused EXCEPT ![day] = @ + 1]
        /\ UNCHANGED <<cred, policy, res, used, spent, day, granted>>
    BY <1>2 DEF RefuseOverBudget
  <2>2. TypeOK'
    BY <1>0, <2>1, FinishTypes DEF TypeOK
  <2>3. RowsFinite' /\ \A c \in Creds : Budgeted(c)' = Budgeted(c)
    BY <1>0, <2>1 DEF RowsFinite, Budgeted, ActiveVia
  <2>4. \A c \in Creds : Lowered(c)
    BY <2>1, <2>3, FewerLowered
  <2> QED
    BY <1>0, <2>1, <2>2, <2>3, <2>4, FinishTypes, BooksMove DEF ruleVars
<1>3. ASSUME NEW r \in Reservations, SubmitReserved(q, r) PROVE IInv'
  <2>1. /\ Finish(q) /\ res' = [res EXCEPT ![r].state = "submitted"]
        /\ UNCHANGED <<cred, policy, used, spent, refused, day, granted>>
    BY <1>3 DEF SubmitReserved, counterVars
  <2>2. \A x \in Reservations :
          res'[x] = IF x = r THEN [res[x] EXCEPT !.state = "submitted"] ELSE res[x]
    BY <1>0, <2>1 DEF TypeOK
  <2>3. TypeOK'
    BY <1>0, <2>1, FinishTypes DEF TypeOK
  <2>4. RowsFinite'
    BY <1>0, <2>2, RowAdded
  <2>5. \A c \in Creds : Budgeted(c)' \subseteq Budgeted(c)
    <3>1. res'[r].state = "submitted"
      BY <1>0, <2>2 DEF TypeOK
    <3> QED
      BY <2>2, <3>1 DEF Budgeted, ActiveVia
  <2>6. \A c \in Creds : Lowered(c)
    BY <2>1, <2>5, FewerLowered
  <2> QED
    BY <1>0, <2>1, <2>3, <2>4, <2>6, FinishTypes, BooksMove DEF ruleVars
<1> QED
  BY <1>1, <1>2, <1>3

-----------------------------------------------------------------------------
(* The steps of everyone else.                                             *)

\* Rows of the user, changed by others, add nothing to what was budgeted.
LEMMA RowsKeep ==
    ASSUME IInv,
           \/ \E r \in Reservations, t \in Tasks : ReserveInPerson(r, t)
           \/ \E r \in Reservations : ReservationEnds(r)
           \/ \E t \in Tasks : RequestChanges(t)
    PROVE  IInv'
<1>0. /\ TypeOK /\ RowsFinite
      /\ UNCHANGED <<cred, policy, request, used, spent, refused, day, granted>>
  BY DEF IInv, ReserveInPerson, ReservationEnds, RequestChanges, counterVars
<1> DEFINE Row == [state : {"absent", "active", "submitted", "ended"},
                   task : Tasks \cup {None}, via : Creds \cup {None}, revived : BOOLEAN]
<1>1. /\ res' \in [Reservations -> Row] /\ RowsFinite'
      /\ \A c \in Creds : Budgeted(c)' \subseteq Budgeted(c)
  <2>1. ASSUME NEW r \in Reservations, NEW t \in Tasks, ReserveInPerson(r, t)
        PROVE  /\ res' \in [Reservations -> Row] /\ RowsFinite'
               /\ \A c \in Creds : Budgeted(c)' \subseteq Budgeted(c)
    <3>1. \A x \in Reservations : res'[x] = IF x = r THEN NewReservation(t, None) ELSE res[x]
      BY <1>0, <2>1 DEF TypeOK, ReserveInPerson
    <3>2. NewReservation(t, None) \in Row /\ NewReservation(t, None).via = None
      BY DEF NewReservation
    <3>3. res' \in [Reservations -> Row]
      BY <1>0, <2>1, <3>2 DEF TypeOK, ReserveInPerson
    <3>4. \A c \in Creds : Budgeted(c)' \subseteq Budgeted(c)
      BY <3>1, <3>2, PolicyAssumption DEF Budgeted, ActiveVia
    <3> QED
      BY <1>0, <3>1, <3>3, <3>4, RowAdded
  <2>2. ASSUME NEW r \in Reservations, ReservationEnds(r)
        PROVE  /\ res' \in [Reservations -> Row] /\ RowsFinite'
               /\ \A c \in Creds : Budgeted(c)' \subseteq Budgeted(c)
    <3>1. \A x \in Reservations :
            res'[x] = IF x = r THEN [res[x] EXCEPT !.state = "ended"] ELSE res[x]
      BY <1>0, <2>2 DEF TypeOK, ReservationEnds
    <3>2. res' \in [Reservations -> Row] /\ res'[r].state = "ended"
      BY <1>0, <2>2 DEF TypeOK, ReservationEnds
    <3>3. \A c \in Creds : Budgeted(c)' \subseteq Budgeted(c)
      BY <3>1, <3>2 DEF Budgeted, ActiveVia
    <3> QED
      BY <1>0, <3>1, <3>2, <3>3, RowAdded
  <2>3. ASSUME NEW t \in Tasks, RequestChanges(t)
        PROVE  /\ res' \in [Reservations -> Row] /\ RowsFinite'
               /\ \A c \in Creds : Budgeted(c)' \subseteq Budgeted(c)
    <3>1. res' = [r \in Reservations |->
                    IF r \in Submitted(t)
                    THEN [res[r] EXCEPT !.state = "active", !.revived = TRUE]
                    ELSE res[r]]
      BY <2>3 DEF RequestChanges
    <3>2. \A x \in Reservations :
            /\ res'[x] \in Row
            /\ res'[x] = res[x] \/ (res'[x].revived = TRUE /\ res[x].state = "submitted")
      BY <1>0, <3>1 DEF TypeOK, Submitted
    <3>3. {x \in Reservations : res'[x] # NoReservation}
            \in SUBSET {x \in Reservations : res[x] # NoReservation}
      BY <3>2 DEF NoReservation
    <3>4. RowsFinite'
      BY <1>0, <3>3, FS_Subset DEF RowsFinite
    <3>5. \A c \in Creds : Budgeted(c)' \subseteq Budgeted(c)
      BY <3>2 DEF Budgeted, ActiveVia
    <3> QED
      BY <3>1, <3>2, <3>4, <3>5
  <2> QED
    BY <2>1, <2>2, <2>3
<1>2. TypeOK'
  BY <1>0, <1>1 DEF TypeOK
<1>3. \A c \in Creds : Lowered(c)
  BY <1>0, <1>1, FewerLowered
<1> QED
  BY <1>0, <1>1, <1>2, <1>3, BooksMove DEF ruleVars

\* The clock, and the sweep that drops counters of days long past.
LEMMA ClockKeeps ==
    ASSUME IInv, NextDay \/ EvictStaleWorkDayCounters
    PROVE  IInv'
<1>0. TypeOK /\ RowsFinite /\ UNCHANGED <<cred, policy, request, res, granted>>
  BY DEF IInv, NextDay, EvictStaleWorkDayCounters
<1>1. \A k \in [Calendar -> Nat] :
        Evicted(k) \in [Calendar -> Nat] /\ \A d \in Calendar : Evicted(k)[d] <= k[d]
  BY DEF Evicted
<1>2. /\ used' \in [Creds -> [Calendar -> Nat]] /\ spent' \in [Creds -> [Calendar -> Nat]]
      /\ refused' \in [Calendar -> Nat]
      /\ \A c \in Creds, d \in Calendar : used'[c][d] <= used[c][d] /\ spent'[c][d] <= spent[c][d]
  <2>1. CASE NextDay
    BY <1>0, <2>1 DEF NextDay, counterVars, TypeOK
  <2>2. CASE EvictStaleWorkDayCounters
    <3>1. /\ used' = [c \in Creds |-> Evicted(used[c])]
          /\ spent' = [c \in Creds |-> Evicted(spent[c])]
          /\ refused' = Evicted(refused)
      BY <2>2 DEF EvictStaleWorkDayCounters
    <3> QED
      BY <1>0, <1>1, <3>1 DEF TypeOK
  <2> QED
    BY <2>1, <2>2
<1>3. day' \in Calendar
  BY <1>0, DayAssumption DEF TypeOK, Calendar, NextDay, EvictStaleWorkDayCounters
<1>4. TypeOK'
  BY <1>0, <1>2, <1>3 DEF TypeOK
<1>5. RowsFinite' /\ \A c \in Creds : Budgeted(c)' = Budgeted(c)
  BY <1>0 DEF RowsFinite, Budgeted, ActiveVia
<1>6. \A c \in Creds : Lowered(c)
  <2>1. \A c \in Creds : Cardinality(Budgeted(c)) \in Nat
    BY <1>0, ActiveFinite
  <2> QED
    BY <1>2, <1>5, <2>1 DEF Lowered
<1> QED
  BY <1>0, <1>4, <1>5, <1>6, BooksMove DEF ruleVars

-----------------------------------------------------------------------------
(* The theorems.                                                           *)

\* Every step keeps the invariant.
LEMMA WorkStep == IInv /\ [Next]_vars => IInv'
<1> SUFFICES ASSUME IInv, [Next]_vars PROVE IInv'
  OBVIOUS
<1>1. CASE CredentialStep
  BY <1>1, CreateKeeps, PolicyKeeps DEF CredentialStep
<1>2. CASE RequestStep
  BY <1>2, VerifyKeeps, OpenKeeps, EndKeeps, CommitReservationKeeps,
     CommitSubmissionKeeps, CommitSpendKeeps, Zenon DEF RequestStep
<1>3. CASE ElsewhereStep
  BY <1>3, RowsKeep, ClockKeeps DEF ElsewhereStep
<1>4. CASE UNCHANGED vars
  <2>1. UNCHANGED <<policy, request, res, counterVars, day, granted>> /\ cred' = cred
    BY <1>4 DEF vars
  <2>2. TypeOK'
    BY <2>1 DEF IInv, TypeOK, counterVars
  <2> QED
    BY <2>1, <2>2, CredentialsMove
<1> QED
  BY <1>1, <1>2, <1>3, <1>4 DEF Next

\* Every request works within a policy its credential was given, and under the
\* lock on the credential's row.
THEOREM RequestsStayCovered == Spec => []IInv
BY WorkInit, WorkStep, PTL DEF Spec

\* The tables keep their shape, and a task-scoped credential its empty policy.
THEOREM TypeCorrect == Spec => []TypeOK
<1>1. IInv => TypeOK
  BY DEF IInv
<1> QED
  BY <1>1, RequestsStayCovered, PTL

\* However requests race through a credential, no day of it holds more tasks or
\* spending than its most generous policy allows.
THEOREM BudgetsHold == Spec => []WithinGrantedBudget
<1>1. IInv => WithinGrantedBudget
  <2> SUFFICES ASSUME IInv, NEW c \in Creds, NEW d \in Calendar
               PROVE  used[c][d] <= Max(TaskLimits(c)) /\ spent[c][d] <= Max(SpendLimits(c))
    BY DEF WithinGrantedBudget, TaskLimits, SpendLimits
  <2>1. /\ used[c][d] \in Nat /\ spent[c][d] \in Nat /\ WithinAt(c)
        /\ Topped(TaskLimits(c)) /\ Topped(SpendLimits(c))
        /\ TaskLimits(c) \in SUBSET Nat /\ SpendLimits(c) \in SUBSET Nat
    BY LimitsAreNumbers DEF IInv, TypeOK, BookedWithin, LimitsTopped
  <2>2. PICK x \in TaskLimits(c) : used[c][d] <= x
    BY <2>1 DEF WithinAt, TaskLimits
  <2>3. PICK y \in SpendLimits(c) : spent[c][d] <= y
    BY <2>1 DEF WithinAt, SpendLimits
  <2>4. x <= Max(TaskLimits(c)) /\ Max(TaskLimits(c)) \in TaskLimits(c)
    BY <2>1, <2>2, MaxBounds DEF Max, Topped
  <2>5. y <= Max(SpendLimits(c)) /\ Max(SpendLimits(c)) \in SpendLimits(c)
    BY <2>1, <2>3, MaxBounds DEF Max, Topped
  <2> QED
    BY <2>1, <2>2, <2>3, <2>4, <2>5
<1> QED
  BY <1>1, RequestsStayCovered, PTL

\* A credential has more active reservations than every cap it was given only
\* by those a request for changes put back.
THEOREM CapsHold == Spec => []CapExceededOnlyByChanges
<1>1. IInv => CapExceededOnlyByChanges
  <2> SUFFICES ASSUME IInv, NEW c \in Creds, \A p \in granted[c] : p.cap # None
               PROVE  Cardinality(Budgeted(c)) <= Max({0} \cup {p.cap : p \in granted[c]})
    BY DEF CapExceededOnlyByChanges, Budgeted
  <2>1. {0} \cup {p.cap : p \in granted[c]} = CapLimits(c)
    BY DEF CapLimits
  <2>2. /\ Cardinality(Budgeted(c)) \in Nat /\ WithinAt(c)
        /\ Topped(CapLimits(c)) /\ CapLimits(c) \in SUBSET Nat
    BY LimitsAreNumbers, ActiveFinite DEF IInv, BookedWithin, LimitsTopped
  <2>3. PICK x \in CapLimits(c) : Cardinality(Budgeted(c)) <= x
    BY <2>2 DEF WithinAt, CapLimits
  <2>4. x <= Max(CapLimits(c)) /\ Max(CapLimits(c)) \in CapLimits(c)
    BY <2>2, <2>3, MaxBounds DEF Max, Topped
  <2> QED
    BY <2>1, <2>2, <2>3, <2>4
<1> QED
  BY <1>1, RequestsStayCovered, PTL

\* A policy that is set again binds all that is charged, once the requests it
\* overtook are over.
THEOREM PolicyTakesHold == Spec => PolicyChangeTakesHold
<1>1. IInv /\ [Next]_vars =>
        [\A c \in Creds, d \in Calendar :
           /\ \A q \in InFlight(c) : ~request[q].outdated
           /\ used'[c][d] > used[c][d]
           => used'[c][d] <= policy[c].tasks]_vars
  <2> SUFFICES ASSUME IInv, Next, NEW c \in Creds, NEW d \in Calendar,
                      \A q \in InFlight(c) : ~request[q].outdated,
                      used'[c][d] > used[c][d]
               PROVE  used'[c][d] <= policy[c].tasks
    BY Zenon
  <2>1. TypeOK /\ used[c][d] \in Nat
    BY DEF IInv, TypeOK
  <2>2. used' # used
    BY <2>1
  <2>3. ASSUME EvictStaleWorkDayCounters PROVE FALSE
    <3>1. used' = [x \in Creds |-> Evicted(used[x])]
      BY <2>3 DEF EvictStaleWorkDayCounters
    <3>2. used'[c][d] = IF d < day - Retention THEN 0 ELSE used[c][d]
      BY <3>1 DEF Evicted
    <3> QED
      BY <2>1, <3>2
  <2>4. PICK q \in Requests : /\ used' = Booked(used, q)
                              /\ request[q].step = "charged"
                              /\ request[q].op \in {"reserve", "submit"}
    <3>1. CASE CredentialStep
      BY <2>2, <3>1 DEF CredentialStep, CreateCredential, IssueTaskWorkerCredential,
         RevokeCredential, CredentialExpires, UpdateWorkPolicy, counterVars
    <3>2. CASE RequestStep
      BY <2>2, <3>2 DEF RequestStep, VerifyCredential, ReserveTask, SubmitDirectly,
         SpendCredits, SpendUncharged, RefuseOverBudget, SubmitReserved, CommitReservation,
         CommitSubmission, CommitSpend, Rollback, counterVars
    <3>3. CASE ElsewhereStep
      BY <2>2, <2>3, <3>3 DEF ElsewhereStep, ReserveInPerson, ReservationEnds,
         RequestChanges, NextDay, counterVars
    <3> QED
      BY <3>1, <3>2, <3>3 DEF Next
  <2>5. /\ request[q].cred \in Creds /\ Authorized(request[q]) /\ Fits(request[q])
    BY <2>4, ChargedFacts
  <2>6. used'[c][d] = IF c = request[q].cred /\ d = request[q].day
                      THEN used[c][d] + request[q].amount ELSE used[c][d]
    <3>1. used \in [Creds -> [Calendar -> Nat]]
      BY <2>1 DEF TypeOK
    <3>2. Booked(used, q)[c][d] = IF c = request[q].cred /\ d = request[q].day
                                  THEN used[c][d] + request[q].amount ELSE used[c][d]
      BY <2>1, <2>5, <3>1, BookedCounter
    <3> QED
      BY <2>4, <3>2
  <2>7. c = request[q].cred /\ d = request[q].day
    BY <2>1, <2>6
  <2>8. q \in InFlight(c)
    BY <2>4, <2>7 DEF InFlight
  <2>9. request[q].policy = policy[c]
    BY <2>4, <2>5, <2>7, <2>8 DEF Authorized, InPlay
  <2>10. request[q].amount = 1 /\ used[c][d] + 1 <= policy[c].tasks
    BY <2>4, <2>5, <2>7, <2>9 DEF Fits
  <2> QED
    BY <2>6, <2>7, <2>10
<1> QED
  BY <1>1, RequestsStayCovered, PTL DEF Spec, PolicyChangeTakesHold
=============================================================================
