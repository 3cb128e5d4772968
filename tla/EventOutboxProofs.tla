------------------------- MODULE EventOutboxProofs -------------------------
(* What the outbox guarantees for any number of handlers, replicas, users   *)
(* and events: no reader is skipped, a dispatched event reached everyone,   *)
(* a settled row stays settled, and the attempt cap.                        *)
EXTENDS EventOutbox, FiniteSetTheorems, WellFoundedInduction, TLAPS

\* Every non-empty set of events has a first one, which Recorder.Dispatch
\* takes next.
LEMMA FirstOf ==
    ASSUME NEW S \in SUBSET Seqs, S # {}
    PROVE  First(S) \in S
<1>1. IsWellFoundedOn(OpToRel(<, Nat), Nat)
  BY NatLessThanWellFounded
<1>2. S \subseteq Nat
  BY BoundsAssumption DEF Seqs
<1>3. PICK n \in S : \A m \in S : ~(<<m, n>> \in OpToRel(<, Nat))
  BY <1>1, <1>2, WFMin
<1>4. \A m \in S : ~(m < n)
  BY <1>2, <1>3 DEF OpToRel
<1>5. \A m \in S : n <= m
  BY <1>2, <1>4
<1> QED
  BY <1>5 DEF First

\* A new job works on exactly the events it is given, the first one's legs
\* still open.
LEMMA JobOf ==
    ASSUME TypeOK, NEW S \in SUBSET Seqs
    PROVE  /\ Job(S) \in JobSet
           /\ Job(S).todo = S
           /\ Job(S).stage = "working" <=> S # {}
           /\ Job(S).stage # "retired"
           /\ S # {} => Job(S).left = shape[First(S)].notify
<1>1. CASE S = {}
  BY <1>1 DEF Job, Idle, JobSet
<1>2. CASE S # {}
  <2>1. First(S) \in Seqs
    BY <1>2, FirstOf
  <2>2. shape[First(S)].notify \in SUBSET Users
    BY <2>1, ShapesAssumption DEF TypeOK, Unaddressed
  <2> QED
    BY <1>2, <2>2 DEF Job, JobSet
<1> QED
  BY <1>1, <1>2

LEMMA TypeInit == Init => TypeOK
BY BoundsAssumption DEF Init, TypeOK, Seqs, DispatchStates, Idle, JobSet, Unaddressed

LEMMA RecordType ==
    ASSUME TypeOK, NEW x \in Txs, NEW s \in Shapes, Record(x, s)
    PROVE  TypeOK'
<1>1. seq + 1 \in Seqs
  BY BoundsAssumption DEF TypeOK, Record, Seqs
<1>2. /\ seq' \in 0..MaxSeq
      /\ pending' \in [Txs -> SUBSET Seqs]
      /\ shape' \in [Seqs -> Shapes \cup {Unaddressed}]
      /\ fence' \in Txs \cup {None}
  BY <1>1 DEF TypeOK, Record, Seqs
<1> QED
  BY <1>2 DEF TypeOK, Record, rowVars, effectVars, feedVars

LEMMA CommitType ==
    ASSUME TypeOK, NEW x \in Txs, Commit(x)
    PROVE  TypeOK'
<1>1. pending[x] \in SUBSET Seqs
  BY DEF TypeOK
<1>2. /\ job' \in [Dispatchers -> JobSet]
      /\ \A d \in Dispatchers : job'[d].stage = "working" <=> job'[d].todo # {}
  BY <1>1, JobOf DEF TypeOK, Commit, Dispatchers
<1>3. dispatch' \in [Seqs -> DispatchStates]
  BY DEF TypeOK, Commit, DispatchStates
<1> QED
  BY <1>2, <1>3 DEF TypeOK, Commit, effectVars, feedVars

LEMMA SweepType ==
    ASSUME TypeOK, SweepStep
    PROVE  TypeOK'
<1>1. ASSUME NEW n \in Seqs, Age(n) PROVE TypeOK'
  BY <1>1 DEF TypeOK, Age, txVars, rowVars, effectVars, feedVars
<1>2. ASSUME NEW w \in Sweepers, Retire(w) PROVE TypeOK'
  <2>1. /\ job' \in [Dispatchers -> JobSet]
        /\ \A d \in Dispatchers : job'[d].stage = "working" <=> job'[d].todo # {}
    BY <1>2 DEF TypeOK, Retire, Dispatchers, Retired, Idle, JobSet
  <2>2. dispatch' \in [Seqs -> DispatchStates]
    BY <1>2 DEF TypeOK, Retire, DispatchStates, Settled
  <2> QED
    BY <1>2, <2>1, <2>2 DEF TypeOK, Retire, txVars, effectVars, feedVars
<1>3. ASSUME NEW w \in Sweepers, NEW readable \in SUBSET Claimable, Claim(w, readable)
      PROVE  TypeOK'
  <2>1. readable \in SUBSET Seqs
    BY DEF Claimable, Due
  <2>2. /\ job' \in [Dispatchers -> JobSet]
        /\ \A d \in Dispatchers : job'[d].stage = "working" <=> job'[d].todo # {}
    BY <1>3, <2>1, JobOf DEF TypeOK, Claim, Dispatchers
  <2>3. attempts' \in [Seqs -> Nat]
    BY <1>3 DEF TypeOK, Claim, CountClaimed
  <2> QED
    BY <1>3, <2>2, <2>3 DEF TypeOK, Claim, txVars, effectVars, feedVars
<1> QED
  BY <1>1, <1>2, <1>3 DEF SweepStep

LEMMA DispatchType ==
    ASSUME TypeOK, DispatchStep
    PROVE  TypeOK'
<1>1. ASSUME NEW d \in Dispatchers, NEW u \in Users, NEW done \in BOOLEAN,
             Notify(d, u, done)
      PROVE  TypeOK'
  <2>1. /\ job[d] \in JobSet
        /\ job[d].todo # {}
    BY <1>1 DEF TypeOK, Notify
  <2>2. First(job[d].todo) \in Seqs
    BY <2>1, FirstOf DEF JobSet
  <2>3. inbox' \subseteq Seqs \X Users
    BY <1>1, <2>2 DEF TypeOK, Notify
  <2>4. (job[d].ok /\ done) \in BOOLEAN
    OBVIOUS
  <2>5. job' = [job EXCEPT ![d] = [@ EXCEPT !.left = job[d].left \ {u},
                                            !.ok = (job[d].ok /\ done)]]
    BY <1>1, <2>1 DEF Notify, TypeOK, JobSet
  <2>6. [job[d] EXCEPT !.left = job[d].left \ {u}, !.ok = (job[d].ok /\ done)] \in JobSet
    BY <2>1, <2>4 DEF JobSet
  <2>7. /\ job' \in [Dispatchers -> JobSet]
        /\ \A e \in Dispatchers : job'[e].stage = job[e].stage /\ job'[e].todo = job[e].todo
    BY <2>1, <2>5, <2>6 DEF TypeOK, JobSet
  <2> QED
    BY <1>1, <2>3, <2>7 DEF TypeOK, Notify, txVars, rowVars, feedVars
<1>2. ASSUME NEW d \in Dispatchers, NEW stored \in BOOLEAN, Dispatch(d, stored)
      PROVE  TypeOK'
  <2> DEFINE n == First(job[d].todo)
  <2>1. /\ job[d] \in JobSet
        /\ job[d].todo # {}
        /\ job[d].todo \in SUBSET Seqs
    BY <1>2 DEF TypeOK, Dispatch, JobSet
  <2>2. n \in Seqs
    BY <2>1, FirstOf
  <2>3. /\ job' \in [Dispatchers -> JobSet]
        /\ \A e \in Dispatchers : job'[e].stage = "working" <=> job'[e].todo # {}
    <3>1. job' = [job EXCEPT ![d] = Job(job[d].todo \ {n})]
      BY <1>2 DEF Dispatch
    <3>2. job[d].todo \ {n} \in SUBSET Seqs
      BY <2>1
    <3> QED
      BY <3>1, <3>2, JobOf DEF TypeOK
  <2>4. expanded' \subseteq Seqs
    BY <1>2, <2>2 DEF TypeOK, Dispatch
  <2>5. dispatch' \in [Seqs -> DispatchStates]
    BY <1>2, <2>2 DEF TypeOK, Dispatch, DispatchStates, Settled
  <2> QED
    BY <1>2, <2>3, <2>4, <2>5 DEF TypeOK, Dispatch, txVars, feedVars
<1>3. ASSUME NEW d \in Dispatchers, Crash(d) PROVE TypeOK'
  <2>1. /\ job' \in [Dispatchers -> JobSet]
        /\ \A e \in Dispatchers : job'[e].stage = "working" <=> job'[e].todo # {}
    BY <1>3 DEF TypeOK, Crash, Idle, JobSet
  <2> QED
    BY <1>3, <2>1 DEF TypeOK, Crash, txVars, rowVars, effectVars, feedVars
<1> QED
  BY <1>1, <1>2, <1>3 DEF DispatchStep

LEMMA ReadType ==
    ASSUME TypeOK, NEW u \in Users, NEW n \in Seqs, Read(u, n)
    PROVE  TypeOK'
<1>1. seen' \in [Users -> SUBSET Seqs]
  BY DEF TypeOK, Read, Unread, Committed
<1>2. cursor' \in [Users -> 0..MaxSeq]
  BY BoundsAssumption DEF TypeOK, Read, CursorAt, Seqs
<1> QED
  BY <1>1, <1>2 DEF TypeOK, Read, txVars, rowVars, effectVars

\* Rows, jobs and cursors keep their shape whatever is interrupted.
THEOREM OutboxTypeCorrect == Spec => []TypeOK
<1>1. ASSUME TypeOK, [Next]_vars PROVE TypeOK'
  <2>1. CASE RecordStep
    <3>1. ASSUME NEW x \in Txs, Rollback(x) PROVE TypeOK'
      BY <1>1, <3>1 DEF TypeOK, Rollback, rowVars, effectVars, feedVars
    <3> QED
      BY <1>1, <2>1, <3>1, RecordType, CommitType DEF RecordStep
  <2>2. CASE UNCHANGED vars
    BY <1>1, <2>2 DEF TypeOK, vars, txVars, rowVars, effectVars, feedVars
  <2> QED
    BY <1>1, <2>1, <2>2, SweepType, DispatchType, ReadType DEF Next, FeedStep
<1> QED
  BY <1>1, TypeInit, PTL DEF Spec

-----------------------------------------------------------------------------
(* No reader is skipped: only the fence holder has uncommitted events, and  *)
(* they are newer than all committed ones, so newer than every cursor.      *)

Fenced ==
    /\ \A x \in Txs : pending[x] # {} => fence = x
    /\ \A x \in Txs : \A n \in pending[x] : n <= seq /\ \A m \in Committed : m < n

Served ==
    /\ \A n \in Committed : n <= seq
    /\ \A u \in Users : cursor[u] = 0 \/ cursor[u] \in Committed

Feed == Fenced /\ Served /\ FeedNeverSkips

LEMMA FeedRecord ==
    ASSUME TypeOK, Feed, NEW x \in Txs, NEW s \in Shapes, Record(x, s)
    PROVE  Feed'
<1>1. Committed' = Committed
  BY DEF Record, rowVars, Committed
<1>2. \A n \in Committed : n <= seq /\ n # seq + 1 /\ shape'[n] = shape[n]
  BY DEF Feed, Served, Record, Committed, TypeOK, Seqs
<1>3. Fenced'
  <2>1. \A y \in Txs : y # x => pending[y] = {}
    BY PartiesAssumption DEF Feed, Fenced, Record, FenceFree
  <2>2. /\ \A y \in Txs : y # x => pending'[y] = {}
        /\ pending'[x] = pending[x] \cup {seq + 1}
        /\ fence' = x
        /\ seq' = seq + 1
    BY <2>1 DEF Record, TypeOK
  <2>3. \A n \in pending[x] \cup {seq + 1} : n <= seq + 1 /\ \A m \in Committed : m < n
    <3>1. seq \in Int /\ \A m \in Committed : m \in Int
      BY DEF TypeOK, Committed, Seqs
    <3>2. \A n \in pending[x] : n \in Int /\ n <= seq /\ \A m \in Committed : m < n
      BY DEF Feed, Fenced, TypeOK, Seqs
    <3> QED
      BY <1>2, <3>1, <3>2
  <2> QED
    BY <1>1, <2>2, <2>3 DEF Fenced
<1>4. Served'
  <2>1. seq \in Int /\ seq' = seq + 1 /\ cursor' = cursor
    BY DEF TypeOK, Record, feedVars
  <2>2. \A n \in Committed : n \in Int
    BY DEF Committed, Seqs
  <2>3. \A n \in Committed : n <= seq + 1
    BY <1>2, <2>1, <2>2
  <2> QED
    BY <1>1, <2>1, <2>3 DEF Feed, Served
<1>5. FeedNeverSkips'
  BY <1>1, <1>2 DEF Feed, FeedNeverSkips, Record, feedVars
<1> QED
  BY <1>3, <1>4, <1>5 DEF Feed

LEMMA FeedCommit ==
    ASSUME TypeOK, Feed, NEW x \in Txs, Commit(x)
    PROVE  Feed'
<1>1. Committed' = Committed \cup pending[x]
  BY DEF Commit, Committed, TypeOK
<1>2. \A y \in Txs : pending'[y] = {}
  BY DEF Feed, Fenced, Commit, TypeOK
<1>3. \A n \in pending[x] : n <= seq /\ \A u \in Users : cursor[u] < n
  BY DEF Feed, Fenced, Served, TypeOK, Seqs
<1>4. /\ seq' = seq /\ shape' = shape /\ cursor' = cursor /\ seen' = seen
  BY DEF Commit, feedVars
<1>5. FeedNeverSkips'
  BY <1>1, <1>3, <1>4 DEF Feed, FeedNeverSkips, TypeOK, Seqs
<1> QED
  BY <1>1, <1>2, <1>3, <1>4, <1>5 DEF Feed, Fenced, Served

\* Steps that neither record, commit nor read do not matter to the feed.
LEMMA FeedUnchanged ==
    ASSUME Feed, UNCHANGED feedVars, UNCHANGED txVars, Committed' = Committed
    PROVE  Feed'
BY DEF Feed, Fenced, Served, FeedNeverSkips, feedVars, txVars

LEMMA FeedRead ==
    ASSUME TypeOK, Feed, NEW u \in Users, NEW n \in Seqs, Read(u, n)
    PROVE  Feed'
<1>1. Committed' = Committed /\ UNCHANGED txVars
  BY DEF Read, rowVars, Committed
<1>2. Fenced' /\ Served'
  BY <1>1 DEF Feed, Fenced, Served, Read, txVars, Unread, CursorAt, TypeOK
<1>3. ASSUME NEW v \in Users, NEW m \in Committed, v \in shape[m].to, m <= cursor'[v]
      PROVE  m \in seen'[v]
  <2>1. CASE v # u
    BY <1>3, <2>1 DEF Read, TypeOK, Feed, FeedNeverSkips
  <2>2. CASE v = u /\ m <= cursor[u]
    BY <1>3, <2>2 DEF Read, TypeOK, Feed, FeedNeverSkips
  <2>3. CASE v = u /\ ~(m <= cursor[u])
    <3>1. cursor[u] \in Int /\ m \in Int
      BY DEF TypeOK, Committed, Seqs
    <3>2. m \in Unread(u) /\ m <= n
      BY <1>3, <2>3, <3>1 DEF Read, Unread, CursorAt, TypeOK
    <3> QED
      BY <2>3, <3>2 DEF Read, TypeOK
  <2> QED
    BY <2>1, <2>2, <2>3
<1> QED
  BY <1>1, <1>2, <1>3 DEF Feed, FeedNeverSkips, txVars

\* Sweeps and dispatches change the state of rows that stay committed.
LEMMA CommittedKept ==
    ASSUME TypeOK, SweepStep \/ DispatchStep
    PROVE  Committed' = Committed /\ UNCHANGED <<txVars, feedVars>>
<1>1. ASSUME NEW n \in Seqs, Age(n) PROVE Committed' = Committed /\ UNCHANGED <<txVars, feedVars>>
  BY <1>1 DEF Age, rowVars, Committed
<1>2. ASSUME NEW w \in Sweepers, Retire(w) PROVE Committed' = Committed /\ UNCHANGED <<txVars, feedVars>>
  BY <1>2 DEF Retire, Exhausted, Due, Committed
<1>3. ASSUME NEW w \in Sweepers, NEW readable \in SUBSET Claimable, Claim(w, readable)
      PROVE  Committed' = Committed /\ UNCHANGED <<txVars, feedVars>>
  BY <1>3 DEF Claim, Committed
<1>4. ASSUME NEW d \in Dispatchers, NEW u \in Users, NEW done \in BOOLEAN, Notify(d, u, done)
      PROVE  Committed' = Committed /\ UNCHANGED <<txVars, feedVars>>
  BY <1>4 DEF Notify, rowVars, Committed
<1>5. ASSUME NEW d \in Dispatchers, NEW stored \in BOOLEAN, Dispatch(d, stored)
      PROVE  Committed' = Committed /\ UNCHANGED <<txVars, feedVars>>
  BY <1>5 DEF Dispatch, Dispatchable, Committed, TypeOK
<1>6. ASSUME NEW d \in Dispatchers, Crash(d) PROVE Committed' = Committed /\ UNCHANGED <<txVars, feedVars>>
  BY <1>6 DEF Crash, rowVars, Committed
<1> QED
  BY <1>1, <1>2, <1>3, <1>4, <1>5, <1>6 DEF SweepStep, DispatchStep

LEMMA FeedStepwise ==
    ASSUME TypeOK, Feed, [Next]_vars
    PROVE  Feed'
<1>1. CASE RecordStep
  <2>1. ASSUME NEW x \in Txs, Rollback(x) PROVE Feed'
    <3>1. /\ Committed' = Committed
          /\ \A y \in Txs : pending'[y] = {}
          /\ seq' = seq /\ shape' = shape /\ UNCHANGED feedVars
      BY <2>1 DEF Rollback, Feed, Fenced, TypeOK, rowVars, Committed
    <3> QED
      BY <3>1 DEF Feed, Fenced, Served, FeedNeverSkips, feedVars
  <2> QED
    BY <1>1, <2>1, FeedRecord, FeedCommit DEF RecordStep
<1>2. CASE UNCHANGED vars
  <2>1. Committed' = Committed /\ UNCHANGED feedVars /\ UNCHANGED txVars
    BY <1>2 DEF vars, rowVars, Committed
  <2> QED
    BY <2>1, FeedUnchanged
<1>3. CASE SweepStep \/ DispatchStep
  BY <1>3, CommittedKept, FeedUnchanged
<1>4. CASE FeedStep
  BY <1>4, FeedRead DEF FeedStep
<1> QED
  BY <1>1, <1>2, <1>3, <1>4 DEF Next

\* The fence makes commit order the order of seq, so a cursor that resumes
\* after what it was served never misses a slower transaction's event.
THEOREM NoEventSkipped == Spec => []FeedNeverSkips
<1>1. Init => Feed
  BY DEF Init, Feed, Fenced, Served, FeedNeverSkips, Committed
<1>2. TypeOK /\ Feed /\ [Next]_vars => Feed'
  BY FeedStepwise
<1>3. Feed => FeedNeverSkips
  BY DEF Feed
<1> QED
  BY <1>1, <1>2, <1>3, OutboxTypeCorrect, PTL DEF Spec

-----------------------------------------------------------------------------
(* A dispatched event reached everyone: a job that may flip its event has   *)
(* filled the inboxes of all recipients it no longer has left.              *)

Working ==
    \A d \in Dispatchers : job[d].stage = "working" =>
      /\ job[d].todo \subseteq Committed
      /\ job[d].ok => \A u \in shape[First(job[d].todo)].notify \ job[d].left :
                        <<First(job[d].todo), u>> \in inbox

Reached == Working /\ DispatchedReachedAll

\* A fresh job has all the legs of its first event to go.
LEMMA FreshJob ==
    ASSUME TypeOK, NEW S \in SUBSET Seqs, Job(S).stage = "working"
    PROVE  Job(S).todo = S /\ shape[First(Job(S).todo)].notify \ Job(S).left = {}
BY JobOf

\* The inbox grows, committed rows keep their addressing.
LEMMA OtherJobs ==
    ASSUME TypeOK, Working, NEW d \in Dispatchers, job'[d] = job[d],
           Committed \subseteq Committed', inbox \subseteq inbox',
           \A n \in Committed : shape'[n] = shape[n],
           job[d].stage = "working"
    PROVE  /\ job'[d].todo \subseteq Committed'
           /\ job'[d].ok => \A u \in shape'[First(job'[d].todo)].notify \ job'[d].left :
                              <<First(job'[d].todo), u>> \in inbox'
<1>1. job[d].todo \in SUBSET Seqs /\ job[d].todo # {}
  BY DEF TypeOK, JobSet
<1>2. First(job[d].todo) \in Committed
  BY <1>1, FirstOf DEF Working
<1> QED
  BY <1>2 DEF Working

LEMMA ReachedRecord ==
    ASSUME TypeOK, Feed, Reached, RecordStep
    PROVE  Reached'
<1>1. ASSUME NEW x \in Txs, NEW s \in Shapes, Record(x, s) PROVE Reached'
  <2>1. \A n \in Committed : shape'[n] = shape[n]
    BY <1>1 DEF Feed, Served, Record, Committed, TypeOK, Seqs
  <2>2. Committed' = Committed /\ inbox' = inbox /\ job' = job /\ expanded' = expanded
        /\ dispatch' = dispatch
    BY <1>1 DEF Record, rowVars, effectVars, Committed
  <2>3. Working'
    BY <2>1, <2>2, OtherJobs DEF Working, Reached
  <2> QED
    BY <2>1, <2>2, <2>3 DEF Reached, DispatchedReachedAll, Committed
<1>2. ASSUME NEW x \in Txs, Commit(x) PROVE Reached'
  <2>1. Committed' = Committed \cup pending[x] /\ shape' = shape /\ inbox' = inbox
        /\ expanded' = expanded
    BY <1>2 DEF Commit, Committed, TypeOK, effectVars
  <2>2. pending[x] \in SUBSET Seqs
    BY DEF TypeOK
  <2>3. job'[x] = Job(pending[x]) /\ \A d \in Dispatchers : d # x => job'[d] = job[d]
    BY <1>2 DEF Commit, TypeOK, Dispatchers
  <2>4. Working'
    <3>1. ASSUME job'[x].stage = "working"
          PROVE  /\ job'[x].todo \subseteq Committed'
                 /\ shape[First(job'[x].todo)].notify \ job'[x].left = {}
      BY <2>1, <2>2, <2>3, <3>1, FreshJob
    <3>2. ASSUME NEW d \in Dispatchers, d # x, job'[d].stage = "working"
          PROVE  /\ job'[d].todo \subseteq Committed'
                 /\ job'[d].ok => \A u \in shape'[First(job'[d].todo)].notify \ job'[d].left :
                                    <<First(job'[d].todo), u>> \in inbox'
      BY <2>1, <2>3, <3>2, OtherJobs DEF Reached
    <3> QED
      BY <2>1, <3>1, <3>2 DEF Working
  <2>5. DispatchedReachedAll'
    BY <1>2, <2>1 DEF Reached, DispatchedReachedAll, Commit, TypeOK
  <2> QED
    BY <2>4, <2>5 DEF Reached
<1>3. ASSUME NEW x \in Txs, Rollback(x) PROVE Reached'
  <2>1. UNCHANGED <<shape, dispatch, inbox, expanded, job>> /\ Committed' = Committed
    BY <1>3 DEF Rollback, rowVars, effectVars, Committed
  <2> QED
    BY <2>1 DEF Reached, Working, DispatchedReachedAll
<1> QED
  BY <1>1, <1>2, <1>3 DEF RecordStep

LEMMA ReachedSweep ==
    ASSUME TypeOK, Reached, SweepStep
    PROVE  Reached'
<1>0. Committed' = Committed /\ shape' = shape /\ inbox' = inbox /\ expanded' = expanded
  BY CommittedKept DEF txVars, SweepStep, Age, Retire, Claim, effectVars
<1>1. ASSUME NEW n \in Seqs, Age(n) PROVE Reached'
  BY <1>0, <1>1 DEF Reached, Working, DispatchedReachedAll, Age, rowVars
<1>2. ASSUME NEW w \in Sweepers, Retire(w) PROVE Reached'
  <2>1. /\ job'[w].stage = "retired"
        /\ \A d \in Dispatchers : d # w => job'[d] = job[d]
    BY <1>2 DEF Retire, Retired, Idle, TypeOK, Dispatchers
  <2>2. Working'
    BY <1>0, <2>1, OtherJobs DEF Working, Reached
  <2>3. \A n \in Seqs : dispatch'[n] = "dispatched" => dispatch[n] = "dispatched"
    BY <1>2 DEF Retire, TypeOK
  <2> QED
    BY <1>0, <2>2, <2>3 DEF Reached, DispatchedReachedAll
<1>3. ASSUME NEW w \in Sweepers, NEW readable \in SUBSET Claimable, Claim(w, readable)
      PROVE  Reached'
  <2>1. readable \in SUBSET Seqs /\ readable \subseteq Committed
    BY DEF Claimable, Due, Committed
  <2>2. /\ job'[w] = Job(readable)
        /\ \A d \in Dispatchers : d # w => job'[d] = job[d]
    BY <1>3 DEF Claim, TypeOK, Dispatchers
  <2>3. Working'
    <3>1. ASSUME job'[w].stage = "working"
          PROVE  /\ job'[w].todo \subseteq Committed'
                 /\ shape[First(job'[w].todo)].notify \ job'[w].left = {}
      BY <1>0, <2>1, <2>2, <3>1, FreshJob
    <3>2. ASSUME NEW d \in Dispatchers, d # w, job'[d].stage = "working"
          PROVE  /\ job'[d].todo \subseteq Committed'
                 /\ job'[d].ok => \A u \in shape'[First(job'[d].todo)].notify \ job'[d].left :
                                    <<First(job'[d].todo), u>> \in inbox'
      BY <1>0, <2>2, <3>2, OtherJobs DEF Reached
    <3> QED
      BY <1>0, <3>1, <3>2 DEF Working
  <2> QED
    BY <1>0, <1>3, <2>3 DEF Reached, DispatchedReachedAll, Claim
<1> QED
  BY <1>1, <1>2, <1>3 DEF SweepStep

LEMMA ReachedNotify ==
    ASSUME TypeOK, Reached, NEW d \in Dispatchers, NEW u \in Users,
           NEW done \in BOOLEAN, Notify(d, u, done)
    PROVE  Reached'
<1> DEFINE n == First(job[d].todo)
<1>1. UNCHANGED <<shape, dispatch, expanded>> /\ Committed' = Committed
      /\ inbox \subseteq inbox' /\ (done => <<n, u>> \in inbox')
  BY DEF Notify, txVars, rowVars, Committed
<1>2. job[d] \in JobSet /\ job[d].stage = "working"
  BY DEF TypeOK, Notify
<1>3. /\ job'[d].todo = job[d].todo
      /\ job'[d].left = job[d].left \ {u}
      /\ job'[d].ok <=> job[d].ok /\ done
      /\ \A e \in Dispatchers : e # d => job'[e] = job[e]
  BY <1>2 DEF Notify, TypeOK, JobSet
<1>4. Working'
  <2>1. ASSUME NEW e \in Dispatchers, e # d, job'[e].stage = "working"
        PROVE  /\ job'[e].todo \subseteq Committed'
               /\ job'[e].ok => \A v \in shape'[First(job'[e].todo)].notify \ job'[e].left :
                                  <<First(job'[e].todo), v>> \in inbox'
    BY <1>1, <1>3, <2>1, OtherJobs DEF Reached
  <2>2. job'[d].todo \subseteq Committed'
    BY <1>1, <1>2, <1>3 DEF Reached, Working
  <2>3. ASSUME job'[d].ok, NEW v \in shape[n].notify \ (job[d].left \ {u})
        PROVE  <<n, v>> \in inbox'
    <3>1. CASE v = u
      BY <1>1, <1>3, <2>3, <3>1
    <3>2. CASE v # u
      BY <1>1, <1>2, <1>3, <2>3, <3>2 DEF Reached, Working
    <3> QED
      BY <3>1, <3>2
  <2> QED
    BY <1>1, <1>3, <2>1, <2>2, <2>3 DEF Working
<1>5. DispatchedReachedAll'
  BY <1>1 DEF Reached, DispatchedReachedAll
<1> QED
  BY <1>4, <1>5 DEF Reached

LEMMA ReachedDispatch ==
    ASSUME TypeOK, Reached, NEW d \in Dispatchers, NEW stored \in BOOLEAN,
           Dispatch(d, stored)
    PROVE  Reached'
<1> DEFINE n == First(job[d].todo)
           rest == job[d].todo \ {n}
<1>0. DispatchStep
  BY DEF DispatchStep
<1>1. /\ Committed' = Committed /\ UNCHANGED <<shape, inbox>>
  BY <1>0, CommittedKept DEF Dispatch, txVars
<1>2. /\ job[d].stage = "working" /\ job[d].left = {}
      /\ job[d].todo \in SUBSET Seqs /\ job[d].todo # {}
      /\ job[d].todo \subseteq Committed
  BY DEF TypeOK, JobSet, Dispatch, Reached, Working
<1>3. n \in Seqs
  BY <1>2, FirstOf
<1>4. /\ job'[d] = Job(rest)
      /\ \A e \in Dispatchers : e # d => job'[e] = job[e]
  BY DEF Dispatch, TypeOK
<1>5. Working'
  <2>1. ASSUME NEW e \in Dispatchers, e # d, job'[e].stage = "working"
        PROVE  /\ job'[e].todo \subseteq Committed'
               /\ job'[e].ok => \A v \in shape'[First(job'[e].todo)].notify \ job'[e].left :
                                  <<First(job'[e].todo), v>> \in inbox'
    BY <1>1, <1>4, <2>1, OtherJobs DEF Reached
  <2>2. ASSUME job'[d].stage = "working"
        PROVE  /\ job'[d].todo \subseteq Committed'
               /\ shape[First(job'[d].todo)].notify \ job'[d].left = {}
    <3>1. rest \in SUBSET Seqs /\ rest \subseteq Committed
      BY <1>2
    <3> HIDE DEF rest
    <3> QED
      BY <1>1, <1>4, <2>2, <3>1, FreshJob
  <2> QED
    BY <1>1, <2>1, <2>2 DEF Working
<1>6. DispatchedReachedAll'
  <2>1. CASE LegsDone(d) /\ stored /\ Dispatchable(n)
    <3>1. /\ expanded' = expanded \cup {n}
          /\ dispatch' = [dispatch EXCEPT ![n] = "dispatched"]
      BY <2>1 DEF Dispatch
    <3>2. \A u \in shape[n].notify : <<n, u>> \in inbox
      BY <1>2, <2>1 DEF LegsDone, Reached, Working
    <3> QED
      BY <1>1, <1>3, <3>1, <3>2 DEF Reached, DispatchedReachedAll, TypeOK
  <2>2. CASE ~(LegsDone(d) /\ stored /\ Dispatchable(n))
    <3>1. expanded' = expanded /\ dispatch' = dispatch
      BY <2>2 DEF Dispatch
    <3> QED
      BY <1>1, <3>1 DEF Reached, DispatchedReachedAll
  <2> QED
    BY <2>1, <2>2
<1> QED
  BY <1>5, <1>6 DEF Reached

LEMMA ReachedStepwise ==
    ASSUME TypeOK, Feed, Reached, [Next]_vars
    PROVE  Reached'
<1>1. ASSUME NEW d \in Dispatchers, Crash(d) PROVE Reached'
  <2>1. UNCHANGED <<shape, dispatch, inbox, expanded>> /\ Committed' = Committed
    BY <1>1 DEF Crash, txVars, rowVars, effectVars, Committed
  <2>2. /\ job'[d].stage = "idle"
        /\ \A e \in Dispatchers : e # d => job'[e] = job[e]
    BY <1>1 DEF Crash, Idle, TypeOK
  <2>3. Working'
    BY <2>1, <2>2, OtherJobs DEF Working, Reached
  <2> QED
    BY <2>1, <2>3 DEF Reached, DispatchedReachedAll
<1>2. CASE UNCHANGED vars \/ FeedStep
  <2>1. UNCHANGED <<shape, dispatch, inbox, expanded, job>> /\ Committed' = Committed
    BY <1>2 DEF vars, txVars, rowVars, effectVars, FeedStep, Read, Committed
  <2> QED
    BY <2>1 DEF Reached, Working, DispatchedReachedAll
<1>3. CASE DispatchStep
  BY <1>1, <1>3, ReachedNotify, ReachedDispatch DEF DispatchStep
<1> QED
  BY <1>2, <1>3, ReachedRecord, ReachedSweep DEF Next

\* Recorder.Dispatch flips a row only when every leg of one pass succeeded, so
\* crashes and failed inserts never lose a notification or a webhook.
THEOREM EveryLegReached == Spec => []DispatchedReachedAll
<1>1. Init => Feed /\ Reached
  BY DEF Init, Feed, Fenced, Served, FeedNeverSkips, Committed, Reached, Working,
         DispatchedReachedAll, Idle
<1>2. TypeOK /\ Feed /\ Reached /\ [Next]_vars => Feed' /\ Reached'
  BY FeedStepwise, ReachedStepwise
<1>3. Reached => DispatchedReachedAll
  BY DEF Reached
<1> QED
  BY <1>1, <1>2, <1>3, OutboxTypeCorrect, PTL DEF Spec

-----------------------------------------------------------------------------
(* Settled rows stay settled.                                              *)

Final == \A n \in Seqs : dispatch[n] \in Settled => dispatch'[n] = dispatch[n]

\* A commit cannot touch a settled row, since what it writes is not yet
\* committed; sweeps and dispatches only touch recorded rows.
LEMMA FinalStepwise ==
    ASSUME TypeOK, Feed, [Next]_vars
    PROVE  Final
<1>1. ASSUME NEW x \in Txs, Commit(x) PROVE Final
  <2>1. \A n \in pending[x] : n \notin Committed
    BY DEF Feed, Fenced, TypeOK, Seqs, Committed
  <2> QED
    BY <1>1, <2>1 DEF Final, Commit, Committed, Settled, TypeOK
<1>2. ASSUME NEW w \in Sweepers, Retire(w) PROVE Final
  BY <1>2 DEF Final, Retire, Exhausted, Due, Settled, TypeOK
<1>3. ASSUME NEW d \in Dispatchers, NEW stored \in BOOLEAN, Dispatch(d, stored)
      PROVE  Final
  BY <1>3 DEF Final, Dispatch, Dispatchable, Settled, TypeOK
<1>4. CASE UNCHANGED dispatch
  BY <1>4 DEF Final
<1>5. \/ UNCHANGED dispatch
      \/ \E x \in Txs : Commit(x)
      \/ \E w \in Sweepers : Retire(w)
      \/ \E d \in Dispatchers, stored \in BOOLEAN : Dispatch(d, stored)
  BY DEF Next, RecordStep, SweepStep, DispatchStep, FeedStep, Record, Rollback,
         Age, Claim, Notify, Crash, Read, vars, rowVars
<1> QED
  BY <1>1, <1>2, <1>3, <1>4, <1>5

\* Neither a late inline dispatch nor another replica's sweep revives a
\* retired row or takes back a dispatched one.
THEOREM SettledForGood == Spec => SettledIsFinal
<1>1. Init => Feed
  BY DEF Init, Feed, Fenced, Served, FeedNeverSkips, Committed
<1>2. TypeOK /\ Feed /\ [Next]_vars => Feed' /\ Final
  BY FeedStepwise, FinalStepwise
<1>3. Final => [\A n \in Seqs : dispatch[n] \in Settled => dispatch'[n] = dispatch[n]]_vars
  BY DEF Final
<1> QED
  BY <1>1, <1>2, <1>3, OutboxTypeCorrect, PTL DEF Spec, SettledIsFinal

-----------------------------------------------------------------------------
(* The attempt cap: a pass that has retired and not yet claimed may add one *)
(* attempt to a row, and there is at most one such pass per replica.        *)

Ready == {w \in Sweepers : job[w].stage = "retired"}

Counted ==
    \A n \in Seqs :
      /\ dispatch[n] = "absent" \/ n \notin aged => attempts[n] = 0
      /\ dispatch[n] = "recorded" =>
           attempts[n] + Cardinality(Ready) < Cap + Cardinality(Sweepers)
      /\ attempts[n] < Cap + Cardinality(Sweepers)

LEMMA ReadyBounds ==
    /\ Cardinality(Sweepers) \in Nat
    /\ IsFiniteSet(Ready)
    /\ Cardinality(Ready) \in Nat
    /\ Cardinality(Ready) <= Cardinality(Sweepers)
    /\ IsFiniteSet(Ready')
    /\ Cardinality(Ready') \in Nat
    /\ Cardinality(Ready') <= Cardinality(Sweepers)
<1>1. Ready \in SUBSET Sweepers /\ Ready' \in SUBSET Sweepers
  BY DEF Ready
<1>2. IsFiniteSet(Sweepers)
  BY PartiesAssumption
<1>3. IsFiniteSet(Ready) /\ Cardinality(Ready) <= Cardinality(Sweepers)
  BY <1>1, <1>2, FS_Subset
<1>4. IsFiniteSet(Ready') /\ Cardinality(Ready') <= Cardinality(Sweepers)
  BY <1>1, <1>2, FS_Subset
<1> QED
  BY <1>2, <1>3, <1>4, FS_CardinalityType

\* A step that changes no row and readies no pass keeps the count.
LEMMA CountedKept ==
    ASSUME TypeOK, Counted, Ready' \subseteq Ready, UNCHANGED attempts, aged \subseteq aged',
           \A n \in Seqs : /\ dispatch'[n] = "absent" => dispatch[n] = "absent"
                           /\ dispatch'[n] = "recorded" =>
                                dispatch[n] = "recorded" \/ attempts[n] = 0
    PROVE  Counted'
<1>1. Cardinality(Ready') <= Cardinality(Ready)
  BY ReadyBounds, FS_Subset
<1>2. Cap \in Nat /\ Cap > 0 /\ attempts \in [Seqs -> Nat]
  BY BoundsAssumption DEF TypeOK
<1>3. ASSUME NEW n \in Seqs, dispatch'[n] = "recorded"
      PROVE  attempts[n] + Cardinality(Ready') < Cap + Cardinality(Sweepers)
  <2>1. CASE dispatch[n] = "recorded"
    BY <1>1, <1>2, <2>1, ReadyBounds DEF Counted
  <2>2. CASE attempts[n] = 0
    BY <1>2, <2>2, ReadyBounds
  <2> QED
    BY <1>3, <2>1, <2>2
<1> QED
  BY <1>3 DEF Counted

LEMMA CountedRetire ==
    ASSUME TypeOK, Counted, NEW w \in Sweepers, Retire(w)
    PROVE  Counted'
<1>1. Cap \in Nat /\ Cap > 0 /\ attempts \in [Seqs -> Nat]
  BY BoundsAssumption DEF TypeOK
<1>2. ASSUME NEW n \in Seqs, dispatch'[n] = "recorded"
      PROVE  attempts[n] < Cap
  <2>1. dispatch[n] = "recorded" /\ ~Exhausted(n)
    BY <1>2 DEF Retire, TypeOK
  <2> QED
    BY <1>1, <2>1 DEF Exhausted, Due, Counted
<1>3. UNCHANGED <<attempts, aged>>
      /\ \A n \in Seqs : dispatch'[n] = "absent" => dispatch[n] = "absent"
  BY DEF Retire, TypeOK
<1>4. \A n \in Seqs : dispatch'[n] = "recorded" =>
        attempts[n] + Cardinality(Ready') < Cap + Cardinality(Sweepers)
  BY <1>1, <1>2, ReadyBounds
<1> QED
  BY <1>3, <1>4 DEF Counted

LEMMA CountedClaim ==
    ASSUME TypeOK, Counted, NEW w \in Sweepers, NEW readable \in SUBSET Claimable,
           Claim(w, readable)
    PROVE  Counted'
<1>1. /\ Cap \in Nat /\ Cap > 0 /\ attempts \in [Seqs -> Nat]
      /\ UNCHANGED <<dispatch, aged>>
  BY BoundsAssumption DEF TypeOK, Claim
<1>2. Ready' = Ready \ {w} /\ w \in Ready
  <2>1. readable \in SUBSET Seqs
    BY DEF Claimable, Due
  <2>2. job'[w].stage # "retired" /\ \A v \in Sweepers : v # w => job'[v] = job[v]
    BY <2>1, JobOf DEF Claim, TypeOK, Dispatchers
  <2>3. job[w].stage = "retired"
    BY DEF Claim, Retired, Idle
  <2> QED
    BY <2>2, <2>3 DEF Ready
<1>3. Cardinality(Ready') = Cardinality(Ready) - 1
  BY <1>2, ReadyBounds, FS_RemoveElement
<1>4. \A n \in Seqs : \/ attempts'[n] = attempts[n]
                      \/ /\ attempts'[n] = attempts[n] + 1
                         /\ dispatch[n] = "recorded" /\ n \in aged
  BY DEF Claim, CountClaimed, Claimable, Due
<1>5. ASSUME NEW n \in Seqs
      PROVE  /\ dispatch[n] = "absent" \/ n \notin aged => attempts'[n] = 0
             /\ dispatch[n] = "recorded" =>
                  attempts'[n] + Cardinality(Ready') < Cap + Cardinality(Sweepers)
             /\ attempts'[n] < Cap + Cardinality(Sweepers)
  <2>1. CASE attempts'[n] = attempts[n]
    BY <1>1, <1>3, <2>1, ReadyBounds DEF Counted
  <2>2. CASE /\ attempts'[n] = attempts[n] + 1
             /\ dispatch[n] = "recorded" /\ n \in aged
    BY <1>1, <1>3, <2>2, ReadyBounds DEF Counted
  <2> QED
    BY <1>4, <2>1, <2>2
<1> QED
  BY <1>1, <1>5 DEF Counted

LEMMA CountedStepwise ==
    ASSUME TypeOK, Feed, Counted, [Next]_vars
    PROVE  Counted'
<1>1. ASSUME NEW x \in Txs, Commit(x) PROVE Counted'
  <2>1. Ready' = Ready
    BY <1>1, PartiesAssumption DEF Commit, Ready, TypeOK, Dispatchers
  <2>2. \A n \in pending[x] : n \notin Committed
    BY DEF Feed, Fenced, TypeOK, Seqs, Committed
  <2>3. \A n \in pending[x] : attempts[n] = 0
    BY <2>2 DEF Counted, Committed, TypeOK
  <2> QED
    BY <1>1, <2>1, <2>3, CountedKept DEF Commit, TypeOK
<1>2. ASSUME NEW d \in Dispatchers, NEW u \in Users, NEW done \in BOOLEAN,
             Notify(d, u, done)
      PROVE  Counted'
  <2>1. \A e \in Dispatchers : job'[e].stage = job[e].stage
    BY <1>2 DEF Notify, TypeOK, JobSet
  <2> QED
    BY <1>2, <2>1, CountedKept DEF Notify, Ready, Dispatchers, rowVars
<1>3. ASSUME NEW d \in Dispatchers, NEW stored \in BOOLEAN, Dispatch(d, stored)
      PROVE  Counted'
  <2>1. job[d].todo \ {First(job[d].todo)} \in SUBSET Seqs
    BY DEF TypeOK, JobSet
  <2>2. job'[d].stage # "retired" /\ \A e \in Dispatchers : e # d => job'[e] = job[e]
    BY <1>3, <2>1, JobOf DEF Dispatch, TypeOK
  <2>3. Ready' \subseteq Ready
    BY <2>2 DEF Ready, Dispatchers
  <2>4. UNCHANGED <<attempts, aged>>
        /\ \A n \in Seqs : /\ dispatch'[n] = "absent" => dispatch[n] = "absent"
                           /\ dispatch'[n] = "recorded" => dispatch[n] = "recorded"
    BY <1>3 DEF Dispatch, TypeOK
  <2> QED
    BY <2>3, <2>4, CountedKept
<1>4. ASSUME NEW d \in Dispatchers, Crash(d) PROVE Counted'
  <2>1. Ready' \subseteq Ready
    BY <1>4 DEF Crash, Ready, Idle, TypeOK, Dispatchers
  <2> QED
    BY <1>4, <2>1, CountedKept DEF Crash, rowVars
<1>5. CASE UNCHANGED <<job, dispatch, attempts>> /\ aged \subseteq aged'
  BY <1>5, CountedKept DEF Ready
<1>6. \/ UNCHANGED <<job, dispatch, attempts>> /\ aged \subseteq aged'
      \/ \E x \in Txs : Commit(x)
      \/ SweepStep
      \/ DispatchStep
  BY DEF Next, RecordStep, FeedStep, Record, Rollback, Read, vars, rowVars
<1>7. ASSUME NEW n \in Seqs, Age(n) PROVE UNCHANGED <<job, dispatch, attempts>> /\ aged \subseteq aged'
  BY <1>7 DEF Age, rowVars
<1>8. CASE SweepStep
  BY <1>5, <1>7, <1>8, CountedRetire, CountedClaim DEF SweepStep
<1>9. CASE DispatchStep
  BY <1>2, <1>3, <1>4, <1>9 DEF DispatchStep
<1> QED
  BY <1>1, <1>5, <1>6, <1>8, <1>9

\* MaxEventDispatchAttempts is exceeded by less than the number of replicas,
\* although retiring and claiming are separate statements.
THEOREM AttemptCap == Spec => []AttemptsBounded
<1>1. Init => Feed /\ Counted
  <2>1. Init => Feed
    BY DEF Init, Feed, Fenced, Served, FeedNeverSkips, Committed
  <2>2. Init => Counted
    BY ReadyBounds, BoundsAssumption DEF Init, Counted
  <2> QED
    BY <2>1, <2>2
<1>2. TypeOK /\ Feed /\ Counted /\ [Next]_vars => Feed' /\ Counted'
  BY FeedStepwise, CountedStepwise
<1>3. Counted => AttemptsBounded
  BY DEF Counted, AttemptsBounded
<1> QED
  BY <1>1, <1>2, <1>3, OutboxTypeCorrect, PTL DEF Spec
=============================================================================
