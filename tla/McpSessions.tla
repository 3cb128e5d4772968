----------------------------- MODULE McpSessions -----------------------------
(***************************************************************************)
(* MCP sessions over HTTP: rows shared by all replicas, a cache of them in *)
(* every process, the events appended to a session and the streams that    *)
(* replay and poll them.                                                   *)
(*                                                                         *)
(* A process runs one session operation at a time, under its mutex, also   *)
(* while it waits for the database: op is that operation.  Any time may    *)
(* pass between two steps: a row goes idle past the session TTL by itself, *)
(* a cached entry is found idle when the cache is next gone through.       *)
(* Events carry the sequence number of their row; 0 stands for an empty    *)
(* Last-Event-ID.                                                          *)
(***************************************************************************)
EXTENDS Integers, Sequences, FiniteSets

CONSTANTS
    Replicas,    \* server processes
    Sessions,    \* session ids, never generated twice
    Subjects,    \* callers
    Owner,       \* [Sessions -> Subjects]
    Streams,     \* event streams clients keep open or resume
    PerSubject,  \* maxMCPSessionsPerSubject
    Total,       \* maxMCPSessionsTotal
    Window,      \* events kept, and listed at most, per session
    Channel,     \* buffered events of a stream
    MaxEvents,   \* bound: events of each session
    None         \* no value

ASSUME OwnerAssumption == Owner \in [Sessions -> Subjects]

ASSUME BoundsAssumption ==
    /\ IsFiniteSet(Replicas)
    /\ {PerSubject, Total, Window, Channel} \subseteq Nat \ {0}
    /\ MaxEvents \in Nat
    /\ None \notin Replicas \cup Sessions

VARIABLES
    row,     \* mcp_http_sessions: "absent", "open", "closed" or "deleted"
    recent,  \* rows whose last_seen_at is within the TTL
    last,    \* sequence of the newest event of each session, 0 when it has none
    floor,   \* sequence up to which a sweep has deleted a session's events
    sweep,   \* the sweep whose transaction is open
    cache,   \* sessions each process remembers
    op,      \* the operation each process is in
    stream   \* streams and what their clients have received

sessionVars == <<row, recent, last, floor, sweep>>
vars == <<sessionVars, cache, op, stream>>

Free == [kind |-> "free", session |-> None, valid |-> FALSE]

\* idle are the rows before the sweep's cutoff; the events up to swept are
\* deleted, and seen by all others until it commits.
NoSweep == [on |-> FALSE, idle |-> {}, swept |-> [s \in Sessions |-> 0]]

\* The sequence a listing starts after, and the oldest one kept by then; here,
\* no events are asked for, or the id they should follow is unknown.
NoSeek == [after |-> MaxEvents + 1, oldest |-> 0]

\* got is the id of the last event the client received; unsent are later ones
\* that a full channel refused or that were trimmed in the middle of a listing.
NoStream == [session |-> None, replica |-> None, opening |-> FALSE,
             cursor |-> 0, seek |-> NoSeek, replay |-> <<>>, listed |-> <<>>,
             channel |-> <<>>, got |-> 0, unsent |-> {}]

Init ==
    /\ row = [s \in Sessions |-> "absent"]
    /\ recent = {}
    /\ last = [s \in Sessions |-> 0]
    /\ floor = [s \in Sessions |-> 0]
    /\ sweep = NoSweep
    /\ cache = [p \in Replicas |-> {}]
    /\ op = [p \in Replicas |-> Free]
    /\ stream = [x \in Streams |-> NoStream]

-----------------------------------------------------------------------------
(* Creating and using a session.                                           *)

Active == {s \in recent : row[s] = "open"}
ActiveOf(u) == {s \in Active : Owner[s] = u}

\* evictExpiredLocked: idle are the entries not used within the TTL.
Evict(p, idle) == cache' = [cache EXCEPT ![p] = @ \ idle]

Start(p, kind, s, valid) ==
    /\ op[p] = Free
    /\ op' = [op EXCEPT ![p] = [kind |-> kind, session |-> s, valid |-> valid]]

End(p) == op' = [op EXCEPT ![p] = Free]

\* Other replicas may create sessions between the counts and the insert.
BeginCreate(p, s, idle) ==
    /\ row[s] = "absent"
    /\ \A r \in Replicas : op[r].session # s
    /\ Cardinality(Active) < Total
    /\ Start(p, "count", s, TRUE)
    /\ Evict(p, idle)
    /\ UNCHANGED <<sessionVars, stream>>

CountForSubject(p) ==
    LET s == op[p].session
    IN  /\ op[p].kind = "count"
        /\ op' = [op EXCEPT ![p] = IF Cardinality(ActiveOf(Owner[s])) < PerSubject
                                  THEN [@ EXCEPT !.kind = "create"] ELSE Free]
        /\ UNCHANGED <<sessionVars, cache, stream>>

CreateMCPSession(p) ==
    LET s == op[p].session
    IN  /\ op[p].kind = "create"
        /\ row' = [row EXCEPT ![s] = "open"]
        /\ recent' = recent \cup {s}
        /\ cache' = [cache EXCEPT ![p] = @ \cup {s}]
        /\ End(p)
        /\ UNCHANGED <<last, floor, sweep, stream>>

\* existsForSubject.  The cutoff is fixed here: a row within it now passes
\* later, also if it has gone idle by then.
BeginTouch(p, s, idle) ==
    /\ row[s] # "absent"
    /\ Start(p, "touch", s, s \in recent)
    /\ Evict(p, idle)
    /\ UNCHANGED <<sessionVars, stream>>

\* (Mutant: last_seen_at is not part of the update's predicate.)
TouchesAnyAge(p) == row[op[p].session] = "open"

\* The update of TouchMCPSession finds the row.
Touches(p) ==
    /\ row[op[p].session] = "open"
    /\ op[p].valid \/ op[p].session \in recent

Touched(p) == IF Touches(p) THEN recent \cup {op[p].session} ELSE recent

\* The row is no longer before the cutoff of the sweep under way.
Spared(p) ==
    [sweep EXCEPT !.idle = IF Touches(p) THEN @ \ {op[p].session} ELSE @]

\* A cached session is valid whatever the update found.
TouchMCPSession(p) ==
    LET s == op[p].session
        found == IF Touches(p) THEN {s} ELSE {}
    IN  /\ op[p].kind = "touch"
        /\ recent' = Touched(p)
        /\ sweep' = Spared(p)
        /\ cache' = [cache EXCEPT ![p] = @ \cup found]
        /\ End(p)
        /\ UNCHANGED <<row, last, floor, stream>>

\* terminate forgets the session before it closes the row.
BeginTerminate(p, s) ==
    /\ row[s] # "absent"
    /\ Start(p, "close", s, TRUE)
    /\ cache' = [cache EXCEPT ![p] = @ \ {s}]
    /\ UNCHANGED <<sessionVars, stream>>

CloseMCPSession(p) ==
    LET s == op[p].session
    IN  /\ op[p].kind = "close"
        /\ row' = [row EXCEPT ![s] = IF @ = "open" THEN "closed" ELSE @]
        /\ End(p)
        /\ UNCHANGED <<recent, last, floor, sweep, cache, stream>>

-----------------------------------------------------------------------------
(* Events.  A session keeps its newest Window events, unless a sweep that  *)
(* kept the session has deleted some of them.                              *)

Oldest(s) == IF last[s] - Window > floor[s] THEN last[s] - Window + 1 ELSE floor[s] + 1
Retained(s) == Oldest(s)..last[s]

MoreEvents(s) == last[s] < MaxEvents

\* appendEvent touches the row, and goes on whatever the update found.
BeginAppend(p, s) ==
    /\ s \in cache[p]
    /\ MoreEvents(s)
    /\ Start(p, "append", s, s \in recent)
    /\ UNCHANGED <<sessionVars, cache, stream>>

\* (The cutoff is not used again.)
AppendTouches(p) ==
    /\ op[p].kind = "append"
    /\ recent' = Touched(p)
    /\ sweep' = Spared(p)
    /\ op' = [op EXCEPT ![p].kind = "insert", ![p].valid = TRUE]
    /\ UNCHANGED <<row, last, floor, cache, stream>>

\* The lock on the row orders the appends of all replicas.  The next sequence
\* is one more than the newest kept: 1 when a sweep has left none.  (An append
\* whose trim meets events of an open sweep waits for it; here it goes first.)
AppendMCPEvent(p) ==
    LET s == op[p].session
    IN  /\ op[p].kind = "insert"
        /\ last' = IF row[s] = "open" /\ MoreEvents(s)
                   THEN [last EXCEPT ![s] = @ + 1] ELSE last
        /\ End(p)
        /\ UNCHANGED <<row, recent, floor, sweep, cache, stream>>

\* (Mutant: an id that was trimmed is looked past, not treated as unknown.)
SeeksAnyId(s, n) ==
    [after |-> n, oldest |-> Oldest(s)]

\* ListMCPEvents looks up the row of event n first.  After an unknown one, also
\* one that was trimmed or deleted, nothing follows.
Seek(s, n) ==
    IF n = 0 \/ n \in Retained(s)
    THEN [after |-> n, oldest |-> Oldest(s)]
    ELSE NoSeek

\* Consecutive numbers in ascending order: order by sequence.
InOrder(ns) ==
    LET least == CHOOSE m \in ns : \A n \in ns : m <= n
    IN  IF ns = {} THEN <<>> ELSE [i \in 1..Cardinality(ns) |-> least + i - 1]

\* The query that follows reads what is kept by then.
ListMCPEvents(x) ==
    InOrder({m \in Retained(stream[x].session) : m > stream[x].seek.after})

\* Events that were still to come or kept when the id was looked up, and are
\* gone when the events are read.
TrimmedSince(x) ==
    {m \in stream[x].seek.oldest .. Oldest(stream[x].session) - 1 :
       m > stream[x].seek.after}

\* replayAndSubscribe, for a new client or for one that resumes after the last
\* event it got, holds the mutex for both queries.
BeginReplay(x, p, s) ==
    /\ stream[x].replica = None
    /\ stream[x].session \in {None, s}
    /\ s \in cache[p]
    /\ Start(p, "replay", s, TRUE)
    /\ stream' = [stream EXCEPT ![x].session = s,
                                ![x].replica = p,
                                ![x].opening = TRUE,
                                ![x].seek = Seek(s, stream[x].got)]
    /\ UNCHANGED <<sessionVars, cache>>

\* The poll goes on after the last event replayed.
ReplayAndSubscribe(x) ==
    LET p == stream[x].replica
        events == ListMCPEvents(x)
    IN  /\ stream[x].opening
        /\ End(p)
        /\ stream' = [stream EXCEPT
             ![x].opening = FALSE,
             ![x].seek = NoSeek,
             ![x].replay = events,
             ![x].unsent = TrimmedSince(x),
             ![x].cursor = IF events = <<>> THEN stream[x].got ELSE events[Len(events)]]
        /\ UNCHANGED <<sessionVars, cache>>

Subscribed(x) == stream[x].replica # None /\ ~ stream[x].opening

\* One tick of pollPersistedEvents lists, then sends one by one.
PollSeeks(x) ==
    /\ Subscribed(x)
    /\ stream[x].seek = NoSeek
    /\ stream[x].listed = <<>>
    /\ stream' = [stream EXCEPT
         ![x].seek = Seek(stream[x].session, stream[x].cursor)]
    /\ UNCHANGED <<sessionVars, cache, op>>

PollLists(x) ==
    /\ Subscribed(x)
    /\ stream[x].seek # NoSeek
    /\ stream' = [stream EXCEPT
         ![x].seek = NoSeek,
         ![x].listed = ListMCPEvents(x),
         ![x].unsent = @ \cup TrimmedSince(x)]
    /\ UNCHANGED <<sessionVars, cache, op>>

\* A full channel drops the event, and the cursor moves on all the same.
PollSends(x) ==
    LET n == Head(stream[x].listed)
        full == Len(stream[x].channel) = Channel
    IN  /\ stream[x].listed # <<>>
        /\ stream' = [stream EXCEPT
             ![x].listed = Tail(@),
             ![x].cursor = n,
             ![x].channel = IF full THEN @ ELSE Append(@, n),
             ![x].unsent = IF full THEN @ \cup {n} ELSE @]
        /\ UNCHANGED <<sessionVars, cache, op>>

\* The handler writes the replayed events, then what the channel brings.
WriteSSEEvent(x) ==
    LET queue == stream[x].replay \o stream[x].channel
        n == Head(queue)
        replaying == stream[x].replay # <<>>
    IN  /\ queue # <<>>
        /\ stream' = [stream EXCEPT
             ![x].replay = IF replaying THEN Tail(@) ELSE @,
             ![x].channel = IF replaying THEN @ ELSE Tail(@),
             ![x].unsent = {m \in @ : m > n},
             ![x].got = n]
        /\ UNCHANGED <<sessionVars, cache, op>>

Cut(x) == [stream[x] EXCEPT !.replica = None, !.opening = FALSE, !.cursor = 0, !.seek = NoSeek,
                            !.replay = <<>>, !.listed = <<>>, !.channel = <<>>,
                            !.unsent = {}]

\* The client goes away; it may come back with the last id it got.
Disconnect(x) ==
    /\ Subscribed(x)
    /\ stream' = [stream EXCEPT ![x] = Cut(x)]
    /\ UNCHANGED <<sessionVars, cache, op>>

-----------------------------------------------------------------------------
(* Time, the sweep, failures and restarts.                                 *)

RowGoesIdle(s) ==
    /\ s \in recent
    /\ recent' = recent \ {s}
    /\ UNCHANGED <<row, last, floor, sweep, cache, op, stream>>

\* The database refuses a statement of the operation; a stream that was being
\* opened is answered with an error.
OperationFails(p) ==
    /\ op[p] # Free
    /\ End(p)
    /\ stream' = [x \in Streams |->
         IF stream[x].replica = p /\ stream[x].opening THEN Cut(x) ELSE stream[x]]
    /\ UNCHANGED <<sessionVars, cache>>

\* The rows that are closed or before the cutoff.
Expired == {s \in Sessions : row[s] = "closed" \/ (row[s] = "open" /\ s \notin recent)}

\* DeleteExpiredMCPSessions deletes the events of the expired rows first.  The
\* sweeps of several replicas wait for one another on these events.
DeleteExpiredEvents ==
    /\ ~ sweep.on
    /\ Expired # {}
    /\ sweep' = [on |-> TRUE,
                 idle |-> {s \in Expired : row[s] = "open"},
                 swept |-> [s \in Sessions |-> IF s \in Expired THEN last[s] ELSE 0]]
    /\ UNCHANGED <<row, recent, last, floor, cache, op, stream>>

\* The rows that are expired by now follow, with the events appended since, and
\* the transaction commits.  A row touched or an event appended in between
\* stays, but not the events before.
DeleteExpiredMCPSessions ==
    LET gone == {s \in Sessions : row[s] = "closed" \/ (row[s] = "open" /\ s \in sweep.idle)}
        emptied == gone \cup {s \in Sessions : last[s] <= sweep.swept[s]}
    IN  /\ sweep.on
        /\ row' = [s \in Sessions |-> IF s \in gone THEN "deleted" ELSE row[s]]
        /\ recent' = recent \ gone
        /\ last' = [s \in Sessions |-> IF s \in emptied THEN 0 ELSE last[s]]
        /\ floor' = [s \in Sessions |-> IF s \in emptied THEN 0
                                        ELSE IF sweep.swept[s] > 0 THEN sweep.swept[s]
                                        ELSE floor[s]]
        /\ sweep' = NoSweep
        /\ UNCHANGED <<cache, op, stream>>

\* The transaction is rolled back.
SweepFails ==
    /\ sweep.on
    /\ sweep' = NoSweep
    /\ UNCHANGED <<row, recent, last, floor, cache, op, stream>>

Restart(p) ==
    /\ cache' = [cache EXCEPT ![p] = {}]
    /\ End(p)
    /\ stream' = [x \in Streams |-> IF stream[x].replica = p THEN Cut(x) ELSE stream[x]]
    /\ UNCHANGED sessionVars

Operation(p) ==
    \/ \E s \in Sessions, idle \in SUBSET cache[p] :
         BeginCreate(p, s, idle) \/ BeginTouch(p, s, idle)
    \/ \E s \in Sessions : BeginTerminate(p, s) \/ BeginAppend(p, s)
    \/ CountForSubject(p)
    \/ CreateMCPSession(p)
    \/ TouchMCPSession(p)
    \/ CloseMCPSession(p)
    \/ AppendTouches(p)
    \/ AppendMCPEvent(p)
    \/ OperationFails(p)
    \/ Restart(p)

Streaming(x) ==
    \/ \E p \in Replicas, s \in Sessions : BeginReplay(x, p, s)
    \/ ReplayAndSubscribe(x)
    \/ PollSeeks(x)
    \/ PollLists(x)
    \/ PollSends(x)
    \/ WriteSSEEvent(x)
    \/ Disconnect(x)

Next ==
    \/ \E p \in Replicas : Operation(p)
    \/ \E x \in Streams : Streaming(x)
    \/ \E s \in Sessions : RowGoesIdle(s)
    \/ DeleteExpiredEvents
    \/ DeleteExpiredMCPSessions
    \/ SweepFails

Spec == Init /\ [][Next]_vars

-----------------------------------------------------------------------------
(* Properties.                                                             *)

StreamSet ==
    [session : Sessions \cup {None}, replica : Replicas \cup {None},
     opening : BOOLEAN, cursor : 0..MaxEvents, replay : Seq(1..MaxEvents),
     listed : Seq(1..MaxEvents), channel : Seq(1..MaxEvents), got : 0..MaxEvents,
     unsent : SUBSET (1..MaxEvents),
     seek : [after : 0..MaxEvents + 1, oldest : 0..MaxEvents + 1]]

\* The shape of the state; a process remembers only rows that were created.
TypeOK ==
    /\ row \in [Sessions -> {"absent", "open", "closed", "deleted"}]
    /\ recent \subseteq {s \in Sessions : row[s] \in {"open", "closed"}}
    /\ last \in [Sessions -> 0..MaxEvents]
    /\ floor \in [Sessions -> 0..MaxEvents]
    /\ sweep \in [on : BOOLEAN, idle : SUBSET Sessions, swept : [Sessions -> 0..MaxEvents]]
    /\ cache \in [Replicas -> SUBSET {s \in Sessions : row[s] # "absent"}]
    /\ op \in [Replicas -> [kind : {"free", "count", "create", "touch", "close", "append",
                                    "insert", "replay"},
                            session : Sessions \cup {None}, valid : BOOLEAN]]
    /\ stream \in [Streams -> StreamSet]

\* The counts are taken before the insert, and the mutex is one process's own:
\* each other replica can add one session of its own on top of a cap.
SessionsBounded ==
    /\ Cardinality(Active) <= Total + Cardinality(Replicas) - 1
    /\ \A u \in Subjects :
         Cardinality(ActiveOf(u)) <= PerSubject + Cardinality(Replicas) - 1

\* What a client gets and is about to get is in order, and between two of its
\* events, also two got over different connections and replicas, lie only ids
\* that a full channel dropped or that were deleted between the two queries of
\* a listing.  It says nothing of a client that gets no more events because its
\* own id was deleted, nor of ids given to a second event after a sweep.
NoSilentGap ==
    \A x \in Streams :
      LET known == IF stream[x].got = 0 THEN <<>> ELSE <<stream[x].got>>
          queue == known \o stream[x].replay \o stream[x].channel
      IN  \A i \in 1..Len(queue) - 1 :
            /\ queue[i] < queue[i + 1]
            /\ queue[i] + 1 .. queue[i + 1] - 1 \subseteq stream[x].unsent

\* (The comment on the stream handler.)  A client that reconnects with the id
\* of the last event it got picks up the later events.
ResumePicksUpLaterEvents ==
    [][\A x \in Streams :
         stream[x].opening /\ Subscribed(x)' =>
           \/ stream'[x].replay # <<>>
           \/ \A m \in Retained(stream[x].session) : m <= stream[x].got]_vars

\* (The comment on the sweep.)  A session's events are deleted together with
\* it: they are never all gone while its row stays.
EventsGoWithTheirSession ==
    [][\A s \in Sessions : last[s] > 0 /\ last'[s] = 0 => row'[s] = "deleted"]_vars
=============================================================================
