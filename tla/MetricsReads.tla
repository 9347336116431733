----------------------------- MODULE MetricsReads -----------------------------
(***************************************************************************)
(* GET /api/metrics: the minute windows that limit the reads of all server *)
(* processes together (consume_public_resource_limit, migration 0003), and *)
(* the snapshot that each process caches, shares between its readers and   *)
(* drops when it has changed a run (handleMetricsGet of                    *)
(* src/src/server/http/metrics-handler.ts).                                *)
(***************************************************************************)
EXTENDS Naturals, FiniteSets

CONSTANTS
    Reader,         \* invocations of the handler
    Process,        \* server processes
    Bucket,         \* browsers, as the limiter tells them apart
    Change,         \* changes to runs that some handler commits
    Sources,        \* number of sources one snapshot reads: 7
    TTL,            \* METRICS_CACHE_TTL_MS
    Window,         \* ticks of a minute window
    Keep,           \* windows that are kept: 5
    BucketLimit, GlobalLimit,
    MaxTime,        \* bound on the clock
    MaxFaults       \* bound on calls that fail

Nobody == "nobody"

ASSUME MetricsAssumption ==
    /\ Nobody \notin Reader
    /\ Sources \in Nat \ {0} /\ TTL \in Nat \ {0} /\ Window \in Nat \ {0} /\ Keep \in Nat
    /\ BucketLimit \in Nat \ {0} /\ GlobalLimit \in Nat \ {0}
    /\ MaxTime \in Nat /\ MaxFaults \in Nat

VARIABLES
    now,
    windows,        \* public_rate_limit_windows, for the resource "metrics"
    holder,         \* the transaction that holds a window's global row
    committed,      \* when each change was committed: MaxTime + 1 if it was not
    dropped,        \* processes that dropped their cache for a change
    cache,          \* metricsCache of each process
    reader,
    faults

limiter == <<windows, holder>>
changes == <<committed, dropped>>
vars == <<now, limiter, changes, cache, reader, faults>>

WindowOf(t) == t \div Window
MaxWindow == WindowOf(MaxTime)

NoEntry == [kind |-> "none"]
Filling(r) == [kind |-> "pending", by |-> r]
Snapshot(seen, expires) == [kind |-> "payload", seen |-> seen, expires |-> expires]

Init ==
    /\ now = 0
    /\ windows = <<>>
    /\ holder = [w \in 0..MaxWindow |-> Nobody]
    /\ committed = [c \in Change |-> MaxTime + 1]
    /\ dropped = [c \in Change |-> {}]
    /\ cache = [p \in Process |-> NoEntry]
    /\ reader = [r \in Reader |-> [at |-> "idle"]]
    /\ faults = MaxFaults

At(r, point) == reader[r].at = point
MyWindow(r) == WindowOf(reader[r].now)
MyCache(r) == cache[reader[r].process]

Becomes(r, new) == reader' = [reader EXCEPT ![r] = new]
Leave(r, point) == Becomes(r, [at |-> point])
Fails == faults > 0 /\ faults' = faults - 1

-----------------------------------------------------------------------------
(* The limiter                                                              *)

\* A request of a browser reaches a process, whose handler reads the clock
\* before it asks the limiter.
Begin(r) ==
    /\ At(r, "idle")
    /\ \E p \in Process, b \in Bucket : Becomes(r,
           [at |-> "begin", now |-> now, process |-> p, bucket |-> b, global |-> 0,
            left |-> Sources, seen |-> Change, had |-> {}, joined |-> Nobody])
    /\ UNCHANGED <<now, limiter, changes, cache, faults>>

EmptyWindow == [global |-> 0, bucket |-> [b \in Bucket |-> 0]]

\* Windows too old are deleted, and that of the caller is there.
Swept(w) ==
    LET kept == {v \in DOMAIN windows : v + Keep >= w}
    IN  [v \in kept \cup {w} |-> IF v \in kept THEN windows[v] ELSE EmptyWindow]

\* Fault: the count of the window is read without a lock on its row.
LockNothing(r) ==
    /\ At(r, "begin")
    /\ windows' = Swept(MyWindow(r)) /\ UNCHANGED holder
    /\ Becomes(r, [reader[r] EXCEPT !.at = "locked", !.global = windows'[MyWindow(r)].global])
    /\ UNCHANGED <<now, changes, cache, faults>>

\* The transaction up to the lock on the global row, which it waits for, as
\* the deletion waits for those that hold the rows it deletes.
Lock(r) ==
    LET w == MyWindow(r)
        swept == Swept(w)
    IN  /\ At(r, "begin")
        /\ \A v \in {w} \cup (DOMAIN windows \ DOMAIN swept) : holder[v] = Nobody
        /\ windows' = swept
        /\ IF swept[w].global >= GlobalLimit
           THEN Leave(r, "denied") /\ UNCHANGED holder
           ELSE /\ holder' = [holder EXCEPT ![w] = r]
                /\ Becomes(r, [reader[r] EXCEPT !.at = "locked", !.global = swept[w].global])
        /\ UNCHANGED <<now, changes, cache, faults>>

\* The decision, on the global count read under the lock.
Within(r) ==
    /\ reader[r].global < GlobalLimit
    /\ windows[MyWindow(r)].bucket[reader[r].bucket] < BucketLimit

\* Both counters of a request that is allowed.
Counted(r) ==
    LET row == windows[MyWindow(r)]
    IN  IF ~ Within(r) THEN windows
        ELSE [windows EXCEPT ![MyWindow(r)] =
                  [global |-> row.global + 1,
                   bucket |-> [row.bucket EXCEPT ![reader[r].bucket] = @ + 1]]]

Admitted(r) == Becomes(r, [reader[r] EXCEPT !.at = "lookup", !.global = 0])

\* The rest of the transaction; its answer may be lost, or it may not commit.
Decide(r) ==
    /\ At(r, "locked")
    /\ holder' = [holder EXCEPT ![MyWindow(r)] = IF @ = r THEN Nobody ELSE @]
    /\ \/ windows' = Counted(r) /\ UNCHANGED faults
          /\ IF Within(r) THEN Admitted(r) ELSE Leave(r, "denied")
       \/ windows' \in {windows, Counted(r)} /\ Leave(r, "failed") /\ Fails
    /\ UNCHANGED <<now, changes, cache>>

-----------------------------------------------------------------------------
(* The cache                                                                *)

Entry(r, entry) == cache' = [cache EXCEPT ![reader[r].process] = entry]

\* Changes for which the reader's process has dropped its cache by now.
Told(r) == {c \in Change : reader[r].process \in dropped[c]}

\* The cached snapshot if it is fresh, the one that is being made, or one of
\* the reader's own.
Lookup(r) ==
    LET entry == MyCache(r)
        told == [reader[r] EXCEPT !.had = Told(r)]
        fresh == entry.kind = "payload" /\ entry.expires > reader[r].now
    IN  /\ At(r, "lookup")
        /\ \/ /\ fresh /\ UNCHANGED cache
              /\ Becomes(r, [told EXCEPT !.at = "done", !.seen = entry.seen])
           \/ /\ entry.kind = "pending" /\ UNCHANGED cache
              /\ Becomes(r, [told EXCEPT !.at = "join", !.joined = entry.by])
           \/ /\ ~ fresh /\ entry.kind # "pending" /\ Entry(r, Filling(r))
              /\ Becomes(r, [told EXCEPT !.at = "fill"])
        /\ UNCHANGED <<now, limiter, changes, faults>>

\* One of the sources is read: the snapshot has seen what all of them had.
ReadSource(r) ==
    /\ At(r, "fill") /\ reader[r].left > 0
    /\ Becomes(r, [reader[r] EXCEPT !.left = @ - 1,
                       !.seen = @ \cap {c \in Change : committed[c] <= now}])
    /\ UNCHANGED <<now, limiter, changes, cache, faults>>

\* The promise of a snapshot settles for the reader that makes it and for all
\* that joined.
Settle(r, point, seen) ==
    reader' = [q \in Reader |->
        IF q = r \/ (At(q, "join") /\ reader[q].joined = r)
        THEN [reader[q] EXCEPT !.at = point, !.left = Sources, !.seen = seen]
        ELSE reader[q]]

\* Fault: the snapshot is stored whatever became of the entry.
StoreAlways(r) == Entry(r, Snapshot(reader[r].seen, reader[r].now + TTL))

\* The snapshot is stored if the entry is still the reader's own.
Store(r) ==
    IF MyCache(r) = Filling(r) THEN Entry(r, Snapshot(reader[r].seen, reader[r].now + TTL))
                               ELSE UNCHANGED cache

Finish(r) ==
    /\ At(r, "fill") /\ reader[r].left = 0
    /\ Settle(r, "done", reader[r].seen) /\ Store(r)
    /\ UNCHANGED <<now, limiter, changes, faults>>

\* Fault: a snapshot that failed stays in the cache.
LeaveEntry(r) == UNCHANGED cache

ForgetEntry(r) == IF MyCache(r) = Filling(r) THEN Entry(r, NoEntry) ELSE UNCHANGED cache

\* A source cannot be read: all who wait for the snapshot are told so.
Break(r) ==
    /\ At(r, "fill") /\ reader[r].left > 0 /\ Fails
    /\ Settle(r, "failed", {}) /\ ForgetEntry(r)
    /\ UNCHANGED <<now, limiter, changes>>

-----------------------------------------------------------------------------

\* A handler changes a run, and then drops the cache of its own process.
Commit(c) ==
    /\ committed[c] > now /\ committed' = [committed EXCEPT ![c] = now]
    /\ UNCHANGED <<now, limiter, dropped, cache, reader, faults>>

Invalidate(c, p) ==
    /\ committed[c] <= now /\ dropped[c] = {}
    /\ dropped' = [dropped EXCEPT ![c] = {p}] /\ cache' = [cache EXCEPT ![p] = NoEntry]
    /\ UNCHANGED <<now, limiter, committed, reader, faults>>

\* A call of the limiter does not outlast the windows that are kept.
Tick ==
    /\ now < MaxTime /\ now' = now + 1
    /\ \A r \in Reader :
           reader[r].at \in {"begin", "locked"} => WindowOf(now + 1) <= MyWindow(r) + Keep
    /\ UNCHANGED <<limiter, changes, cache, reader, faults>>

Next ==
    \/ \E r \in Reader : \/ Begin(r) \/ Lock(r) \/ Decide(r) \/ Lookup(r)
                         \/ ReadSource(r) \/ Finish(r) \/ Break(r)
    \/ \E c \in Change : Commit(c) \/ \E p \in Process : Invalidate(c, p)
    \/ Tick

Spec == Init /\ [][Next]_vars

-----------------------------------------------------------------------------
(* Properties                                                               *)

Allowed(r) == reader[r].at \in {"lookup", "join", "fill", "done"}

AllowedIn(w) == {r \in Reader : Allowed(r) /\ MyWindow(r) = w}

\* However the transactions of all processes interleave, a minute allows no
\* more reads than the global limit and no browser more than its own; and as
\* long as no call fails, a kept window counts the reads it allowed and no
\* others: a read that is denied takes nothing from anybody.
LimitsHold ==
    LET Of(b, w) == {r \in AllowedIn(w) : reader[r].bucket = b} IN
    /\ \A w \in 0..MaxWindow :
           /\ Cardinality(AllowedIn(w)) <= GlobalLimit
           /\ \A b \in Bucket : Cardinality(Of(b, w)) <= BucketLimit
    /\ faults = MaxFaults =>
           \A w \in DOMAIN windows :
               /\ windows[w].global = Cardinality(AllowedIn(w))
               /\ \A b \in Bucket : windows[w].bucket[b] = Cardinality(Of(b, w))

\* A reader that looked into the cache after its process had dropped it for a
\* change is shown that change, also when older snapshots were being made; and a
\* change committed in any process shows within the lifetime of a snapshot to
\* every reader that did not wait for another one's.
SnapshotsAreFresh ==
    \A r \in Reader : At(r, "done") =>
        /\ reader[r].had \subseteq reader[r].seen
        /\ reader[r].joined = Nobody =>
               \A c \in Change : committed[c] + TTL <= reader[r].now => c \in reader[r].seen

\* A snapshot the cache promises is really being made: nobody can come to
\* wait for one that failed or that was already given out.
PromisesAreKept ==
    \A p \in Process : cache[p].kind = "pending" => At(cache[p].by, "fill")

=============================================================================
