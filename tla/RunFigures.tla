------------------------------ MODULE RunFigures ------------------------------
(***************************************************************************)
(* The figures the public Operations and Costs pages show of all runs.     *)
(* The same calls of the executor, of Delete now and of the purge reach    *)
(* both repositories of                                                    *)
(* src/src/server/repositories/run-repository.ts: InMemoryRunRepository,   *)
(* which keeps running counters beside its runs, and NeonRunRepository,    *)
(* which counts the rows of the table runs.  handleMetricsGet              *)
(* (src/src/server/http/metrics-handler.ts) publishes what they answer.    *)
(***************************************************************************)
EXTENDS Integers, FiniteSets

CONSTANTS
    Run,
    Submission,     \* what a run is created with
    Result,         \* what a completed run may be stored with
    Cutoff,         \* instants publicOperationsCutoffAt may be set to
    Retention, Hour, SixHours,   \* lengths in ticks: detail expiry, expiry buckets
    Day, Month,     \* lengths in ticks of a day and a month
    RunLimit,       \* METRICS_RUN_LIMIT, how many runs a page lists
    MaxClock        \* bound on the clock

\* What is stored without a usage that can be trusted has neither tokens nor a
\* cost, and a price is paid by the token.
ASSUME FiguresAssumption ==
    /\ IsFiniteSet(Run)
    /\ \A result \in Result : /\ {result.tokens, result.cost} \subseteq Nat
                             /\ (result.tokens = 0 => result.cost = 0)
    /\ Cutoff \subseteq 1..MaxClock /\ MaxClock \in Nat \ {0}
    /\ {Hour, SixHours, Retention, Day, Month, RunLimit} \subseteq Nat \ {0}
    /\ Hour < SixHours /\ SixHours < Retention /\ Month % Day = 0

Provider == {"openai", "anthropic"}
DocumentFamily == {"supplier_invoice", "warehouse_goods_receipt"}
NoFamily == "no family"

ASSUME SubmissionAssumption ==
    \A s \in Submission : s.provider \in Provider /\ s.family \in DocumentFamily \cup {NoFamily}

VARIABLES
    clock,
    memory,         \* InMemoryRunRepository.runs
    counters,       \* InMemoryRunRepository.aggregate
    rows,           \* the table runs of the database
    executor,       \* where the executor of each run is
    lost            \* runs whose results were stored without the executor knowing

figuresVars == <<clock, memory, counters, rows, executor, lost>>

NoOutcome == "no outcome"
NoCutoff == 0
NotYet == MaxClock + 1       \* completedAt is null

OutcomesOf(source) ==
    IF source = "custom" THEN {"evidence_consistent", "conflict", "not_found"}
                         ELSE {"clear", "needs_review", "incomplete"}
Outcome == OutcomesOf("custom") \cup OutcomesOf("synthetic")

(***************************************************************************)
(* The writes.                                                             *)
(***************************************************************************)
Created(s) ==
    [sub |-> s, status |-> "validating", dispatched |-> FALSE, outcome |-> NoOutcome,
     tokens |-> 0, cost |-> 0, createdAt |-> clock, completedAt |-> NotYet,
     completed |-> FALSE, failed |-> FALSE, gone |-> FALSE]

Inserted(store, r, row) == [q \in DOMAIN store \cup {r} |-> IF q = r THEN row ELSE store[q]]

NoCounts ==
    [total |-> 0, completed |-> 0, failed |-> 0, tokens |-> 0, cost |-> 0, review |-> 0,
     providers |-> [p \in Provider |-> 0], outcomes |-> [o \in Outcome |-> 0]]

OriginReview(row) ==
    row.sub.origin = "unverified" /\ row.outcome \in {"clear", "evidence_consistent"}
HumanReview(row) ==
    OriginReview(row) \/ row.outcome \in {"needs_review", "incomplete", "conflict", "not_found"}

MemoryDispatch(r) ==
    LET row == memory[r] IN
    IF row.gone \/ row.sub.mode # "live" \/ row.dispatched
    THEN UNCHANGED <<memory, counters>>
    ELSE /\ memory' = [memory EXCEPT ![r].dispatched = TRUE]
         /\ counters' = [counters EXCEPT !.providers[row.sub.provider] = @ + 1]

RowsDispatch(r) ==
    rows' = IF rows[r].gone \/ rows[r].sub.mode # "live"
            THEN rows ELSE [rows EXCEPT ![r].dispatched = TRUE]

Saved(row, result) ==
    [row EXCEPT !.status = "completed", !.outcome = result.outcome, !.tokens = result.tokens,
                !.cost = result.cost, !.completedAt = clock, !.completed = TRUE]

\* Fault: the review count looks at the outcome and not at the origin.
MemorySaveByOutcome(r, result) ==
    /\ memory' = [memory EXCEPT ![r] = Saved(@, result)]
    /\ counters' =
         [counters EXCEPT !.completed = @ + 1, !.outcomes[result.outcome] = @ + 1,
                          !.tokens = @ + result.tokens, !.cost = @ + result.cost,
                          !.review = @ + IF result.outcome \in {"clear", "evidence_consistent"}
                                         THEN 0 ELSE 1]

\* Each run is counted when its first results are stored.
MemorySave(r, result) ==
    /\ ~memory[r].gone
    /\ memory' = [memory EXCEPT ![r] = Saved(@, result)]
    /\ counters' =
         IF memory[r].completed THEN counters
         ELSE [counters EXCEPT !.completed = @ + 1, !.outcomes[result.outcome] = @ + 1,
                               !.tokens = @ + result.tokens, !.cost = @ + result.cost,
                               !.review = @ + IF HumanReview(memory'[r]) THEN 1 ELSE 0]

RowsSave(r, result) ==
    rows' = IF rows[r].gone THEN rows ELSE [rows EXCEPT ![r] = Saved(@, result)]

Failed(row) == [row EXCEPT !.status = "failed", !.failed = TRUE]

\* Unlike the statement, this one does not ask whether the details are gone.
MemoryFail(r) ==
    /\ memory' = [memory EXCEPT ![r] = Failed(@)]
    /\ counters' = IF memory[r].failed THEN counters ELSE [counters EXCEPT !.failed = @ + 1]

RowsFail(r) ==
    rows' = IF rows[r].gone THEN rows ELSE [rows EXCEPT ![r] = Failed(@)]

\* Fault: the usage goes with the details.
TombstoneUsage(row, status) ==
    [row EXCEPT !.status = status, !.gone = TRUE, !.tokens = 0, !.cost = 0]

\* Details go; what the figures are made of stays.
Tombstone(row, status) == [row EXCEPT !.status = status, !.gone = TRUE]
Removed(store, R, status) ==
    [r \in DOMAIN store |->
        IF r \in R /\ ~store[r].gone THEN Tombstone(store[r], status) ELSE store[r]]
MemoryRemove(R, status) == memory' = Removed(memory, R, status)
RowsRemove(R, status) == rows' = Removed(rows, R, status)

(***************************************************************************)
(* Who calls them.                                                         *)
(***************************************************************************)
FiguresInit ==
    /\ clock = 1
    /\ memory = <<>> /\ rows = <<>>
    /\ counters = NoCounts
    /\ executor = [r \in Run |-> "idle"]
    /\ lost = {}

Create(r, s) ==
    /\ executor[r] = "idle"
    /\ executor' = [executor EXCEPT ![r] = "running"]
    /\ memory' = Inserted(memory, r, Created(s))
    /\ rows' = Inserted(rows, r, Created(s))
    /\ counters' = [counters EXCEPT !.total = @ + 1]
    /\ UNCHANGED <<clock, lost>>

Dispatch(r) ==
    /\ executor[r] = "running"
    /\ rows[r].sub.mode = "live"
    /\ MemoryDispatch(r) /\ RowsDispatch(r)
    /\ UNCHANGED <<clock, executor, lost>>

\* A recorded run has neither usage nor cost.
Billed(r, result) ==
    IF rows[r].sub.mode = "live" THEN result
    ELSE [outcome |-> result.outcome, tokens |-> 0, cost |-> 0]

\* The executor stores the results; a lost answer looks to it as a failure.
Save(r, result, answered) ==
    /\ executor[r] = "running"
    /\ rows[r].sub.mode = "live" => rows[r].dispatched
    /\ result.outcome \in OutcomesOf(rows[r].sub.source)
    /\ MemorySave(r, Billed(r, result)) /\ RowsSave(r, Billed(r, result))
    /\ executor' = [executor EXCEPT ![r] = IF answered THEN "ended" ELSE "failing"]
    /\ lost' = IF answered THEN lost ELSE lost \cup {r}
    /\ UNCHANGED clock

\* The catch block of a run that was not cancelled.  The failed event reaches
\* the client, and with it the token, whether markFailed did anything or not.
Fail(r, written) ==
    /\ executor[r] \in {"running", "failing"}
    /\ IF written THEN MemoryFail(r) /\ RowsFail(r) ELSE UNCHANGED <<memory, counters, rows>>
    /\ executor' = [executor EXCEPT ![r] = "ended"]
    /\ UNCHANGED <<clock, lost>>

\* The catch block of a cancelled run.
Cancel(r) ==
    /\ executor[r] \in {"running", "failing"}
    /\ MemoryRemove({r}, "deleted") /\ RowsRemove({r}, "deleted")
    /\ executor' = [executor EXCEPT ![r] = "stopped"]
    /\ UNCHANGED <<clock, counters, lost>>

\* The process ends, and nobody has the token of the run.
Crash(r) ==
    /\ executor[r] \in {"running", "failing"}
    /\ executor' = [executor EXCEPT ![r] = "stopped"]
    /\ UNCHANGED <<clock, memory, counters, rows, lost>>

\* Delete now needs the token, which the last event of a run carries.
Delete(r) ==
    /\ executor[r] = "ended"
    /\ ~rows[r].gone
    /\ MemoryRemove({r}, "deleted") /\ RowsRemove({r}, "deleted")
    /\ UNCHANGED <<clock, counters, executor, lost>>

ExpiresAt(row) == row.createdAt + Retention
IsExpired(row) == ExpiresAt(row) <= clock

Purge ==
    /\ \E r \in DOMAIN rows : IsExpired(rows[r]) /\ ~rows[r].gone
    /\ MemoryRemove({r \in DOMAIN memory : IsExpired(memory[r])}, "expired")
    /\ RowsRemove({r \in DOMAIN rows : IsExpired(rows[r])}, "expired")
    /\ UNCHANGED <<clock, counters, executor, lost>>

\* A run ends, in one way or another, within a tick of its creation: a function
\* lives for minutes, the details of a run for a day.
ClockTick ==
    /\ clock < MaxClock
    /\ \A r \in Run : executor[r] \in {"running", "failing"} => clock = rows[r].createdAt
    /\ clock' = clock + 1
    /\ UNCHANGED <<memory, counters, rows, executor, lost>>

RunStep(r) ==
    \/ \E s \in Submission : Create(r, s)
    \/ Dispatch(r)
    \/ \E result \in Result, answered \in BOOLEAN : Save(r, result, answered)
    \/ \E written \in BOOLEAN : Fail(r, written)
    \/ Cancel(r)
    \/ Crash(r)
    \/ Delete(r)

FiguresNext == Purge \/ ClockTick \/ \E r \in Run : RunStep(r)

FiguresSpec == FiguresInit /\ [][FiguresNext]_figuresVars

(***************************************************************************)
(* The figures, of the runs created at or after a cutoff.  A loop over the *)
(* runs in memory adds to its counters, and a statement counts and sums    *)
(* rows: each has its own text here as in the code.                        *)
(***************************************************************************)

\* The sum of the numbers f[x]: the number of the units they are made of.
Units(f) == UNION {{x} \X (1..f[x]) : x \in DOMAIN f}
Sum(f) == Cardinality(Units(f))
TokensOf(store, S) == Sum([r \in S |-> store[r].tokens])
CostOf(store, S) == Sum([r \in S |-> store[r].cost])

\* isWithinPopulation, and the condition on created_at of every statement.
Population(cutoff) == {r \in DOMAIN memory : cutoff # NoCutoff => memory[r].createdAt >= cutoff}
Selected(cutoff) == {r \in DOMAIN rows : cutoff = NoCutoff \/ rows[r].createdAt >= cutoff}

\* aggregateAnonymousUsage in memory: the counters, unless there is a cutoff.
Recount(cutoff) ==
    LET S == Population(cutoff)
        Done == {r \in S : memory[r].completed /\ memory[r].outcome # NoOutcome}
    IN [total |-> Cardinality(S), completed |-> Cardinality(Done),
        failed |-> Cardinality({r \in S : memory[r].failed}),
        tokens |-> TokensOf(memory, Done), cost |-> CostOf(memory, Done),
        review |-> Cardinality({r \in Done : HumanReview(memory[r])}),
        providers |-> [p \in Provider |->
            Cardinality({r \in S : memory[r].dispatched /\ memory[r].sub.provider = p})],
        outcomes |-> [o \in Outcome |-> Cardinality({r \in Done : memory[r].outcome = o})]]

MemoryUsage(cutoff) == IF cutoff = NoCutoff THEN counters ELSE Recount(cutoff)

\* The condition of the column review_required_runs.
ReviewRequired(row) ==
    /\ row.completed
    /\ \/ row.outcome \in {"needs_review", "incomplete", "conflict", "not_found"}
       \/ row.sub.origin = "unverified" /\ row.outcome \in {"clear", "evidence_consistent"}

\* aggregateAnonymousUsage of the table: sums over all its rows.
RowsUsage(cutoff) ==
    LET S == Selected(cutoff)
    IN [total |-> Cardinality(S), completed |-> Cardinality({r \in S : rows[r].completed}),
        failed |-> Cardinality({r \in S : rows[r].failed}),
        tokens |-> TokensOf(rows, S), cost |-> CostOf(rows, S),
        review |-> Cardinality({r \in S : ReviewRequired(rows[r])}),
        providers |-> [p \in Provider |->
            Cardinality({r \in S : rows[r].dispatched /\ rows[r].sub.provider = p})],
        outcomes |-> [o \in Outcome |-> Cardinality({r \in S : rows[r].outcome = o})]]

\* aggregateSourceOrigins in memory: each run adds one to a counter.
MemoryOrigins(cutoff) ==
    LET Added(origin) ==
            Sum([r \in Population(cutoff) |-> IF memory[r].sub.origin = origin THEN 1 ELSE 0])
    IN [serverOriginal |-> Added("server_original"),
        recognizedCopy |-> Added("recognized_copy"), unverified |-> Added("unverified")]

\* The same of the table.
RowsOrigins(cutoff) ==
    LET Counted(origin) == Cardinality({r \in Selected(cutoff) : rows[r].sub.origin = origin})
    IN [serverOriginal |-> Counted("server_original"),
        recognizedCopy |-> Counted("recognized_copy"), unverified |-> Counted("unverified")]

\* Runs whose cost is confirmed by a usage that can be trusted.
IsConfirmed(row) == row.completed /\ row.dispatched /\ row.completedAt <= clock /\ row.tokens > 0

\* Date.UTC of this year and month, and of this year, month and day.
MonthStart == Month * (clock \div Month)
TodayStart == MonthStart + Day * ((clock % Month) \div Day)

\* Each run of S adds itself and its cost to the entry of a Map under its key.
MapEntries(S, key) ==
    [k \in {key[r] : r \in S} |->
        [runs |-> Sum([r \in S |-> IF key[r] = k THEN 1 ELSE 0]),
         cost |-> Sum([r \in S |-> IF key[r] = k THEN memory[r].cost ELSE 0])]]

\* aggregateConfirmedModelCosts in memory.
MemoryCosts(cutoff) ==
    LET S == {r \in Population(cutoff) : IsConfirmed(memory[r])}
        InFamily == {r \in S : memory[r].sub.family # NoFamily}
        Since(start) ==
            Sum([r \in S |-> IF memory[r].completedAt >= start THEN memory[r].cost ELSE 0])
    IN [runs |-> Cardinality(S), tokens |-> TokensOf(memory, S), total |-> CostOf(memory, S),
        today |-> Since(TodayStart), month |-> Since(MonthStart),
        byModel |-> MapEntries(S, [r \in S |-> <<memory[r].sub.provider, memory[r].sub.model>>]),
        byFamily |-> MapEntries(InFamily, [r \in InFamily |-> memory[r].sub.family])]

\* The rows of eligible_confirmed_runs that confirmed_runs keeps.
Eligible(row) ==
    /\ row.dispatched /\ row.completed /\ row.sub.provider \in Provider
    /\ row.completedAt # NotYet /\ row.completedAt <= clock
    /\ row.tokens > 0
ConfirmedRuns(cutoff) == {r \in Selected(cutoff) : Eligible(rows[r])}

DateTrunc(unit, t) == t - (t % unit)

\* COUNT and SUM of the rows S, grouped by a column.
GroupBy(S, column) ==
    LET Group(k) == {r \in S : column[r] = k}
    IN [k \in {column[r] : r \in S} |->
          [runs |-> Cardinality(Group(k)), cost |-> CostOf(rows, Group(k))]]

\* aggregateConfirmedModelCosts of the table: three statements.
CostSummary(cutoff) ==
    LET S == ConfirmedRuns(cutoff)
        From(start) == {r \in S : rows[r].completedAt >= start}
    IN [runs |-> Cardinality(S), tokens |-> TokensOf(rows, S), total |-> CostOf(rows, S),
        today |-> CostOf(rows, From(DateTrunc(Day, clock))),
        month |-> CostOf(rows, From(DateTrunc(Month, clock)))]
CostByModel(cutoff) ==
    LET S == ConfirmedRuns(cutoff)
    IN GroupBy(S, [r \in S |-> <<rows[r].sub.provider, rows[r].sub.model>>])
CostByFamily(cutoff) ==
    LET S == {r \in ConfirmedRuns(cutoff) : rows[r].sub.family \in DocumentFamily}
    IN GroupBy(S, [r \in S |-> rows[r].sub.family])
RowsCosts(cutoff) ==
    LET summary == CostSummary(cutoff)
    IN [runs |-> summary.runs, tokens |-> summary.tokens, total |-> summary.total,
        today |-> summary.today, month |-> summary.month,
        byModel |-> CostByModel(cutoff), byFamily |-> CostByFamily(cutoff)]

\* aggregateActiveDetailLifecycle in memory: by the time that remains.
MemoryLifecycle(cutoff) ==
    LET Remaining(r) == ExpiresAt(memory[r]) - clock
        Active == {r \in Population(cutoff) :
                     /\ ~memory[r].gone /\ memory[r].status \notin {"expired", "deleted"}
                     /\ Remaining(r) \in 1..Retention}
        Within(a, b) == Cardinality({r \in Active : Remaining(r) \in (a + 1)..b})
    IN [active |-> Cardinality(Active),
        uploads |-> Cardinality({r \in Active : memory[r].sub.source = "custom"}),
        buckets |-> <<Within(0, Hour), Within(Hour, SixHours), Within(SixHours, Retention)>>]

\* The same of the table: by the time of expiry.
RowsLifecycle(cutoff) ==
    LET Active == {r \in Selected(cutoff) :
                     /\ ~rows[r].gone /\ rows[r].status \notin {"expired", "deleted"}
                     /\ ExpiresAt(rows[r]) > clock /\ ExpiresAt(rows[r]) <= clock + Retention}
        After(t) == {r \in Active : ExpiresAt(rows[r]) > clock + t}
        Until(t) == {r \in Active : ExpiresAt(rows[r]) <= clock + t}
    IN [active |-> Cardinality(Active),
        uploads |-> Cardinality({r \in Active : rows[r].sub.source = "custom"}),
        buckets |-> <<Cardinality(Until(Hour)), Cardinality(After(Hour) \cap Until(SixHours)),
                      Cardinality(After(SixHours) \cap Until(Retention))>>]

\* Fault: what the row says, though it has expired and is not yet purged.
StoredStatus(row) == row.status

\* The status the public reads of a run: toPublicRun in memory, publicFromRow of a row.
PublicStatus(run) == IF IsExpired(run) /\ run.status # "deleted" THEN "expired" ELSE run.status
RowStatus(row) == IF row.status # "deleted" /\ IsExpired(row) THEN "expired" ELSE row.status

\* Whether the details of a row come with it.
HasDetails(row) == ~(IsExpired(row) \/ row.gone \/ RowStatus(row) \in {"expired", "deleted"})

\* The latest RunLimit runs of S; those created in the same tick come in any order.
Latest(store, S) ==
    {L \in SUBSET S :
        /\ IF Cardinality(S) <= RunLimit THEN L = S ELSE Cardinality(L) = RunLimit
        /\ \A r \in L, q \in S \ L : store[q].createdAt <= store[r].createdAt}

\* listPublicRuns: the lists a page may be given.
PublicRun(row, status) == [sub |-> row.sub, outcome |-> row.outcome, status |-> status]
MemoryLists(cutoff) ==
    {[r \in L |-> PublicRun(memory[r], PublicStatus(memory[r]))] :
        L \in Latest(memory, Population(cutoff))}
RowsLists(cutoff) ==
    {[r \in L |-> PublicRun(rows[r], RowStatus(rows[r]))] : L \in Latest(rows, Selected(cutoff))}

\* The tiles of the Operations page, from the listed runs.
WorkflowStatus(list) ==
    LET Shown(status) == {r \in DOMAIN list : list[r].status = status}
        Done == Shown("completed")
    IN [ready |-> Cardinality({r \in Done :
            ~OriginReview(list[r]) /\ list[r].outcome \in {"clear", "evidence_consistent"}}),
        needsAttention |-> Cardinality({r \in Done :
            OriginReview(list[r]) \/ list[r].outcome \in {"needs_review", "conflict"}}),
        incomplete |-> Cardinality({r \in Done : list[r].outcome \in {"incomplete", "not_found"}}),
        processingErrors |-> Cardinality(Shown("failed"))]

(***************************************************************************)
(* Properties.                                                             *)
(***************************************************************************)
Cutoffs == Cutoff \cup {NoCutoff}

\* The running counters of the one repository, its recount behind a cutoff and
\* the sums over the table of the other are the same figures, whatever became
\* of the runs: so are the origins, the confirmed costs, the active documents
\* and the tiles.  The tests of the pages run on the first of the two.
SameFigures ==
    \A c \in Cutoffs :
        /\ MemoryUsage(c) = RowsUsage(c)
        /\ MemoryOrigins(c) = RowsOrigins(c)
        /\ MemoryCosts(c) = RowsCosts(c)
        /\ MemoryLifecycle(c) = RowsLifecycle(c)
        /\ {WorkflowStatus(list) : list \in MemoryLists(c)}
             = {WorkflowStatus(list) : list \in RowsLists(c)}

GroupCosts(g) == Sum([k \in DOMAIN g |-> g[k].cost])

\* A run is completed or failed, and both only if the answer that its results
\* are stored was lost; each completed run has one outcome.
EachEndsOnce(c, usage) ==
    /\ usage.completed + usage.failed <= usage.total + Cardinality(lost \cap Selected(c))
    /\ Sum(usage.outcomes) = usage.completed

\* A day is part of its month and a month of the total.
DatesAddUp(summary) == summary.today <= summary.month /\ summary.month <= summary.total

\* Each run whose details can be read is an active document and in one bucket
\* of the expiry times.
ActiveIsReadable(c, lifecycle) ==
    /\ lifecycle.active = Cardinality({r \in Selected(c) : HasDetails(rows[r])})
    /\ lifecycle.active = lifecycle.buckets[1] + lifecycle.buckets[2] + lifecycle.buckets[3]

\* What one statement answers agrees with itself, so this holds of every answer.
StatementsAddUp(c) ==
    /\ EachEndsOnce(c, RowsUsage(c))
    /\ DatesAddUp(CostSummary(c))
    /\ ActiveIsReadable(c, RowsLifecycle(c))

\* The costs by model and by document family are parts of the confirmed total,
\* and no run has a cost that is not confirmed.
CostsAddUp(costs, usage) ==
    /\ costs.total = usage.cost
    /\ GroupCosts(costs.byModel) = costs.total /\ GroupCosts(costs.byFamily) <= costs.total

\* Each tile counts active documents.
TilesAreActive(lifecycle, tiles) ==
    tiles.ready + tiles.needsAttention + tiles.incomplete + tiles.processingErrors
      <= lifecycle.active

\* The review rate counts the runs on the two review tiles, and those that
\* needed a review and have since expired, been deleted, been marked failed or
\* left the list.
ReviewAddsUp(c, usage, list) ==
    LET Tiled(r) == r \in DOMAIN list /\ list[r].status = "completed"
        Past == {r \in Selected(c) : ReviewRequired(rows[r]) /\ ~Tiled(r)}
        tiles == WorkflowStatus(list)
    IN usage.review = tiles.needsAttention + tiles.incomplete + Cardinality(Past)

\* The figures of one state of the table agree with each other and with what can
\* be read of the runs, whatever has expired, been deleted or been stored without
\* an answer.  An answer is made by statements without a transaction: what relates
\* two of them holds of an answer while no run changes between the two.
FiguresAddUp ==
    \A c \in Cutoffs :
        /\ StatementsAddUp(c)
        /\ CostsAddUp(RowsCosts(c), RowsUsage(c))
        /\ \A list \in RowsLists(c) :
               /\ TilesAreActive(RowsLifecycle(c), WorkflowStatus(list))
               /\ ReviewAddsUp(c, RowsUsage(c), list)

AtLeast(old, new) ==
    /\ \A f \in {"total", "completed", "failed", "tokens", "cost", "review"} : old[f] <= new[f]
    /\ \A p \in Provider : old.providers[p] <= new.providers[p]
    /\ \A o \in Outcome : old.outcomes[o] <= new.outcomes[o]

\* No step takes anything from the figures of all time or from the confirmed
\* costs: deletion and expiry remove a run's details and leave what it counted for.
FiguresOnlyGrow ==
    [][LET usage == RowsUsage(NoCutoff)
           costs == RowsCosts(NoCutoff)
       IN /\ AtLeast(usage, usage')
          /\ costs.runs <= costs'.runs /\ costs.total <= costs'.total]_rows
=============================================================================
