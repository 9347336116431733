----------------------------- MODULE QuotaLedger -----------------------------
(***************************************************************************)
(* The daily quota and model-budget ledger: tables daily_usage and         *)
(* model_budget_reservations, and the SQL functions that NeonQuota-        *)
(* Repository (src/src/server/security/rate-limit.ts) calls on them.  Each *)
(* call is one transaction here: the row locks it takes first make it one, *)
(* and a plan for a module about them is in README.md.                     *)
(*                                                                         *)
(* Money is a whole number of units.  A sum of reserved costs is the       *)
(* cardinality of the set of the units reserved, which is the same number  *)
(* and is what the proofs reason about.                                    *)
(***************************************************************************)
EXTENDS Naturals, FiniteSets

CONSTANTS
    Reservation,    \* reservation ids; every reserve call draws a fresh one
    Bucket,         \* anonymous browser buckets
    Cost,           \* costs a reserve call may ask for
    Actual,         \* costs a settlement may report, in excess or not
    Budget,         \* p_budget: dailyBudgetUsd
    Lease,          \* p_lease_seconds
    DayLength,      \* clock ticks in a UTC day
    Limit,          \* per bucket and day: custom, live, recorded
    GlobalLimit,    \* per day: custom, recorded
    Skew,           \* how far behind the clock the "now" of a caller may be
    MaxTime         \* bound on the clock

Time == 0..MaxTime
DayOf(t) == t \div DayLength                            \* utcDay
Day == {DayOf(t) : t \in Time}

Kind == {"custom", "live", "recorded"}
GlobalKind == {"custom", "recorded"}

ASSUME LedgerAssumption ==
    /\ IsFiniteSet(Reservation)
    /\ Cost \subseteq Nat \ {0}
    /\ Actual \subseteq Nat
    /\ Budget \in Nat
    /\ Lease \in Nat \ {0}
    /\ DayLength \in Nat \ {0}
    /\ Limit \in [Kind -> Nat]
    /\ GlobalLimit \in [GlobalKind -> Nat]
    /\ Skew \in Nat
    /\ MaxTime \in Nat

VARIABLES
    now,            \* the clock
    reservations,   \* model_budget_reservations
    spend,          \* daily_usage.global_spend_usd
    bucketUsage,    \* daily_usage.anonymous_buckets
    globalUsage     \* daily_usage.global_custom_uploads, global_recorded_runs

vars == <<now, reservations, spend, bucketUsage, globalUsage>>

ReservationRow ==
    [status : {"absent", "pending", "settled", "released"},
     day : Day, reserved : 0..Budget, actual : 0..Budget,
     dispatched : BOOLEAN, expires : Nat]

AbsentRow ==
    [status |-> "absent", day |-> DayOf(0), reserved |-> 0, actual |-> 0,
     dispatched |-> FALSE, expires |-> 0]

Init ==
    /\ now = 0
    /\ reservations = [r \in Reservation |-> AbsentRow]
    /\ spend = [d \in Day |-> 0]
    /\ bucketUsage = [d \in Day |-> [b \in Bucket |-> [k \in Kind |-> 0]]]
    /\ globalUsage = [d \in Day |-> [k \in GlobalKind |-> 0]]

-----------------------------------------------------------------------------
(* Sums over reservation rows.                                             *)

\* The sum of f over R, a set of reservations; f[r] is at most Budget.
Total(f, R) == Cardinality({u \in R \X (1..Budget) : u[2] <= f[u[1]]})

ReservedCost(rows) == [r \in Reservation |-> rows[r].reserved]
ActualCost(rows) == [r \in Reservation |-> rows[r].actual]

Pending(rows, d) ==
    {r \in Reservation : rows[r].status = "pending" /\ rows[r].day = d}

Settled(rows, d) ==
    {r \in Reservation : rows[r].status = "settled" /\ rows[r].day = d}

\* SUM(reserved_cost_usd) over the pending rows of a day.
PendingCost(rows, d) == Total(ReservedCost(rows), Pending(rows, d))

-----------------------------------------------------------------------------
(* reconcile_stale_daily_quota(p_day, p_now): leases that have run out are  *)
(* released when nothing was dispatched under them, and otherwise settled   *)
(* at the full reserved cost.                                               *)

\* Fault: only the leases of the caller's own day are swept.
StaleOfTheDay(d, t) ==
    {r \in Reservation : /\ reservations[r].status = "pending"
                         /\ reservations[r].day = d
                         /\ reservations[r].expires <= t}

Stale(d, t) ==
    {r \in Reservation : /\ reservations[r].status = "pending"
                         /\ reservations[r].day <= d
                         /\ reservations[r].expires <= t}

\* Fault: the sweep ignores dispatched_at.
NoDispatchEvidence(d, t) == {}

StaleDispatched(d, t) == {r \in Stale(d, t) : reservations[r].dispatched}

Reconciled(d, t) ==
    [r \in Reservation |->
        IF r \in StaleDispatched(d, t)
        THEN [reservations[r] EXCEPT !.status = "settled",
                                     !.actual = reservations[r].reserved]
        ELSE IF r \in Stale(d, t)
        THEN [reservations[r] EXCEPT !.status = "released", !.actual = 0]
        ELSE reservations[r]]

\* Fault: the sweep closes the rows and forgets the counter.
SpendNotReconciled(d, t) == [x \in Day |-> spend[x]]

ReconciledSpend(d, t) ==
    [x \in Day |->
        spend[x] + Total(ReservedCost(reservations),
                         StaleDispatched(d, t) \cap Pending(reservations, x))]

-----------------------------------------------------------------------------
(* reserve_daily_quota                                                      *)

SourceType == {"synthetic", "custom"}
ExecutionMode == {"recorded", "live"}

\* The counters a request draws on (p_custom, p_live, p_recorded).
Kinds(source, mode) ==
    (IF source = "custom" THEN {"custom"} ELSE {})
        \cup (IF mode = "live" THEN {"live"} ELSE {})
        \cup (IF source = "synthetic" /\ mode = "recorded"
              THEN {"recorded"} ELSE {})

\* Fault: the budget test forgets what is held for runs in flight.
WithinSpentBudget(d, t, cost) == ReconciledSpend(d, t)[d] + cost <= Budget

WithinBudget(d, t, cost) ==
    ReconciledSpend(d, t)[d] + PendingCost(Reconciled(d, t), d) + cost <= Budget

\* The answer, in the order in which the function looks at its limits; enabled
\* is p_live_enabled.
Decision(b, source, mode, enabled, cost, t) ==
    LET d == DayOf(t)
        Used(k) == k \in Kinds(source, mode) /\ bucketUsage[d][b][k] >= Limit[k]
        UsedByAll(k) ==
            k \in Kinds(source, mode) /\ globalUsage[d][k] >= GlobalLimit[k]
    IN  IF mode = "live" /\ ~enabled THEN "live_disabled"
        ELSE IF Used("custom") THEN "custom_upload_limit"
        ELSE IF Used("live") THEN "live_run_limit"
        ELSE IF UsedByAll("custom") THEN "global_custom_upload_limit"
        ELSE IF Used("recorded") THEN "recorded_run_limit"
        ELSE IF UsedByAll("recorded") THEN "global_recorded_run_limit"
        ELSE IF mode = "live" /\ ~WithinBudget(d, t, cost) THEN "daily_budget"
        ELSE "allowed"

Charge(b, d, kinds) ==
    /\ bucketUsage' = [bucketUsage EXCEPT ![d][b] =
                          [k \in Kind |-> bucketUsage[d][b][k]
                                            + (IF k \in kinds THEN 1 ELSE 0)]]
    /\ globalUsage' = [globalUsage EXCEPT ![d] =
                          [k \in GlobalKind |-> globalUsage[d][k]
                                            + (IF k \in kinds THEN 1 ELSE 0)]]

\* A live run is allowed: its cost is held under a new pending reservation.
\* The bound on t keeps every lease's end within the clock's bound.
ReserveLive(r, b, source, cost, t) ==
    LET d == DayOf(t)
        kinds == Kinds(source, "live")
    IN  /\ reservations[r].status = "absent"
        /\ t + Lease <= MaxTime
        /\ Decision(b, source, "live", TRUE, cost, t) = "allowed"
        /\ spend' = ReconciledSpend(d, t)
        /\ reservations' = [Reconciled(d, t) EXCEPT ![r] =
               [status |-> "pending", day |-> d, reserved |-> cost,
                actual |-> 0, dispatched |-> FALSE, expires |-> t + Lease]]
        /\ Charge(b, d, kinds)
        /\ UNCHANGED now

\* A recorded run is allowed: counters only, no reservation.
ReserveRecorded(b, source, t) ==
    LET d == DayOf(t)
        kinds == Kinds(source, "recorded")
    IN  /\ Decision(b, source, "recorded", TRUE, 0, t) = "allowed"
        /\ spend' = ReconciledSpend(d, t)
        /\ reservations' = Reconciled(d, t)
        /\ Charge(b, d, kinds)
        /\ UNCHANGED now

\* A denial: the stale leases have been reconciled by then and stay so.  A
\* caller asks for a live run only when live runs are enabled; live_disabled
\* would return before a row is touched.
ReserveDenied(b, source, mode, cost, t) ==
    /\ Decision(b, source, mode, TRUE, cost, t) # "allowed"
    /\ spend' = ReconciledSpend(DayOf(t), t)
    /\ reservations' = Reconciled(DayOf(t), t)
    /\ UNCHANGED <<now, bucketUsage, globalUsage>>

-----------------------------------------------------------------------------
(* The operations on one reservation.  On a row that is not pending each    *)
(* of them changes nothing; its answer is what the row's status decides.    *)

MarkDispatched(r) ==
    /\ reservations[r].status = "pending"
    /\ reservations' = [reservations EXCEPT ![r].dispatched = TRUE]
    /\ UNCHANGED <<now, spend, bucketUsage, globalUsage>>

ClearDispatched(r) ==
    /\ reservations[r].status = "pending"
    /\ reservations' = [reservations EXCEPT ![r].dispatched = FALSE]
    /\ UNCHANGED <<now, spend, bucketUsage, globalUsage>>

SettleAt(r, cost) ==
    /\ reservations[r].status = "pending"
    /\ reservations' = [reservations EXCEPT ![r].status = "settled",
                                            ![r].actual = cost]
    /\ spend' = [spend EXCEPT ![reservations[r].day] = @ + cost]
    /\ UNCHANGED <<now, bucketUsage, globalUsage>>

\* Fault: the cap of migration 0006 is missing (as in migration 0004).
Uncapped(r, cost) == cost

\* What a settlement charges: the reported cost, capped at the reservation.
Capped(r, cost) ==
    IF cost > reservations[r].reserved THEN reservations[r].reserved ELSE cost

Settle(r, cost) == SettleAt(r, Capped(r, cost))

SettleConservatively(r) == SettleAt(r, reservations[r].reserved)

\* Fault: a release does not look at the status.
ReleaseAnyStatus(r) ==
    /\ reservations[r].status # "absent"
    /\ reservations' = [reservations EXCEPT ![r].status = "released"]
    /\ UNCHANGED <<now, spend, bucketUsage, globalUsage>>

Release(r) ==
    /\ reservations[r].status = "pending"
    /\ reservations' = [reservations EXCEPT ![r].status = "released"]
    /\ UNCHANGED <<now, spend, bucketUsage, globalUsage>>

Settlement(status, cost) == [status |-> status, actual |-> cost]

\* What a settlement answers about a row that is not pending.
Closed(row) ==
    IF row.status = "absent" THEN Settlement("not_found", 0)
    ELSE IF row.status = "released" THEN Settlement("released", 0)
    ELSE Settlement("already_settled", row.actual)

\* settle_daily_quota without p_release
SettleAnswer(r, cost) ==
    LET row == reservations[r]
    IN  IF row.status # "pending" THEN Closed(row)
        ELSE Settlement(IF cost > row.reserved THEN "reservation_exceeded" ELSE "settled",
                        Capped(r, cost))

\* settle_reserved_daily_quota
ConservativeAnswer(r) ==
    LET row == reservations[r]
    IN  IF row.status # "pending" THEN Closed(row) ELSE Settlement("settled", row.reserved)

\* settle_daily_quota with p_release: its caller is told whether this call
\* released, and a reservation released before answers already_released.
ReleaseAnswer(r) ==
    LET row == reservations[r]
        status == IF row.status = "pending" THEN "released"
                  ELSE IF row.status = "released" THEN "already_released"
                  ELSE Closed(row).status
    IN  status = "released"

\* mark_daily_quota_dispatched, and the UPDATE that takes the mark back: the
\* caller is told whether there was a pending row.
DispatchAnswer(r) == reservations[r].status = "pending"

\* snapshot: its first statement reconciles, the second only reads.
Snapshot(t) ==
    /\ reservations' = Reconciled(DayOf(t), t)
    /\ spend' = ReconciledSpend(DayOf(t), t)
    /\ UNCHANGED <<now, bucketUsage, globalUsage>>

\* What the second statement counts as held, under the first one's rows.
SnapshotHeld(t) ==
    LET rows == Reconciled(DayOf(t), t)
    IN  Total(ReservedCost(rows), {r \in Pending(rows, DayOf(t)) : rows[r].expires > t})

Tick ==
    /\ now < MaxTime
    /\ now' = now + 1
    /\ UNCHANGED <<reservations, spend, bucketUsage, globalUsage>>

-----------------------------------------------------------------------------

\* The instants a caller may pass as p_now: read before the statement runs.
CallerNow == {t \in Time : t <= now /\ now <= t + Skew}

Reserve ==
    \E b \in Bucket, source \in SourceType, t \in CallerNow :
        \/ \E r \in Reservation, cost \in Cost : ReserveLive(r, b, source, cost, t)
        \/ ReserveRecorded(b, source, t)
        \/ \E mode \in ExecutionMode, cost \in Cost :
               ReserveDenied(b, source, mode, cost, t)

OnReservation(r) ==
    \/ MarkDispatched(r)
    \/ ClearDispatched(r)
    \/ \E cost \in Actual : Settle(r, cost)
    \/ SettleConservatively(r)
    \/ Release(r)

Next ==
    \/ Reserve
    \/ \E r \in Reservation : OnReservation(r)
    \/ \E t \in CallerNow : Snapshot(t)
    \/ Tick

Spec == Init /\ [][Next]_vars

-----------------------------------------------------------------------------
(* Properties                                                              *)

\* The rows and counters have the shape the schema gives them, and no
\* reservation is charged more than was reserved under it.
TypeOK ==
    /\ now \in Time
    /\ reservations \in [Reservation -> ReservationRow]
    /\ \A r \in Reservation : reservations[r].actual <= reservations[r].reserved
    /\ spend \in [Day -> Nat]
    /\ bucketUsage \in [Day -> [Bucket -> [Kind -> Nat]]]
    /\ globalUsage \in [Day -> [GlobalKind -> Nat]]

\* Whatever the order of reservations, settlements, releases and sweeps, the
\* money spent on a day and the money still held for it never exceed the
\* daily budget (reserve_daily_quota, settle_daily_quota and the sweep).
BudgetRespected ==
    \A d \in Day : spend[d] + PendingCost(reservations, d) <= Budget

\* The spend counter of daily_usage is the sum of the actual costs of the
\* reservations settled on that day: no settlement is lost or applied twice.
SpendIsSettledCost ==
    \A d \in Day :
        spend[d] = Total(ActualCost(reservations), Settled(reservations, d))

\* A reservation that was settled or released never changes again, in status
\* or in the cost charged for it, whoever calls the ledger afterwards.
ClosedIsFinal ==
    [][\A r \in Reservation :
           reservations[r].status \in {"settled", "released"}
               => reservations'[r] = reservations[r]]_vars

\* The sweep never gives back money a provider may already have earned: a
\* reservation marked dispatched becomes released only by an explicit call.
SweepKeepsDispatched ==
    [][\A r \in Reservation :
           /\ reservations[r].status = "pending"
           /\ reservations[r].dispatched
           /\ reservations'[r].status = "released"
           => Release(r)]_vars

=============================================================================
