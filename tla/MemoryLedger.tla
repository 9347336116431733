----------------------------- MODULE MemoryLedger -----------------------------
(***************************************************************************)
(* InMemoryQuotaRepository (src/src/server/security/rate-limit.ts), the    *)
(* ledger of one process that development and the tests run on, as the     *)
(* promise the database's ledger has to keep: the same call has the same   *)
(* effect and, but for the reason of some denials, the same answer.        *)
(* withLock queues the calls, so each is one action.                       *)
(* A reservation or a day that its Maps do not hold is the ledger's absent *)
(* row or its row of zeros.                                                *)
(***************************************************************************)
EXTENDS QuotaLedger

-----------------------------------------------------------------------------
(* reclaimStaleReservations walks all reservations, whatever their day.     *)

Expired(r, t) ==
    /\ reservations[r].status = "pending"
    /\ reservations[r].expires <= t

Spent(r, t) == Expired(r, t) /\ reservations[r].dispatched

Reclaimed(t) ==
    [r \in Reservation |->
        IF Spent(r, t) THEN [reservations[r] EXCEPT !.status = "settled",
                                                    !.actual = reservations[r].reserved]
        ELSE IF Expired(r, t) THEN [reservations[r] EXCEPT !.status = "released"]
        ELSE reservations[r]]

ReclaimedSpend(t) ==
    [d \in Day |->
        spend[d] + Total(ReservedCost(reservations),
                         {r \in Reservation : Spent(r, t) /\ reservations[r].day = d})]

Reclaim(t) ==
    /\ reservations' = Reclaimed(t)
    /\ spend' = ReclaimedSpend(t)
    /\ UNCHANGED <<now, bucketUsage, globalUsage>>

-----------------------------------------------------------------------------
(* reserve                                                                  *)

IsRecordedSynthetic(source, mode) == source = "synthetic" /\ mode = "recorded"

\* What is left of the day's budget, after the expired leases are reclaimed.
BudgetAllows(d, t, cost) ==
    ReclaimedSpend(t)[d] + PendingCost(Reclaimed(t), d) + cost <= Budget

\* The early returns, in their order.
MemoryDecision(b, source, mode, enabled, cost, t) ==
    LET d == DayOf(t)
        recordedSynthetic == IsRecordedSynthetic(source, mode)
        Full(k) == bucketUsage[d][b][k] >= Limit[k]
        FullForAll(k) == globalUsage[d][k] >= GlobalLimit[k]
    IN  IF source = "custom" /\ Full("custom") THEN "custom_upload_limit"
        ELSE IF source = "custom" /\ FullForAll("custom") THEN "global_custom_upload_limit"
        ELSE IF recordedSynthetic /\ Full("recorded") THEN "recorded_run_limit"
        ELSE IF recordedSynthetic /\ FullForAll("recorded") THEN "global_recorded_run_limit"
        ELSE IF mode = "live" /\ ~enabled THEN "live_disabled"
        ELSE IF mode = "live" /\ Full("live") THEN "live_run_limit"
        ELSE IF mode = "live" /\ ~BudgetAllows(d, t, cost) THEN "daily_budget"
        ELSE "allowed"

Bump(kinds, uses) == [k \in DOMAIN uses |-> IF k \in kinds THEN uses[k] + 1 ELSE uses[k]]

CountUse(b, d, source, mode) ==
    LET kinds == {k \in Kind :
                    \/ k = "custom" /\ source = "custom"
                    \/ k = "live" /\ mode = "live"
                    \/ k = "recorded" /\ IsRecordedSynthetic(source, mode)}
    IN /\ bucketUsage' = [bucketUsage EXCEPT ![d][b] = Bump(kinds, bucketUsage[d][b])]
       /\ globalUsage' = [globalUsage EXCEPT ![d] = Bump(kinds, globalUsage[d])]

Held(d, t, cost) ==
    [status |-> "pending", day |-> d, reserved |-> cost, actual |-> 0,
     dispatched |-> FALSE, expires |-> t + Lease]

AllowLive(r, b, source, cost, t) ==
    /\ reservations[r] = AbsentRow
    /\ MemoryDecision(b, source, "live", TRUE, cost, t) = "allowed"
    /\ reservations' = [Reclaimed(t) EXCEPT ![r] = Held(DayOf(t), t, cost)]
    /\ spend' = ReclaimedSpend(t)
    /\ CountUse(b, DayOf(t), source, "live")
    /\ UNCHANGED now

AllowRecorded(b, source, t) ==
    /\ MemoryDecision(b, source, "recorded", TRUE, 0, t) = "allowed"
    /\ reservations' = Reclaimed(t)
    /\ spend' = ReclaimedSpend(t)
    /\ CountUse(b, DayOf(t), source, "recorded")
    /\ UNCHANGED now

Deny(b, source, mode, cost, t) ==
    /\ MemoryDecision(b, source, mode, TRUE, cost, t) # "allowed"
    /\ Reclaim(t)

-----------------------------------------------------------------------------
(* The calls on one reservation: each returns early unless it is pending.   *)

SetDispatched(r, value) ==
    /\ reservations[r].status = "pending"
    /\ reservations' = [reservations EXCEPT ![r].dispatched = value]
    /\ UNCHANGED <<now, spend, bucketUsage, globalUsage>>

Settles(r, cost) ==
    /\ reservations[r].status = "pending"
    /\ reservations' = [reservations EXCEPT ![r].status = "settled", ![r].actual = cost]
    /\ spend' = [spend EXCEPT ![reservations[r].day] = @ + cost]
    /\ UNCHANGED <<now, bucketUsage, globalUsage>>

SettleReservation(r, reported) ==
    Settles(r, IF reported > reservations[r].reserved THEN reservations[r].reserved
               ELSE reported)

SettleReservationConservatively(r) == Settles(r, reservations[r].reserved)

ReleaseReservation(r) ==
    /\ reservations[r].status = "pending"
    /\ reservations' = [reservations EXCEPT ![r].status = "released"]
    /\ UNCHANGED <<now, spend, bucketUsage, globalUsage>>

\* The answers: the early returns both settlements share, then what is charged.
EarlyReturn(reservation) ==
    [status |-> CASE reservation.status = "absent" -> "not_found"
                  [] reservation.status = "released" -> "released"
                  [] reservation.status = "settled" -> "already_settled",
     actual |-> IF reservation.status = "settled" THEN reservation.actual ELSE 0]

MemorySettleAnswer(r, reported) ==
    LET reservation == reservations[r]
    IN  IF reservation.status # "pending" THEN EarlyReturn(reservation)
        ELSE IF reported > reservation.reserved
        THEN [status |-> "reservation_exceeded", actual |-> reservation.reserved]
        ELSE [status |-> "settled", actual |-> reported]

MemoryConservativeAnswer(r) ==
    LET reservation == reservations[r]
    IN  IF reservation.status # "pending" THEN EarlyReturn(reservation)
        ELSE [status |-> "settled", actual |-> reservation.reserved]

\* markLiveReservationDispatched, clearLiveReservationDispatched and
\* releaseLiveReservation answer alike.
MemoryFlagAnswer(r) == reservations[r].status = "pending"

-----------------------------------------------------------------------------
(* The two ledgers, call by call.                                           *)

\* The reasons on which the two disagree.  Where both limits are used up a
\* custom live upload hears of its own live runs from the database and of
\* everyone's uploads from memory; and the database says live_disabled before
\* it looks at any limit.
SameReason(decision, inMemory) ==
    \/ decision = inMemory
    \/ decision = "live_run_limit" /\ inMemory = "global_custom_upload_limit"
    \/ /\ decision = "live_disabled"
       /\ inMemory \in {"custom_upload_limit", "global_custom_upload_limit"}

\* For the same call in the same state both ledgers answer alike: the sweep of
\* the days up to the caller's own misses no lease of a later day, so the same
\* runs are admitted; a denial has the same reason or one of the two pairs of
\* SameReason; settlements, marks and releases answer the same, whatever
\* became of the reservation; and a snapshot counts the same money as held.
AnswersAsInMemory ==
    /\ \A b \in Bucket, source \in SourceType, mode \in ExecutionMode,
          enabled \in BOOLEAN, cost \in Cost, t \in CallerNow :
           SameReason(Decision(b, source, mode, enabled, cost, t),
                      MemoryDecision(b, source, mode, enabled, cost, t))
    /\ \A r \in Reservation :
          /\ \A cost \in Actual : SettleAnswer(r, cost) = MemorySettleAnswer(r, cost)
          /\ ConservativeAnswer(r) = MemoryConservativeAnswer(r)
          /\ DispatchAnswer(r) = MemoryFlagAnswer(r)
          /\ ReleaseAnswer(r) = MemoryFlagAnswer(r)
    /\ \A t \in CallerNow : SnapshotHeld(t) = PendingCost(Reclaimed(t), DayOf(t))

ReserveAsInMemory ==
    \A b \in Bucket, source \in SourceType, t \in CallerNow :
        /\ \A r \in Reservation, cost \in Cost :
              ReserveLive(r, b, source, cost, t) => AllowLive(r, b, source, cost, t)
        /\ ReserveRecorded(b, source, t) => AllowRecorded(b, source, t)
        /\ \A mode \in ExecutionMode, cost \in Cost :
              ReserveDenied(b, source, mode, cost, t) => Deny(b, source, mode, cost, t)

CallsAsInMemory ==
    /\ \A r \in Reservation :
          /\ MarkDispatched(r) => SetDispatched(r, TRUE)
          /\ ClearDispatched(r) => SetDispatched(r, FALSE)
          /\ \A cost \in Actual : Settle(r, cost) => SettleReservation(r, cost)
          /\ SettleConservatively(r) => SettleReservationConservatively(r)
          /\ Release(r) => ReleaseReservation(r)
    /\ \A t \in CallerNow : Snapshot(t) => Reclaim(t)

\* A call that changes the database's ledger is the same call, with the same
\* arguments, of the in-memory ledger: the same rows are swept, the same
\* counters drawn on and the same cost charged, for every call a step can be.
ActsAsInMemory == [][ReserveAsInMemory /\ CallsAsInMemory]_vars
=============================================================================
