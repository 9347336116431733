-------------------------- MODULE QuotaLedgerProofs --------------------------
(* Theorems about QuotaLedger, for every value of its constants, and that   *)
(* it does what the in-memory ledger does.                                  *)
EXTENDS MemoryLedger, FiniteSetTheorems, TLAPS

-----------------------------------------------------------------------------
(* Sums.                                                                   *)

\* The units that Total counts form a finite set, so a sum is a number.
LEMMA UnitsFinite ==
    ASSUME NEW f, NEW R \in SUBSET Reservation
    PROVE  /\ IsFiniteSet({u \in R \X (1..Budget) : u[2] <= f[u[1]]})
           /\ Total(f, R) \in Nat
<1>1. IsFiniteSet(R)
    BY FS_Subset, LedgerAssumption DEF LedgerAssumption
<1>2. IsFiniteSet(1..Budget)
    BY FS_Interval, LedgerAssumption DEF LedgerAssumption
<1>3. IsFiniteSet(R \X (1..Budget))
    BY <1>1, <1>2, FS_Product
<1>4. IsFiniteSet({u \in R \X (1..Budget) : u[2] <= f[u[1]]})
    BY <1>3, FS_Subset
<1> QED
    BY <1>4, FS_CardinalityType DEF Total

\* A sum over two disjoint sets is the sum of the sums.
LEMMA TotalUnion ==
    ASSUME NEW f, NEW R \in SUBSET Reservation, NEW Q \in SUBSET Reservation,
           R \cap Q = {}
    PROVE  Total(f, R \cup Q) = Total(f, R) + Total(f, Q)
<1> DEFINE U(S) == {u \in S \X (1..Budget) : u[2] <= f[u[1]]}
<1>1. U(R \cup Q) = U(R) \cup U(Q)
    OBVIOUS
<1>2. U(R) \cap U(Q) = {}
    OBVIOUS
<1>3. IsFiniteSet(U(R)) /\ IsFiniteSet(U(Q))
    BY UnitsFinite
<1>4. Cardinality(U(R) \cap U(Q)) = 0
    BY <1>2, FS_EmptySet
<1>5. Cardinality(U(R)) \in Nat /\ Cardinality(U(Q)) \in Nat
    BY <1>3, FS_CardinalityType
<1>6. Total(f, R) = Cardinality(U(R)) /\ Total(f, Q) = Cardinality(U(Q))
      /\ Total(f, R \cup Q) = Cardinality(U(R) \cup U(Q))
    BY <1>1 DEF Total
<1> HIDE DEF U
<1>7. Cardinality(U(R) \cup U(Q))
        = Cardinality(U(R)) + Cardinality(U(Q)) - Cardinality(U(R) \cap U(Q))
    BY <1>3, FS_Union
<1> QED
    BY <1>4, <1>5, <1>6, <1>7

\* The sum over nothing is zero.
LEMMA TotalEmpty ==
    ASSUME NEW f
    PROVE  Total(f, {}) = 0
<1>1. {u \in {} \X (1..Budget) : u[2] <= f[u[1]]} = {}
    OBVIOUS
<1> QED
    BY <1>1, FS_EmptySet DEF Total

\* The sum over one reservation is its term.
LEMMA TotalSingle ==
    ASSUME NEW f, NEW r \in Reservation, f[r] \in 0..Budget
    PROVE  Total(f, {r}) = f[r]
<1>1. {u \in {r} \X (1..Budget) : u[2] <= f[u[1]]} = {r} \X (1..f[r])
    BY LedgerAssumption DEF LedgerAssumption
<1>2. IsFiniteSet({r}) /\ Cardinality({r}) = 1
    BY FS_Singleton
<1>3. IsFiniteSet(1..f[r]) /\ Cardinality(1..f[r]) = f[r]
  <2>1. f[r] \in Nat /\ f[r] \in Int /\ 1 \in Int
    BY LedgerAssumption DEF LedgerAssumption
  <2>2. IsFiniteSet(1..f[r])
         /\ Cardinality(1..f[r]) = IF 1 > f[r] THEN 0 ELSE f[r] - 1 + 1
    BY <2>1, FS_Interval
  <2> QED
    BY <2>1, <2>2
<1>4. Cardinality({r} \X (1..f[r]))
        = Cardinality({r}) * Cardinality(1..f[r])
    BY <1>2, <1>3, FS_Product
<1>5. Total(f, {r}) = 1 * f[r]
    BY <1>1, <1>2, <1>3, <1>4 DEF Total
<1> QED
    BY <1>5, LedgerAssumption DEF LedgerAssumption

\* A sum depends only on the terms it adds.
LEMMA TotalSame ==
    ASSUME NEW f, NEW g, NEW R \in SUBSET Reservation,
           \A r \in R : f[r] = g[r]
    PROVE  Total(f, R) = Total(g, R)
<1>1. {u \in R \X (1..Budget) : u[2] <= f[u[1]]}
        = {u \in R \X (1..Budget) : u[2] <= g[u[1]]}
    OBVIOUS
<1> QED
    BY <1>1 DEF Total

-----------------------------------------------------------------------------
(* Type correctness.                                                       *)

LEMMA DayOfTime ==
    \A t \in Time : DayOf(t) \in Day
BY DEF Day

\* The sweep leaves well-formed rows and counters.
LEMMA ReconciledType ==
    ASSUME TypeOK, NEW d, NEW t
    PROVE  /\ Reconciled(d, t) \in [Reservation -> ReservationRow]
           /\ \A r \in Reservation :
                 Reconciled(d, t)[r].actual <= Reconciled(d, t)[r].reserved
           /\ ReconciledSpend(d, t) \in [Day -> Nat]
<1>1. Reconciled(d, t) \in [Reservation -> ReservationRow]
  <2> SUFFICES ASSUME NEW r \in Reservation
               PROVE  Reconciled(d, t)[r] \in ReservationRow
    BY DEF Reconciled
  <2>1. reservations[r] \in ReservationRow
    BY DEF TypeOK
  <2>2. 0 \in 0..Budget
    BY LedgerAssumption DEF LedgerAssumption
  <2> QED
    BY <2>1, <2>2 DEF Reconciled, ReservationRow
<1>2. ReconciledSpend(d, t) \in [Day -> Nat]
  <2> SUFFICES ASSUME NEW x \in Day
               PROVE  ReconciledSpend(d, t)[x] \in Nat
    BY DEF ReconciledSpend
  <2> DEFINE S == StaleDispatched(d, t) \cap Pending(reservations, x)
  <2>1. spend[x] \in Nat
    BY DEF TypeOK
  <2>2. Total(ReservedCost(reservations), S) \in Nat
    BY UnitsFinite DEF Pending
  <2>3. ReconciledSpend(d, t)[x]
            = spend[x] + Total(ReservedCost(reservations), S)
    BY DEF ReconciledSpend
  <2> QED
    BY <2>1, <2>2, <2>3
<1>3. ASSUME NEW r \in Reservation
      PROVE  Reconciled(d, t)[r].actual <= Reconciled(d, t)[r].reserved
  <2>1. /\ reservations[r] \in ReservationRow
        /\ reservations[r].actual <= reservations[r].reserved
        /\ reservations[r].reserved \in Nat
    BY LedgerAssumption DEF TypeOK, ReservationRow, LedgerAssumption
  <2> QED
    BY <2>1 DEF Reconciled, ReservationRow
<1> QED
    BY <1>1, <1>2, <1>3

\* Charging a bucket keeps the counters natural numbers.
LEMMA ChargeType ==
    ASSUME TypeOK, NEW b \in Bucket, NEW d \in Day, NEW kinds,
           Charge(b, d, kinds)
    PROVE  /\ bucketUsage' \in [Day -> [Bucket -> [Kind -> Nat]]]
           /\ globalUsage' \in [Day -> [GlobalKind -> Nat]]
<1> DEFINE B == [k \in Kind |-> bucketUsage[d][b][k]
                                  + (IF k \in kinds THEN 1 ELSE 0)]
           G == [k \in GlobalKind |-> globalUsage[d][k]
                                  + (IF k \in kinds THEN 1 ELSE 0)]
<1>1. B \in [Kind -> Nat] /\ G \in [GlobalKind -> Nat]
    BY DEF TypeOK
<1>2. bucketUsage' = [bucketUsage EXCEPT ![d][b] = B]
      /\ globalUsage' = [globalUsage EXCEPT ![d] = G]
    BY DEF Charge
<1> HIDE DEF B, G
<1> QED
    BY <1>1, <1>2 DEF TypeOK

\* A live run is allowed only within the budget.
LEMMA AllowedWithinBudget ==
    ASSUME NEW b, NEW source, NEW enabled, NEW cost, NEW t,
           Decision(b, source, "live", enabled, cost, t) = "allowed"
    PROVE  WithinBudget(DayOf(t), t, cost)
BY DEF Decision

\* A cost that passes the budget test fits the reserved-cost column.
LEMMA WithinBudgetCost ==
    ASSUME TypeOK, NEW t \in Time, NEW cost \in Cost,
           WithinBudget(DayOf(t), t, cost)
    PROVE  cost \in 0..Budget
<1> DEFINE d == DayOf(t)
           spent == ReconciledSpend(d, t)[d]
           held == PendingCost(Reconciled(d, t), d)
<1>1. spent \in Nat
    BY ReconciledType, DayOfTime
<1>2. held \in Nat
    BY UnitsFinite DEF PendingCost, Pending
<1>3. spent + held + cost <= Budget
    BY DEF WithinBudget
<1>4. cost \in Nat /\ Budget \in Nat
    BY LedgerAssumption DEF LedgerAssumption
<1> HIDE DEF spent, held
<1> QED
    BY <1>1, <1>2, <1>3, <1>4

\* The initial ledger is well formed.
LEMMA InitType == Init => TypeOK
<1> SUFFICES ASSUME Init PROVE TypeOK
    OBVIOUS
<1>1. 0 \in Time /\ 0 \in 0..Budget
    BY LedgerAssumption DEF LedgerAssumption, Time
<1>2. AbsentRow \in ReservationRow /\ AbsentRow.actual <= AbsentRow.reserved
    BY <1>1, DayOfTime DEF AbsentRow, ReservationRow
<1> QED
    BY <1>1, <1>2 DEF Init, TypeOK

\* Every operation keeps the ledger well formed.
LEMMA NextType == TypeOK /\ [Next]_vars => TypeOK'
<1> SUFFICES ASSUME TypeOK, [Next]_vars PROVE TypeOK'
    OBVIOUS
<1>1. ASSUME NEW b \in Bucket, NEW source \in SourceType, NEW t \in CallerNow,
             NEW r \in Reservation, NEW cost \in Cost,
             ReserveLive(r, b, source, cost, t)
      PROVE  TypeOK'
  <2>1. t \in Time
    BY DEF CallerNow
  <2>2. DayOf(t) \in Day
    BY <2>1, DayOfTime
  <2>3. Reconciled(DayOf(t), t) \in [Reservation -> ReservationRow]
        /\ ReconciledSpend(DayOf(t), t) \in [Day -> Nat]
        /\ \A q \in Reservation : Reconciled(DayOf(t), t)[q].actual
                                     <= Reconciled(DayOf(t), t)[q].reserved
    BY ReconciledType
  <2>9. WithinBudget(DayOf(t), t, cost)
    BY <1>1, AllowedWithinBudget DEF ReserveLive
  <2>10. cost \in 0..Budget
    BY <2>1, <2>9, WithinBudgetCost
  <2>4. cost \in 0..Budget /\ 0 \in 0..Budget /\ 0 <= cost
    BY <2>10, LedgerAssumption DEF LedgerAssumption
  <2>5. t + Lease \in Nat
    BY <2>1, LedgerAssumption DEF LedgerAssumption, Time
  <2>6. reservations' \in [Reservation -> ReservationRow]
    BY <1>1, <2>2, <2>3, <2>4, <2>5 DEF ReserveLive, ReservationRow
  <2>8. \A q \in Reservation : reservations'[q].actual <= reservations'[q].reserved
    BY <1>1, <2>3, <2>4 DEF ReserveLive
  <2>7. bucketUsage' \in [Day -> [Bucket -> [Kind -> Nat]]]
        /\ globalUsage' \in [Day -> [GlobalKind -> Nat]]
    BY <1>1, <2>2, ChargeType DEF ReserveLive
  <2> QED
    BY <1>1, <2>3, <2>6, <2>7, <2>8 DEF ReserveLive, TypeOK
<1>2. ASSUME NEW b \in Bucket, NEW source \in SourceType, NEW t \in CallerNow,
             ReserveRecorded(b, source, t)
      PROVE  TypeOK'
  <2>1. DayOf(t) \in Day
    BY DayOfTime DEF CallerNow
  <2>2. bucketUsage' \in [Day -> [Bucket -> [Kind -> Nat]]]
        /\ globalUsage' \in [Day -> [GlobalKind -> Nat]]
    BY <1>2, <2>1, ChargeType DEF ReserveRecorded
  <2> QED
    BY <1>2, <2>2, ReconciledType DEF ReserveRecorded, TypeOK
<1>3. ASSUME NEW b \in Bucket, NEW source \in SourceType, NEW t \in CallerNow,
             NEW mode \in ExecutionMode, NEW cost \in Cost,
             ReserveDenied(b, source, mode, cost, t)
      PROVE  TypeOK'
    BY <1>3, ReconciledType DEF ReserveDenied, TypeOK
<1>4. ASSUME NEW r \in Reservation, MarkDispatched(r)
      PROVE  TypeOK'
  <2>1. [reservations[r] EXCEPT !.dispatched = TRUE] \in ReservationRow
    BY DEF TypeOK, ReservationRow
  <2>2. reservations' = [reservations EXCEPT ![r] = [reservations[r] EXCEPT !.dispatched = TRUE]]
    BY <1>4 DEF MarkDispatched, TypeOK
  <2>3. reservations' \in [Reservation -> ReservationRow]
    BY <2>1, <2>2 DEF TypeOK
  <2>4. \A q \in Reservation : reservations'[q].actual <= reservations'[q].reserved
    BY <2>2 DEF TypeOK, ReservationRow
  <2> QED
    BY <1>4, <2>3, <2>4 DEF MarkDispatched, TypeOK
<1>5. ASSUME NEW r \in Reservation, ClearDispatched(r)
      PROVE  TypeOK'
  <2>1. [reservations[r] EXCEPT !.dispatched = FALSE] \in ReservationRow
    BY DEF TypeOK, ReservationRow
  <2>2. reservations' = [reservations EXCEPT ![r] = [reservations[r] EXCEPT !.dispatched = FALSE]]
    BY <1>5 DEF ClearDispatched, TypeOK
  <2>3. reservations' \in [Reservation -> ReservationRow]
    BY <2>1, <2>2 DEF TypeOK
  <2>4. \A q \in Reservation : reservations'[q].actual <= reservations'[q].reserved
    BY <2>2 DEF TypeOK, ReservationRow
  <2> QED
    BY <1>5, <2>3, <2>4 DEF ClearDispatched, TypeOK
<1>6. ASSUME NEW r \in Reservation, NEW cost \in 0..Budget, SettleAt(r, cost),
             cost <= reservations[r].reserved
      PROVE  TypeOK'
  <2>1. reservations[r].day \in Day /\ cost \in Nat
    BY LedgerAssumption DEF TypeOK, ReservationRow, LedgerAssumption
  <2>2. reservations' \in [Reservation -> ReservationRow]
    <3>1. [reservations[r] EXCEPT !.status = "settled", !.actual = cost] \in ReservationRow
      BY DEF TypeOK, ReservationRow
    <3>2. reservations' =
              [reservations EXCEPT ![r] = [reservations[r] EXCEPT !.status = "settled", !.actual = cost]]
      BY <1>6 DEF SettleAt, TypeOK
    <3> QED
      BY <3>1, <3>2 DEF TypeOK
  <2>3. spend' \in [Day -> Nat]
    BY <1>6, <2>1 DEF SettleAt, TypeOK
  <2>4. \A q \in Reservation : reservations'[q].actual <= reservations'[q].reserved
    BY <1>6 DEF SettleAt, TypeOK, ReservationRow
  <2> QED
    BY <1>6, <2>2, <2>3, <2>4 DEF SettleAt, TypeOK
<1>7. ASSUME NEW r \in Reservation, NEW cost \in Actual, Settle(r, cost)
      PROVE  TypeOK'
  <2>1. Capped(r, cost) \in 0..Budget /\ Capped(r, cost) <= reservations[r].reserved
    BY LedgerAssumption DEF Capped, TypeOK, ReservationRow, LedgerAssumption
  <2> QED
    BY <1>6, <1>7, <2>1 DEF Settle
<1>8. ASSUME NEW r \in Reservation, SettleConservatively(r)
      PROVE  TypeOK'
  <2>1. /\ reservations[r].reserved \in 0..Budget
        /\ reservations[r].reserved <= reservations[r].reserved
    BY LedgerAssumption DEF TypeOK, ReservationRow, LedgerAssumption
  <2> QED
    BY <1>6, <1>8, <2>1 DEF SettleConservatively
<1>9. ASSUME NEW r \in Reservation, Release(r)
      PROVE  TypeOK'
    BY <1>9 DEF Release, TypeOK, ReservationRow
<1>10. ASSUME NEW t \in CallerNow, Snapshot(t)
       PROVE  TypeOK'
    BY <1>10, ReconciledType DEF Snapshot, TypeOK
<1>11. CASE Tick
    BY <1>11, LedgerAssumption DEF Tick, TypeOK, Time, LedgerAssumption
<1>12. CASE UNCHANGED vars
    BY <1>12 DEF vars, TypeOK
<1> QED
    BY <1>1, <1>2, <1>3, <1>4, <1>5, <1>7, <1>8, <1>9, <1>10, <1>11, <1>12
       DEF Next, Reserve, OnReservation

\* Type correctness: no sequence of calls puts a row or a counter outside
\* its column; no cost above the budget is ever stored, and none above what was
\* reserved for it.
THEOREM TypeCorrect == Spec => []TypeOK
<1>1. Init => TypeOK
    BY InitType
<1>2. TypeOK /\ [Next]_vars => TypeOK'
    BY NextType
<1> QED
    BY <1>1, <1>2, PTL DEF Spec

-----------------------------------------------------------------------------
(* The budget.  spend[d] + PendingCost(reservations, d) is inductive        *)
(* relative to TypeOK: each operation is shown to move money between the    *)
(* two terms, to drop it, or to add a cost the budget test let through.     *)

\* The sweep never changes what a row had reserved.
LEMMA ReconciledCost ==
    ASSUME TypeOK, NEW d, NEW t
    PROVE  ReservedCost(Reconciled(d, t)) = ReservedCost(reservations)
<1> SUFFICES ASSUME NEW r \in Reservation
             PROVE  Reconciled(d, t)[r].reserved = reservations[r].reserved
    BY DEF ReservedCost
<1> QED
    BY DEF Reconciled, TypeOK, ReservationRow

\* What the sweep leaves pending: the rows it did not find stale.
LEMMA ReconciledPending ==
    ASSUME TypeOK, NEW d, NEW t, NEW x
    PROVE  Pending(Reconciled(d, t), x)
             = Pending(reservations, x) \ Stale(d, t)
BY DEF Pending, Reconciled, Stale, StaleDispatched, TypeOK, ReservationRow

\* The sweep adds to the spend of a day no more than it takes off the money
\* held for that day.
LEMMA ReconciledBudget ==
    ASSUME TypeOK, NEW d, NEW t, NEW x \in Day
    PROVE  ReconciledSpend(d, t)[x] + PendingCost(Reconciled(d, t), x)
             <= spend[x] + PendingCost(reservations, x)
<1> DEFINE c == ReservedCost(reservations)
           P == Pending(reservations, x)
           S == Stale(d, t)
           D == StaleDispatched(d, t)
<1>1. P \in SUBSET Reservation /\ D \subseteq S
    BY DEF Pending, Stale, StaleDispatched
<1>2. Total(c, P) = Total(c, P \ S) + Total(c, P \cap S)
  <2>1. (P \ S) \cup (P \cap S) = P /\ (P \ S) \cap (P \cap S) = {}
      OBVIOUS
  <2>2. P \ S \in SUBSET Reservation /\ P \cap S \in SUBSET Reservation
      BY <1>1
  <2> HIDE DEF c, P, S
  <2> QED
      BY <2>1, <2>2, TotalUnion
<1>3. Total(c, P \cap S) = Total(c, D \cap P) + Total(c, (P \cap S) \ D)
  <2>1. (D \cap P) \cup ((P \cap S) \ D) = P \cap S
        /\ (D \cap P) \cap ((P \cap S) \ D) = {}
      BY <1>1
  <2>2. D \cap P \in SUBSET Reservation /\ (P \cap S) \ D \in SUBSET Reservation
      BY <1>1
  <2> HIDE DEF c, P, S, D
  <2> QED
      BY <2>1, <2>2, TotalUnion
<1>4. /\ Total(c, P \ S) \in Nat
      /\ Total(c, D \cap P) \in Nat
      /\ Total(c, (P \cap S) \ D) \in Nat
    BY <1>1, UnitsFinite
<1>5. PendingCost(Reconciled(d, t), x) = Total(c, P \ S)
    BY ReconciledCost, ReconciledPending DEF PendingCost
<1>6. ReconciledSpend(d, t)[x] = spend[x] + Total(c, D \cap P)
    BY DEF ReconciledSpend
<1>7. PendingCost(reservations, x) = Total(c, P)
    BY DEF PendingCost
<1>8. spend[x] \in Nat
    BY DEF TypeOK
<1> HIDE DEF c, P, S, D
<1> QED
    BY <1>2, <1>3, <1>4, <1>5, <1>6, <1>7, <1>8

\* A step that is a sweep and no more keeps the budget.
LEMMA SweepKeepsBudget ==
    ASSUME TypeOK, BudgetRespected, NEW d, NEW t,
           reservations' = Reconciled(d, t), spend' = ReconciledSpend(d, t)
    PROVE  BudgetRespected'
<1> SUFFICES ASSUME NEW x \in Day
             PROVE  spend'[x] + PendingCost(reservations', x) <= Budget
    BY DEF BudgetRespected
<1>1. spend[x] + PendingCost(reservations, x) <= Budget
    BY DEF BudgetRespected
<1>2. ReconciledSpend(d, t)[x] + PendingCost(Reconciled(d, t), x)
        <= spend[x] + PendingCost(reservations, x)
    BY ReconciledBudget
<1>3. /\ spend[x] \in Nat /\ PendingCost(reservations, x) \in Nat
      /\ ReconciledSpend(d, t)[x] \in Nat
      /\ PendingCost(Reconciled(d, t), x) \in Nat
      /\ Budget \in Nat
  <2>1. spend[x] \in Nat /\ ReconciledSpend(d, t)[x] \in Nat /\ Budget \in Nat
    BY ReconciledType, LedgerAssumption DEF TypeOK, LedgerAssumption
  <2>2. \A rows : PendingCost(rows, x) \in Nat
    BY UnitsFinite DEF PendingCost, Pending
  <2> QED
    BY <2>1, <2>2
<1> QED
    BY <1>1, <1>2, <1>3

\* Settling a pending row at most at its reserved cost moves money from the
\* held side to the spent side.
LEMMA SettleKeepsBudget ==
    ASSUME TypeOK, BudgetRespected, NEW r \in Reservation, NEW cost \in Nat,
           cost <= reservations[r].reserved, SettleAt(r, cost)
    PROVE  BudgetRespected'
<1> SUFFICES ASSUME NEW x \in Day
             PROVE  spend'[x] + PendingCost(reservations', x) <= Budget
    BY DEF BudgetRespected
<1> DEFINE c == ReservedCost(reservations)
           P == Pending(reservations, x)
           Q == Pending(reservations', x)
<1>1. ReservedCost(reservations') = c
    BY DEF SettleAt, ReservedCost, TypeOK, ReservationRow
<1>2. Q = P \ {r}
    BY DEF SettleAt, Pending, TypeOK, ReservationRow
<1>3. spend[x] + Total(c, P) <= Budget
    BY DEF BudgetRespected, PendingCost
<1>4. /\ P \in SUBSET Reservation /\ Q \in SUBSET Reservation
      /\ Total(c, P) \in Nat /\ Total(c, Q) \in Nat
      /\ spend[x] \in Nat /\ Budget \in Nat
    BY UnitsFinite, LedgerAssumption DEF Pending, TypeOK, LedgerAssumption
<1>5. PendingCost(reservations', x) = Total(c, Q)
    BY <1>1 DEF PendingCost
<1>6. CASE reservations[r].day = x
  <2>1. spend'[x] = spend[x] + cost
      BY <1>6 DEF SettleAt, TypeOK
  <2>2. P = Q \cup {r} /\ Q \cap {r} = {}
      BY <1>2, <1>6 DEF SettleAt, Pending
  <2>3. c[r] \in 0..Budget /\ cost <= c[r]
      BY DEF ReservedCost, TypeOK, ReservationRow
  <2>4. Total(c, P) = Total(c, Q) + Total(c, {r})
    <3>1. {r} \in SUBSET Reservation
        OBVIOUS
    <3> HIDE DEF c, P, Q
    <3> QED
        BY <1>4, <2>2, <3>1, TotalUnion
  <2>5. Total(c, {r}) = c[r]
      BY <2>3, TotalSingle
  <2> HIDE DEF c, P, Q
  <2> QED
      BY <1>3, <1>4, <1>5, <2>1, <2>3, <2>4, <2>5
<1>7. CASE reservations[r].day # x
  <2>1. spend'[x] = spend[x] /\ P = Q
      BY <1>2, <1>7 DEF SettleAt, TypeOK, Pending
  <2> QED
      BY <1>3, <1>5, <2>1
<1> QED
    BY <1>6, <1>7

\* A granted live run adds exactly the cost the budget test allowed.
LEMMA ReserveKeepsBudget ==
    ASSUME TypeOK, BudgetRespected, NEW r \in Reservation, NEW b, NEW source,
           NEW cost \in Cost, NEW t \in Time, ReserveLive(r, b, source, cost, t)
    PROVE  BudgetRespected'
<1> DEFINE d == DayOf(t)
           rows == Reconciled(d, t)
<1> SUFFICES ASSUME NEW x \in Day
             PROVE  spend'[x] + PendingCost(reservations', x) <= Budget
    BY DEF BudgetRespected
<1>1. cost \in 0..Budget
    BY AllowedWithinBudget, WithinBudgetCost DEF ReserveLive
<1>2. rows \in [Reservation -> ReservationRow]
    BY ReconciledType
<1>3. rows[r].status = "absent"
    BY DEF ReserveLive, Reconciled, Stale, StaleDispatched
<1>4. spend'[x] = ReconciledSpend(d, t)[x] /\ spend'[x] \in Nat /\ Budget \in Nat
    BY ReconciledType, LedgerAssumption DEF ReserveLive, LedgerAssumption
<1>5. \A q \in Reservation \ {r} : reservations'[q] = rows[q]
    BY <1>2 DEF ReserveLive
<1>6. /\ reservations'[r].status = "pending"
      /\ reservations'[r].day = d
      /\ reservations'[r].reserved = cost
    BY <1>2 DEF ReserveLive
<1>7. Pending(rows, x) \in SUBSET Reservation /\ r \notin Pending(rows, x)
    BY <1>3 DEF Pending
<1>8. Total(ReservedCost(reservations'), Pending(rows, x)) = PendingCost(rows, x)
  <2>1. \A q \in Pending(rows, x) :
            ReservedCost(reservations')[q] = ReservedCost(rows)[q]
      BY <1>5, <1>7 DEF ReservedCost
  <2> QED
      BY <1>7, <2>1, TotalSame DEF PendingCost
<1>9. PendingCost(rows, x) \in Nat
    BY <1>7, UnitsFinite DEF PendingCost
<1>10. CASE x = d
  <2>1. Pending(reservations', x) = Pending(rows, x) \cup {r}
      BY <1>5, <1>6, <1>10 DEF Pending
  <2>2. ReservedCost(reservations')[r] = cost
      BY <1>6 DEF ReservedCost
  <2>3. PendingCost(reservations', x)
          = Total(ReservedCost(reservations'), Pending(rows, x))
              + Total(ReservedCost(reservations'), {r})
      BY <1>7, <2>1, TotalUnion DEF PendingCost
  <2>4. Total(ReservedCost(reservations'), {r}) = cost
      BY <1>1, <2>2, TotalSingle
  <2>5. ReconciledSpend(d, t)[d] + PendingCost(rows, d) + cost <= Budget
      BY AllowedWithinBudget DEF ReserveLive, WithinBudget
  <2> HIDE DEF d, rows
  <2> QED
      BY <1>1, <1>4, <1>8, <1>9, <1>10, <2>3, <2>4, <2>5
<1>11. CASE x # d
  <2>1. Pending(reservations', x) = Pending(rows, x)
      BY <1>3, <1>5, <1>6, <1>11 DEF Pending
  <2>2. PendingCost(reservations', x) = PendingCost(rows, x)
      BY <1>8, <2>1 DEF PendingCost
  <2>3. ReconciledSpend(d, t)[x] + PendingCost(rows, x)
          <= spend[x] + PendingCost(reservations, x)
      BY ReconciledBudget
  <2>4. spend[x] + PendingCost(reservations, x) <= Budget
      BY DEF BudgetRespected
  <2>5. spend[x] \in Nat /\ PendingCost(reservations, x) \in Nat
      BY UnitsFinite DEF TypeOK, PendingCost, Pending
  <2> HIDE DEF d, rows
  <2> QED
      BY <1>4, <1>9, <2>2, <2>3, <2>4, <2>5
<1> QED
    BY <1>10, <1>11

\* A step that leaves spend, statuses, days and reserved costs alone, or
\* only takes rows out of the pending set, keeps the budget.
LEMMA NoNewMoneyKeepsBudget ==
    ASSUME TypeOK, BudgetRespected, spend' = spend,
           \A x \in Day : Pending(reservations', x) \subseteq Pending(reservations, x),
           ReservedCost(reservations') = ReservedCost(reservations)
    PROVE  BudgetRespected'
<1> SUFFICES ASSUME NEW x \in Day
             PROVE  spend'[x] + PendingCost(reservations', x) <= Budget
    BY DEF BudgetRespected
<1> DEFINE c == ReservedCost(reservations)
           P == Pending(reservations, x)
           Q == Pending(reservations', x)
<1>1. P \in SUBSET Reservation /\ Q \in SUBSET P /\ P \ Q \in SUBSET Reservation
    BY DEF Pending
<1>2. Total(c, P) \in Nat /\ Total(c, Q) \in Nat /\ Total(c, P \ Q) \in Nat
    BY <1>1, UnitsFinite
<1>3. Total(c, P) = Total(c, Q) + Total(c, P \ Q)
  <2>1. Q \cup (P \ Q) = P /\ Q \cap (P \ Q) = {} /\ Q \in SUBSET Reservation
      BY <1>1
  <2> HIDE DEF c, P, Q
  <2> QED
      BY <1>1, <2>1, TotalUnion
<1>4. spend[x] + Total(c, P) <= Budget
    BY DEF BudgetRespected, PendingCost
<1>5. PendingCost(reservations', x) = Total(c, Q)
    BY DEF PendingCost
<1>6. spend[x] \in Nat /\ Budget \in Nat
    BY LedgerAssumption DEF TypeOK, LedgerAssumption
<1> HIDE DEF c, P, Q
<1> QED
    BY <1>2, <1>3, <1>4, <1>5, <1>6

\* Nothing is spent or held at first.
LEMMA InitBudget == Init => BudgetRespected
<1> SUFFICES ASSUME Init, NEW x \in Day
             PROVE  spend[x] + PendingCost(reservations, x) <= Budget
    BY DEF BudgetRespected
<1>1. Pending(reservations, x) = {}
    BY DEF Init, Pending, AbsentRow
<1>2. PendingCost(reservations, x) = 0
    BY <1>1, TotalEmpty DEF PendingCost
<1>3. spend[x] = 0
    BY DEF Init
<1> QED
    BY <1>2, <1>3, LedgerAssumption DEF LedgerAssumption

LEMMA NextBudget ==
    TypeOK /\ BudgetRespected /\ [Next]_vars => BudgetRespected'
<1> SUFFICES ASSUME TypeOK, BudgetRespected, [Next]_vars
             PROVE  BudgetRespected'
    OBVIOUS
<1>1. ASSUME NEW b \in Bucket, NEW source \in SourceType, NEW t \in CallerNow,
             NEW r \in Reservation, NEW cost \in Cost,
             ReserveLive(r, b, source, cost, t)
      PROVE  BudgetRespected'
    BY <1>1, ReserveKeepsBudget DEF CallerNow
<1>2. ASSUME NEW b \in Bucket, NEW source \in SourceType, NEW t \in CallerNow,
             ReserveRecorded(b, source, t)
      PROVE  BudgetRespected'
    BY <1>2, SweepKeepsBudget DEF ReserveRecorded
<1>3. ASSUME NEW b \in Bucket, NEW source \in SourceType, NEW t \in CallerNow,
             NEW mode \in ExecutionMode, NEW cost \in Cost,
             ReserveDenied(b, source, mode, cost, t)
      PROVE  BudgetRespected'
    BY <1>3, SweepKeepsBudget DEF ReserveDenied
<1>4. ASSUME NEW t \in CallerNow, Snapshot(t)
      PROVE  BudgetRespected'
    BY <1>4, SweepKeepsBudget DEF Snapshot
<1>5. ASSUME NEW r \in Reservation, NEW cost \in Actual, Settle(r, cost)
      PROVE  BudgetRespected'
  <2>1. Capped(r, cost) \in Nat /\ Capped(r, cost) <= reservations[r].reserved
    BY LedgerAssumption DEF Capped, TypeOK, ReservationRow, LedgerAssumption
  <2> QED
    BY <1>5, <2>1, SettleKeepsBudget DEF Settle
<1>6. ASSUME NEW r \in Reservation, SettleConservatively(r)
      PROVE  BudgetRespected'
  <2>1. reservations[r].reserved \in Nat
        /\ reservations[r].reserved <= reservations[r].reserved
    BY LedgerAssumption DEF TypeOK, ReservationRow, LedgerAssumption
  <2> QED
    BY <1>6, <2>1, SettleKeepsBudget DEF SettleConservatively
<1>7. ASSUME NEW r \in Reservation, MarkDispatched(r)
      PROVE  BudgetRespected'
  <2>1. \A q \in Reservation :
            /\ reservations'[q].status = "pending"
                   => reservations[q].status = "pending"
            /\ reservations'[q].day = reservations[q].day
            /\ reservations'[q].reserved = reservations[q].reserved
    BY <1>7 DEF MarkDispatched, TypeOK, ReservationRow
  <2>2. \A x \in Day : Pending(reservations', x) \subseteq Pending(reservations, x)
    BY <2>1 DEF Pending
  <2>3. ReservedCost(reservations') = ReservedCost(reservations)
    BY <2>1 DEF ReservedCost
  <2>4. spend' = spend
    BY <1>7 DEF MarkDispatched
  <2> QED
    BY <2>2, <2>3, <2>4, NoNewMoneyKeepsBudget
<1>8. ASSUME NEW r \in Reservation, ClearDispatched(r)
      PROVE  BudgetRespected'
  <2>1. \A q \in Reservation :
            /\ reservations'[q].status = "pending"
                   => reservations[q].status = "pending"
            /\ reservations'[q].day = reservations[q].day
            /\ reservations'[q].reserved = reservations[q].reserved
    BY <1>8 DEF ClearDispatched, TypeOK, ReservationRow
  <2>2. \A x \in Day : Pending(reservations', x) \subseteq Pending(reservations, x)
    BY <2>1 DEF Pending
  <2>3. ReservedCost(reservations') = ReservedCost(reservations)
    BY <2>1 DEF ReservedCost
  <2>4. spend' = spend
    BY <1>8 DEF ClearDispatched
  <2> QED
    BY <2>2, <2>3, <2>4, NoNewMoneyKeepsBudget
<1>9. ASSUME NEW r \in Reservation, Release(r)
      PROVE  BudgetRespected'
  <2>1. \A q \in Reservation :
            /\ reservations'[q].status = "pending"
                   => reservations[q].status = "pending"
            /\ reservations'[q].day = reservations[q].day
            /\ reservations'[q].reserved = reservations[q].reserved
    BY <1>9 DEF Release, TypeOK, ReservationRow
  <2>2. \A x \in Day : Pending(reservations', x) \subseteq Pending(reservations, x)
    BY <2>1 DEF Pending
  <2>3. ReservedCost(reservations') = ReservedCost(reservations)
    BY <2>1 DEF ReservedCost
  <2>4. spend' = spend
    BY <1>9 DEF Release
  <2> QED
    BY <2>2, <2>3, <2>4, NoNewMoneyKeepsBudget
<1>10. CASE Tick \/ UNCHANGED vars
  <2>1. spend' = spend /\ reservations' = reservations
    BY <1>10 DEF Tick, vars
  <2> QED
    BY <2>1, NoNewMoneyKeepsBudget
<1> QED
    BY <1>1, <1>2, <1>3, <1>4, <1>5, <1>6, <1>7, <1>8, <1>9,
       <1>10 DEF Next, Reserve, OnReservation

\* The daily budget is never exceeded by what was spent and what is held,
\* for any number of reservations, buckets, costs and any clock.
THEOREM BudgetTheorem == Spec => []BudgetRespected
<1>1. Init => BudgetRespected
    BY InitBudget
<1>2. TypeOK /\ BudgetRespected /\ [Next]_vars => BudgetRespected'
    BY NextBudget
<1> QED
    BY <1>1, <1>2, TypeCorrect, PTL DEF Spec

-----------------------------------------------------------------------------
(* Closed reservations.                                                    *)

\* The sweep does not touch a row that is not pending.
LEMMA ReconciledKeepsClosed ==
    ASSUME NEW d, NEW t, NEW r \in Reservation,
           reservations[r].status # "pending"
    PROVE  Reconciled(d, t)[r] = reservations[r]
BY DEF Reconciled, Stale, StaleDispatched

\* No step changes a settled or released reservation.
LEMMA NextClosed ==
    ASSUME TypeOK, [Next]_vars, NEW r \in Reservation,
           reservations[r].status \in {"settled", "released"}
    PROVE  reservations'[r] = reservations[r]
<1>1. ASSUME NEW b \in Bucket, NEW source \in SourceType, NEW t \in CallerNow,
             NEW q \in Reservation, NEW cost \in Cost,
             ReserveLive(q, b, source, cost, t)
      PROVE  reservations'[r] = reservations[r]
  <2>1. q # r
    BY <1>1 DEF ReserveLive
  <2>2. Reconciled(DayOf(t), t)[r] = reservations[r]
    BY ReconciledKeepsClosed
  <2>3. reservations'[r] = Reconciled(DayOf(t), t)[r]
    BY <1>1, <2>1 DEF ReserveLive, Reconciled
  <2> QED
    BY <2>2, <2>3
<1>2. ASSUME NEW d, NEW t, reservations' = Reconciled(d, t)
      PROVE  reservations'[r] = reservations[r]
    BY <1>2, ReconciledKeepsClosed
<1>3. ASSUME NEW b, NEW source, NEW t, ReserveRecorded(b, source, t)
      PROVE  reservations'[r] = reservations[r]
    BY <1>2, <1>3 DEF ReserveRecorded
<1>4. ASSUME NEW b, NEW source, NEW mode, NEW cost, NEW t,
             ReserveDenied(b, source, mode, cost, t)
      PROVE  reservations'[r] = reservations[r]
    BY <1>2, <1>4 DEF ReserveDenied
<1>5. ASSUME NEW t, Snapshot(t)
      PROVE  reservations'[r] = reservations[r]
    BY <1>2, <1>5 DEF Snapshot
<1>6. ASSUME NEW q \in Reservation, NEW cost, SettleAt(q, cost)
      PROVE  reservations'[r] = reservations[r]
    BY <1>6 DEF SettleAt, TypeOK
<1>7. ASSUME NEW q \in Reservation,
             MarkDispatched(q) \/ ClearDispatched(q) \/ Release(q)
      PROVE  reservations'[r] = reservations[r]
    BY <1>7 DEF MarkDispatched, ClearDispatched, Release, TypeOK
<1>8. CASE Tick \/ UNCHANGED vars
    BY <1>8 DEF Tick, vars
<1> QED
    BY <1>1, <1>3, <1>4, <1>5, <1>6, <1>7, <1>8
       DEF Next, Reserve, OnReservation, Settle, SettleConservatively

\* Settling and releasing are final: a late answer, a repeated call or the
\* sweep never charges or frees a reservation a second time.
THEOREM ClosedTheorem == Spec => ClosedIsFinal
<1>1. TypeOK /\ [Next]_vars
        => [\A r \in Reservation :
                reservations[r].status \in {"settled", "released"}
                    => reservations'[r] = reservations[r]]_vars
    BY NextClosed
<1> QED
    BY <1>1, TypeCorrect, PTL DEF Spec, ClosedIsFinal

-----------------------------------------------------------------------------
(* The spend counter.                                                      *)

\* The sweep settles exactly the stale dispatched rows.
LEMMA ReconciledSettled ==
    ASSUME TypeOK, NEW d, NEW t, NEW x
    PROVE  Settled(Reconciled(d, t), x)
             = Settled(reservations, x)
                 \cup (StaleDispatched(d, t) \cap Pending(reservations, x))
BY DEF Settled, Pending, Reconciled, Stale, StaleDispatched, TypeOK,
       ReservationRow

\* The sweep adds to the counter what it charges to the rows it settles.
LEMMA SweepKeepsSpend ==
    ASSUME TypeOK, SpendIsSettledCost, NEW d, NEW t, NEW x \in Day
    PROVE  ReconciledSpend(d, t)[x]
             = Total(ActualCost(Reconciled(d, t)), Settled(Reconciled(d, t), x))
<1> DEFINE before == ActualCost(reservations)
           after == ActualCost(Reconciled(d, t))
           S == Settled(reservations, x)
           D == StaleDispatched(d, t) \cap Pending(reservations, x)
<1>1. S \in SUBSET Reservation /\ D \in SUBSET Reservation /\ S \cap D = {}
    BY DEF Settled, Pending
<1>2. Settled(Reconciled(d, t), x) = S \cup D
    BY ReconciledSettled
<1>3. \A r \in S : after[r] = before[r]
    BY DEF ActualCost, Settled, Reconciled, Stale, StaleDispatched
<1>4. \A r \in D : after[r] = ReservedCost(reservations)[r]
    BY DEF ActualCost, ReservedCost, Pending, Reconciled, StaleDispatched,
           TypeOK, ReservationRow
<1>5. Total(after, S) = Total(before, S)
  <2> HIDE DEF before, after, S
  <2> QED
      BY <1>1, <1>3, TotalSame
<1>6. Total(after, D) = Total(ReservedCost(reservations), D)
  <2> HIDE DEF after, D
  <2> QED
      BY <1>1, <1>4, TotalSame
<1>7. Total(after, S \cup D) = Total(after, S) + Total(after, D)
  <2> HIDE DEF after, S, D
  <2> QED
      BY <1>1, TotalUnion
<1>8. spend[x] = Total(before, S)
    BY DEF SpendIsSettledCost
<1>9. ReconciledSpend(d, t)[x] = spend[x] + Total(ReservedCost(reservations), D)
    BY DEF ReconciledSpend
<1> HIDE DEF before, after, S, D
<1> QED
    BY <1>2, <1>5, <1>6, <1>7, <1>8, <1>9 DEF after

\* A settlement adds to the counter of the row's day what it writes in the row.
LEMMA SettleKeepsSpend ==
    ASSUME TypeOK, SpendIsSettledCost, NEW r \in Reservation,
           NEW cost \in 0..Budget, SettleAt(r, cost)
    PROVE  SpendIsSettledCost'
<1> SUFFICES ASSUME NEW x \in Day
             PROVE  spend'[x] = Total(ActualCost(reservations'),
                                      Settled(reservations', x))
    BY DEF SpendIsSettledCost
<1> DEFINE before == ActualCost(reservations)
           after == ActualCost(reservations')
           S == Settled(reservations, x)
           T == Settled(reservations', x)
<1>1. S \in SUBSET Reservation /\ r \notin S
    BY DEF Settled, SettleAt
<1>2. \A q \in S : after[q] = before[q]
    BY <1>1 DEF ActualCost, SettleAt, TypeOK
<1>3. Total(after, S) = Total(before, S)
  <2> HIDE DEF before, after, S
  <2> QED
      BY <1>1, <1>2, TotalSame
<1>4. spend[x] = Total(before, S)
    BY DEF SpendIsSettledCost
<1>5. CASE reservations[r].day = x
  <2>1. T = S \cup {r} /\ S \cap {r} = {}
      BY <1>1, <1>5 DEF Settled, SettleAt, TypeOK, ReservationRow
  <2>2. after[r] = cost
      BY DEF ActualCost, SettleAt, TypeOK, ReservationRow
  <2>3. spend'[x] = spend[x] + cost
      BY <1>5 DEF SettleAt, TypeOK
  <2>4. Total(after, {r}) = cost
    <3> HIDE DEF after
    <3> QED
        BY <2>2, TotalSingle
  <2>5. Total(after, T) = Total(after, S) + Total(after, {r})
    <3>1. {r} \in SUBSET Reservation
        OBVIOUS
    <3> HIDE DEF after, S, T
    <3> QED
        BY <1>1, <2>1, <3>1, TotalUnion
  <2> HIDE DEF before, after, S, T
  <2> QED
      BY <1>3, <1>4, <2>3, <2>4, <2>5 DEF after, T
<1>6. CASE reservations[r].day # x
  <2>1. spend'[x] = spend[x] /\ T = S
      BY <1>6 DEF SettleAt, TypeOK, ReservationRow, Settled
  <2> QED
      BY <1>3, <1>4, <2>1
<1> QED
    BY <1>5, <1>6

\* A step that changes neither the counter, nor which rows are settled, nor
\* what a settled row was charged keeps the equality.
LEMMA OtherStepsKeepSpend ==
    ASSUME SpendIsSettledCost, NEW rows, NEW x \in Day,
           Settled(rows, x) = Settled(reservations, x),
           \A r \in Settled(reservations, x) : rows[r].actual = reservations[r].actual
    PROVE  spend[x] = Total(ActualCost(rows), Settled(rows, x))
<1>1. Settled(reservations, x) \in SUBSET Reservation
    BY DEF Settled
<1>2. \A r \in Settled(reservations, x) :
          ActualCost(rows)[r] = ActualCost(reservations)[r]
    BY <1>1 DEF ActualCost
<1>3. Total(ActualCost(rows), Settled(reservations, x))
        = Total(ActualCost(reservations), Settled(reservations, x))
    BY <1>1, <1>2, TotalSame
<1> QED
    BY <1>3 DEF SpendIsSettledCost

LEMMA InitSpend == Init => SpendIsSettledCost
<1> SUFFICES ASSUME Init, NEW x \in Day
             PROVE  spend[x] = Total(ActualCost(reservations),
                                     Settled(reservations, x))
    BY DEF SpendIsSettledCost
<1>1. Settled(reservations, x) = {}
    BY DEF Init, Settled, AbsentRow
<1> QED
    BY <1>1, TotalEmpty DEF Init

LEMMA NextSpend ==
    TypeOK /\ SpendIsSettledCost /\ [Next]_vars => SpendIsSettledCost'
<1> SUFFICES ASSUME TypeOK, SpendIsSettledCost, [Next]_vars
             PROVE  SpendIsSettledCost'
    OBVIOUS
<1>1. ASSUME NEW b \in Bucket, NEW source \in SourceType, NEW t \in CallerNow,
             NEW r \in Reservation, NEW cost \in Cost,
             ReserveLive(r, b, source, cost, t)
      PROVE  SpendIsSettledCost'
  <2> DEFINE rows == Reconciled(DayOf(t), t)
  <2> SUFFICES ASSUME NEW x \in Day
               PROVE  spend'[x] = Total(ActualCost(reservations'),
                                        Settled(reservations', x))
    BY DEF SpendIsSettledCost
  <2>1. rows \in [Reservation -> ReservationRow]
    BY ReconciledType
  <2>2. rows[r].status = "absent"
    BY <1>1 DEF ReserveLive, Reconciled, Stale, StaleDispatched
  <2>3. /\ \A q \in Reservation \ {r} : reservations'[q] = rows[q]
        /\ reservations'[r].status = "pending"
    BY <1>1, <2>1 DEF ReserveLive
  <2>4. /\ Settled(reservations', x) = Settled(rows, x)
        /\ Settled(rows, x) \in SUBSET Reservation
    BY <2>2, <2>3 DEF Settled
  <2>5. \A q \in Settled(rows, x) :
            ActualCost(reservations')[q] = ActualCost(rows)[q]
    BY <2>2, <2>3 DEF ActualCost, Settled
  <2>6. Total(ActualCost(reservations'), Settled(rows, x))
          = Total(ActualCost(rows), Settled(rows, x))
    BY <2>4, <2>5, TotalSame
  <2>7. ReconciledSpend(DayOf(t), t)[x] = Total(ActualCost(rows), Settled(rows, x))
    BY SweepKeepsSpend
  <2>8. spend' = ReconciledSpend(DayOf(t), t)
    BY <1>1 DEF ReserveLive
  <2> HIDE DEF rows
  <2> QED
    BY <2>4, <2>6, <2>7, <2>8
<1>2. ASSUME NEW d, NEW t,
             reservations' = Reconciled(d, t), spend' = ReconciledSpend(d, t)
      PROVE  SpendIsSettledCost'
    BY <1>2, SweepKeepsSpend DEF SpendIsSettledCost
<1>3. ASSUME NEW b, NEW source, NEW t, ReserveRecorded(b, source, t)
      PROVE  SpendIsSettledCost'
    BY <1>2, <1>3 DEF ReserveRecorded
<1>4. ASSUME NEW b, NEW source, NEW mode, NEW cost, NEW t,
             ReserveDenied(b, source, mode, cost, t)
      PROVE  SpendIsSettledCost'
    BY <1>2, <1>4 DEF ReserveDenied
<1>5. ASSUME NEW t, Snapshot(t)
      PROVE  SpendIsSettledCost'
    BY <1>2, <1>5 DEF Snapshot
<1>6. ASSUME NEW r \in Reservation, NEW cost \in Actual, Settle(r, cost)
      PROVE  SpendIsSettledCost'
  <2>1. Capped(r, cost) \in 0..Budget
    BY LedgerAssumption DEF Capped, TypeOK, ReservationRow, LedgerAssumption
  <2> QED
    BY <1>6, <2>1, SettleKeepsSpend DEF Settle
<1>7. ASSUME NEW r \in Reservation, SettleConservatively(r)
      PROVE  SpendIsSettledCost'
  <2>1. reservations[r].reserved \in 0..Budget
    BY DEF TypeOK, ReservationRow
  <2> QED
    BY <1>7, <2>1, SettleKeepsSpend DEF SettleConservatively
<1>8. ASSUME spend' = spend,
             \A q \in Reservation :
                 /\ reservations'[q].status = "settled"
                        <=> reservations[q].status = "settled"
                 /\ reservations'[q].day = reservations[q].day
                 /\ reservations'[q].actual = reservations[q].actual
      PROVE  SpendIsSettledCost'
  <2> SUFFICES ASSUME NEW x \in Day
               PROVE  spend'[x] = Total(ActualCost(reservations'),
                                        Settled(reservations', x))
    BY DEF SpendIsSettledCost
  <2>1. Settled(reservations', x) = Settled(reservations, x)
    BY <1>8 DEF Settled
  <2>2. \A q \in Settled(reservations, x) :
            reservations'[q].actual = reservations[q].actual
    BY <1>8 DEF Settled
  <2> QED
    BY <1>8, <2>1, <2>2, OtherStepsKeepSpend
<1>9. ASSUME NEW r \in Reservation, MarkDispatched(r)
      PROVE  SpendIsSettledCost'
    BY <1>8, <1>9 DEF MarkDispatched, TypeOK, ReservationRow
<1>10. ASSUME NEW r \in Reservation, ClearDispatched(r)
       PROVE  SpendIsSettledCost'
    BY <1>8, <1>10 DEF ClearDispatched, TypeOK, ReservationRow
<1>11. ASSUME NEW r \in Reservation, Release(r)
       PROVE  SpendIsSettledCost'
    BY <1>8, <1>11 DEF Release, TypeOK, ReservationRow
<1>12. CASE Tick \/ UNCHANGED vars
    BY <1>8, <1>12 DEF Tick, vars
<1> QED
    BY <1>1, <1>3, <1>4, <1>5, <1>6, <1>7, <1>9, <1>10, <1>11, <1>12
       DEF Next, Reserve, OnReservation

\* The spend shown to the public and tested against the budget is exactly
\* what the settled reservations were charged.
THEOREM SpendTheorem == Spec => []SpendIsSettledCost
<1>1. Init => SpendIsSettledCost
    BY InitSpend
<1>2. TypeOK /\ SpendIsSettledCost /\ [Next]_vars => SpendIsSettledCost'
    BY NextSpend
<1> QED
    BY <1>1, <1>2, TypeCorrect, PTL DEF Spec

-----------------------------------------------------------------------------
(* The sweep.                                                              *)

\* The sweep releases a pending reservation only when nothing was dispatched
\* under it.
LEMMA ReconciledDispatched ==
    ASSUME NEW d, NEW t, NEW r \in Reservation,
           reservations[r].status = "pending", reservations[r].dispatched
    PROVE  Reconciled(d, t)[r].status # "released"
<1>1. CASE r \in Stale(d, t)
  <2>1. r \in StaleDispatched(d, t)
    BY <1>1 DEF StaleDispatched
  <2>2. Reconciled(d, t)[r]
          = [reservations[r] EXCEPT !.status = "settled",
                                    !.actual = reservations[r].reserved]
    BY <2>1 DEF Reconciled
  <2> QED
    BY <2>2
<1>2. CASE r \notin Stale(d, t)
  <2>1. Reconciled(d, t)[r] = reservations[r]
    BY <1>2 DEF Reconciled, StaleDispatched
  <2> QED
    BY <2>1
<1> QED
    BY <1>1, <1>2

\* A step that releases a dispatched reservation is its explicit release.
LEMMA NextSweep ==
    ASSUME TypeOK, [Next]_vars, NEW r \in Reservation,
           reservations[r].status = "pending", reservations[r].dispatched,
           reservations'[r].status = "released"
    PROVE  Release(r)
<1>1. ASSUME NEW d, NEW t, reservations' = Reconciled(d, t)
      PROVE  FALSE
    BY <1>1, ReconciledDispatched
<1>2. ASSUME NEW b \in Bucket, NEW source \in SourceType, NEW t \in CallerNow,
             NEW q \in Reservation, NEW cost \in Cost,
             ReserveLive(q, b, source, cost, t)
      PROVE  FALSE
  <2>1. q # r
    BY <1>2 DEF ReserveLive
  <2>2. reservations'[r] = Reconciled(DayOf(t), t)[r]
    BY <1>2, <2>1 DEF ReserveLive, Reconciled
  <2> QED
    BY <2>2, ReconciledDispatched
<1>3. ASSUME NEW b, NEW source, NEW t, ReserveRecorded(b, source, t)
      PROVE  FALSE
    BY <1>1, <1>3 DEF ReserveRecorded
<1>4. ASSUME NEW b, NEW source, NEW mode, NEW cost, NEW t,
             ReserveDenied(b, source, mode, cost, t)
      PROVE  FALSE
    BY <1>1, <1>4 DEF ReserveDenied
<1>5. ASSUME NEW t, Snapshot(t)
      PROVE  FALSE
    BY <1>1, <1>5 DEF Snapshot
<1>6. ASSUME NEW q \in Reservation, NEW cost, SettleAt(q, cost)
      PROVE  FALSE
    BY <1>6 DEF SettleAt, TypeOK, ReservationRow
<1>7. ASSUME NEW q \in Reservation, MarkDispatched(q) \/ ClearDispatched(q)
      PROVE  FALSE
    BY <1>7 DEF MarkDispatched, ClearDispatched, TypeOK, ReservationRow
<1>8. ASSUME NEW q \in Reservation, Release(q)
      PROVE  Release(r)
    BY <1>8 DEF Release, TypeOK
<1>9. CASE Tick \/ UNCHANGED vars
    BY <1>9 DEF Tick, vars
<1> QED
    BY <1>2, <1>3, <1>4, <1>5, <1>6, <1>7, <1>8, <1>9
       DEF Next, Reserve, OnReservation, Settle, SettleConservatively

\* Money a provider may have earned is given back by an explicit call only:
\* neither the sweep nor any other operation releases a dispatched reservation.
THEOREM SweepTheorem == Spec => SweepKeepsDispatched
<1>1. TypeOK /\ [Next]_vars
        => [\A r \in Reservation :
                /\ reservations[r].status = "pending"
                /\ reservations[r].dispatched
                /\ reservations'[r].status = "released"
                => Release(r)]_vars
    BY NextSweep
<1> QED
    BY <1>1, TypeCorrect, PTL DEF Spec, SweepKeepsDispatched

-----------------------------------------------------------------------------
(* Time.                                                                    *)

\* A later instant is not on an earlier day.
LEMMA DayOfMonotone ==
    ASSUME NEW s \in Nat, NEW t \in Nat, s <= t
    PROVE  DayOf(s) <= DayOf(t)
<1>1. DayLength \in Nat \ {0}
    BY LedgerAssumption DEF LedgerAssumption
<1> DEFINE p == s \div DayLength
           q == t \div DayLength
<1>2. p \in Nat /\ DayLength * p <= s
    BY <1>1
<1>3. q \in Nat /\ t < DayLength * (q + 1)
    BY <1>1
<1> HIDE DEF p, q
<1>4. ASSUME q < p PROVE FALSE
  <2>1. DayLength * (q + 1) <= DayLength * p
    BY <1>1, <1>2, <1>3, <1>4
  <2>2. DayLength * p \in Nat /\ DayLength * (q + 1) \in Nat
    BY <1>1, <1>2, <1>3
  <2> QED
    BY <1>2, <1>3, <2>1, <2>2
<1> QED
    BY <1>2, <1>3, <1>4 DEF DayOf, p, q

-----------------------------------------------------------------------------
(* What the two ledgers need to agree on: a row that does not exist yet is   *)
(* blank, and a pending row has charged nothing and ends on its own day or   *)
(* on a later one.                                                          *)

RowInv(row) ==
    /\ row.status = "absent" => row = AbsentRow
    /\ row.status = "pending" => row.actual = 0 /\ row.day <= DayOf(row.expires)

RowsInv == \A r \in Reservation : RowInv(reservations[r])

\* A new reservation ends on the day it was made or later.
LEMMA HeldInv ==
    ASSUME NEW t \in Time, NEW cost
    PROVE  RowInv(Held(DayOf(t), t, cost))
<1>1. t \in Nat /\ t + Lease \in Nat /\ t <= t + Lease
    BY LedgerAssumption DEF LedgerAssumption, Time
<1>2. DayOf(t) <= DayOf(t + Lease)
    BY <1>1, DayOfMonotone
<1> QED
    BY <1>2 DEF RowInv, Held

\* The sweep leaves rows as they were or closes them.
LEMMA ReconciledInv ==
    ASSUME TypeOK, RowsInv, NEW d, NEW t, NEW r \in Reservation
    PROVE  RowInv(Reconciled(d, t)[r])
<1>1. reservations[r] \in ReservationRow /\ RowInv(reservations[r])
    BY DEF TypeOK, RowsInv
<1>2. \/ Reconciled(d, t)[r] = reservations[r]
      \/ Reconciled(d, t)[r].status \in {"settled", "released"}
    BY <1>1 DEF Reconciled, ReservationRow
<1> QED
    BY <1>1, <1>2 DEF RowInv

\* Initially every row is blank.
LEMMA InitRows == Init => RowsInv
BY DEF Init, RowsInv, RowInv, AbsentRow

\* Every step of the ledger keeps the rows so.
LEMMA NextRows == TypeOK /\ RowsInv /\ [Next]_vars => RowsInv'
<1> SUFFICES ASSUME TypeOK, RowsInv, [Next]_vars, NEW r \in Reservation
             PROVE  RowInv(reservations'[r])
    BY DEF RowsInv
<1>0. reservations[r] \in ReservationRow /\ RowInv(reservations[r])
    BY DEF TypeOK, RowsInv
<1>1. ASSUME NEW b, NEW source, NEW t \in CallerNow, NEW q \in Reservation,
             NEW cost, ReserveLive(q, b, source, cost, t)
      PROVE  RowInv(reservations'[r])
  <2>1. t \in Time
    BY DEF CallerNow
  <2>2. reservations' = [Reconciled(DayOf(t), t) EXCEPT ![q] = Held(DayOf(t), t, cost)]
    BY <1>1 DEF ReserveLive, Held
  <2>3. \/ reservations'[r] = Held(DayOf(t), t, cost)
        \/ reservations'[r] = Reconciled(DayOf(t), t)[r]
    BY <2>2 DEF Reconciled
  <2> QED
    BY <2>1, <2>3, HeldInv, ReconciledInv
<1>2. ASSUME NEW d, NEW t, reservations' = Reconciled(d, t)
      PROVE  RowInv(reservations'[r])
    BY <1>2, ReconciledInv
<1>3. ASSUME NEW b, NEW source, NEW t, ReserveRecorded(b, source, t)
      PROVE  RowInv(reservations'[r])
    BY <1>2, <1>3 DEF ReserveRecorded
<1>4. ASSUME NEW b, NEW source, NEW mode, NEW cost, NEW t,
             ReserveDenied(b, source, mode, cost, t)
      PROVE  RowInv(reservations'[r])
    BY <1>2, <1>4 DEF ReserveDenied
<1>5. ASSUME NEW t, Snapshot(t)
      PROVE  RowInv(reservations'[r])
    BY <1>2, <1>5 DEF Snapshot
<1>6. ASSUME NEW q \in Reservation, NEW cost, SettleAt(q, cost)
      PROVE  RowInv(reservations'[r])
  <2>1. \/ reservations'[r] = reservations[r]
        \/ reservations'[r].status = "settled"
    BY <1>0, <1>6 DEF SettleAt, TypeOK, ReservationRow
  <2> QED
    BY <1>0, <2>1 DEF RowInv
<1>7. ASSUME NEW q \in Reservation, Release(q)
      PROVE  RowInv(reservations'[r])
  <2>1. \/ reservations'[r] = reservations[r]
        \/ reservations'[r].status = "released"
    BY <1>0, <1>7 DEF Release, TypeOK, ReservationRow
  <2> QED
    BY <1>0, <2>1 DEF RowInv
<1>8. ASSUME NEW q \in Reservation, MarkDispatched(q) \/ ClearDispatched(q)
      PROVE  RowInv(reservations'[r])
  <2>1. \/ reservations'[r] = reservations[r]
        \/ /\ reservations'[r].status = "pending" /\ reservations[r].status = "pending"
           /\ reservations'[r].actual = reservations[r].actual
           /\ reservations'[r].day = reservations[r].day
           /\ reservations'[r].expires = reservations[r].expires
    BY <1>0, <1>8 DEF MarkDispatched, ClearDispatched, TypeOK, ReservationRow
  <2> QED
    BY <1>0, <2>1 DEF RowInv
<1>9. CASE Tick \/ UNCHANGED vars
    BY <1>0, <1>9 DEF Tick, vars
<1> QED
    BY <1>1, <1>3, <1>4, <1>5, <1>6, <1>7, <1>8, <1>9
       DEF Next, Reserve, OnReservation, Settle, SettleConservatively

-----------------------------------------------------------------------------
(* The sweeps.                                                              *)

\* The sweep of the days up to the caller's own finds every expired lease.
LEMMA StaleIsExpired ==
    ASSUME TypeOK, RowsInv, NEW t \in Time
    PROVE  /\ Stale(DayOf(t), t) = {r \in Reservation : Expired(r, t)}
           /\ StaleDispatched(DayOf(t), t) = {r \in Reservation : Spent(r, t)}
<1>1. ASSUME NEW r \in Reservation, Expired(r, t)
      PROVE  reservations[r].day <= DayOf(t)
  <2>1. reservations[r] \in ReservationRow /\ RowInv(reservations[r])
    BY DEF TypeOK, RowsInv
  <2>2. /\ reservations[r].day <= DayOf(reservations[r].expires)
        /\ reservations[r].expires \in Nat /\ t \in Nat
        /\ reservations[r].expires <= t
    BY <1>1, <2>1 DEF Expired, RowInv, ReservationRow, Time
  <2>3. DayOf(reservations[r].expires) <= DayOf(t)
    BY <2>2, DayOfMonotone
  <2>4. DayOf(t) \in Nat /\ DayOf(reservations[r].expires) \in Nat
    BY <2>2, LedgerAssumption DEF DayOf, LedgerAssumption
  <2>5. reservations[r].day \in Nat
    BY <2>1, LedgerAssumption DEF ReservationRow, Day, DayOf, Time, LedgerAssumption
  <2> QED
    BY <2>2, <2>3, <2>4, <2>5
<1>2. Stale(DayOf(t), t) = {r \in Reservation : Expired(r, t)}
    BY <1>1 DEF Stale, Expired
<1> QED
    BY <1>2 DEF StaleDispatched, Spent

\* Both sweeps leave the same rows and the same counter.
LEMMA SameSweep ==
    ASSUME TypeOK, RowsInv, NEW t \in Time
    PROVE  /\ Reconciled(DayOf(t), t) = Reclaimed(t)
           /\ ReconciledSpend(DayOf(t), t) = ReclaimedSpend(t)
<1>1. ASSUME NEW r \in Reservation
      PROVE  Reconciled(DayOf(t), t)[r] = Reclaimed(t)[r]
  <2>1. /\ r \in Stale(DayOf(t), t) <=> Expired(r, t)
        /\ r \in StaleDispatched(DayOf(t), t) <=> Spent(r, t)
    BY StaleIsExpired
  <2>2. reservations[r] \in ReservationRow
    BY DEF TypeOK
  <2>3. Expired(r, t) => reservations[r].actual = 0
    BY DEF RowsInv, RowInv, Expired
  <2>4. Expired(r, t) => [reservations[r] EXCEPT !.status = "released", !.actual = 0]
                            = [reservations[r] EXCEPT !.status = "released"]
    BY <2>2, <2>3 DEF ReservationRow
  <2> QED
    BY <2>1, <2>4 DEF Reconciled, Reclaimed
<1>2. Reconciled(DayOf(t), t) = Reclaimed(t)
    BY <1>1 DEF Reconciled, Reclaimed
<1>3. ASSUME NEW d \in Day
      PROVE  StaleDispatched(DayOf(t), t) \cap Pending(reservations, d)
                = {r \in Reservation : Spent(r, t) /\ reservations[r].day = d}
    BY StaleIsExpired DEF Pending, Spent, Expired
<1>4. ReconciledSpend(DayOf(t), t) = ReclaimedSpend(t)
    BY <1>3 DEF ReconciledSpend, ReclaimedSpend
<1> QED
    BY <1>2, <1>4

-----------------------------------------------------------------------------
(* The verdicts and the counters of reserve.                                *)

\* Both ledgers find the same room in the budget.
LEMMA SameBudget ==
    ASSUME TypeOK, RowsInv, NEW t \in Time, NEW cost
    PROVE  WithinBudget(DayOf(t), t, cost) <=> BudgetAllows(DayOf(t), t, cost)
BY SameSweep DEF WithinBudget, BudgetAllows

\* Both ledgers reach the same verdict, for the same reason where SameReason
\* does not name the difference.
LEMMA SameVerdict ==
    ASSUME TypeOK, RowsInv, NEW b \in Bucket, NEW source \in SourceType,
           NEW mode \in ExecutionMode, NEW enabled \in BOOLEAN, NEW cost, NEW t \in Time
    PROVE  /\ SameReason(Decision(b, source, mode, enabled, cost, t),
                         MemoryDecision(b, source, mode, enabled, cost, t))
           /\ Decision(b, source, mode, enabled, cost, t) = "allowed"
                <=> MemoryDecision(b, source, mode, enabled, cost, t) = "allowed"
<1> DEFINE d == DayOf(t)
           custom == bucketUsage[d][b]["custom"] >= Limit["custom"]
           live == bucketUsage[d][b]["live"] >= Limit["live"]
           recorded == bucketUsage[d][b]["recorded"] >= Limit["recorded"]
           customs == globalUsage[d]["custom"] >= GlobalLimit["custom"]
           recordeds == globalUsage[d]["recorded"] >= GlobalLimit["recorded"]
           budget == WithinBudget(d, t, cost)
<1>1. budget <=> BudgetAllows(d, t, cost)
    BY SameBudget
<1>2. CASE source = "custom" /\ mode = "live"
  <2>1. Decision(b, source, mode, enabled, cost, t) =
          IF ~enabled THEN "live_disabled" ELSE IF custom THEN "custom_upload_limit"
          ELSE IF live THEN "live_run_limit"
          ELSE IF customs THEN "global_custom_upload_limit"
          ELSE IF ~budget THEN "daily_budget" ELSE "allowed"
    BY <1>2 DEF Decision, Kinds
  <2>2. MemoryDecision(b, source, mode, enabled, cost, t) =
          IF custom THEN "custom_upload_limit"
          ELSE IF customs THEN "global_custom_upload_limit"
          ELSE IF ~enabled THEN "live_disabled" ELSE IF live THEN "live_run_limit"
          ELSE IF ~budget THEN "daily_budget" ELSE "allowed"
    BY <1>1, <1>2 DEF MemoryDecision, IsRecordedSynthetic
  <2> HIDE DEF custom, live, customs, budget
  <2> QED
    BY <2>1, <2>2 DEF SameReason
<1>3. CASE source = "custom" /\ mode = "recorded"
  <2>1. Decision(b, source, mode, enabled, cost, t) =
          IF custom THEN "custom_upload_limit"
          ELSE IF customs THEN "global_custom_upload_limit" ELSE "allowed"
    BY <1>3 DEF Decision, Kinds
  <2>2. MemoryDecision(b, source, mode, enabled, cost, t) =
          IF custom THEN "custom_upload_limit"
          ELSE IF customs THEN "global_custom_upload_limit" ELSE "allowed"
    BY <1>3 DEF MemoryDecision, IsRecordedSynthetic
  <2> HIDE DEF custom, customs
  <2> QED
    BY <2>1, <2>2 DEF SameReason
<1>4. CASE source = "synthetic" /\ mode = "live"
  <2>1. Decision(b, source, mode, enabled, cost, t) =
          IF ~enabled THEN "live_disabled" ELSE IF live THEN "live_run_limit"
          ELSE IF ~budget THEN "daily_budget" ELSE "allowed"
    BY <1>4 DEF Decision, Kinds
  <2>2. MemoryDecision(b, source, mode, enabled, cost, t) =
          IF ~enabled THEN "live_disabled" ELSE IF live THEN "live_run_limit"
          ELSE IF ~budget THEN "daily_budget" ELSE "allowed"
    BY <1>1, <1>4 DEF MemoryDecision, IsRecordedSynthetic
  <2> HIDE DEF live, budget
  <2> QED
    BY <2>1, <2>2 DEF SameReason
<1>5. CASE source = "synthetic" /\ mode = "recorded"
  <2>1. Decision(b, source, mode, enabled, cost, t) =
          IF recorded THEN "recorded_run_limit"
          ELSE IF recordeds THEN "global_recorded_run_limit" ELSE "allowed"
    BY <1>5 DEF Decision, Kinds
  <2>2. MemoryDecision(b, source, mode, enabled, cost, t) =
          IF recorded THEN "recorded_run_limit"
          ELSE IF recordeds THEN "global_recorded_run_limit" ELSE "allowed"
    BY <1>5 DEF MemoryDecision, IsRecordedSynthetic
  <2> HIDE DEF recorded, recordeds
  <2> QED
    BY <2>1, <2>2 DEF SameReason
<1> QED
    BY <1>2, <1>3, <1>4, <1>5 DEF SourceType, ExecutionMode

\* Both ledgers draw on the same counters.
LEMMA SameCharge ==
    ASSUME TypeOK, NEW b \in Bucket, NEW d \in Day,
           NEW source \in SourceType, NEW mode \in ExecutionMode,
           Charge(b, d, Kinds(source, mode))
    PROVE  CountUse(b, d, source, mode)
<1> DEFINE kinds == {k \in Kind :
                       \/ k = "custom" /\ source = "custom"
                       \/ k = "live" /\ mode = "live"
                       \/ k = "recorded" /\ IsRecordedSynthetic(source, mode)}
<1>1. kinds = Kinds(source, mode)
    BY DEF Kinds, Kind, IsRecordedSynthetic
<1>2. /\ bucketUsage[d][b] \in [Kind -> Nat]
      /\ globalUsage[d] \in [GlobalKind -> Nat]
    BY DEF TypeOK
<1>3. Bump(kinds, bucketUsage[d][b])
        = [k \in Kind |-> bucketUsage[d][b][k] + (IF k \in kinds THEN 1 ELSE 0)]
    BY <1>2 DEF Bump
<1>4. Bump(kinds, globalUsage[d])
        = [k \in GlobalKind |-> globalUsage[d][k] + (IF k \in kinds THEN 1 ELSE 0)]
    BY <1>2 DEF Bump
<1> HIDE DEF kinds
<1>5. /\ bucketUsage' = [bucketUsage EXCEPT ![d][b] = Bump(kinds, bucketUsage[d][b])]
      /\ globalUsage' = [globalUsage EXCEPT ![d] = Bump(kinds, globalUsage[d])]
    BY <1>1, <1>3, <1>4 DEF Charge
<1> QED
    BY <1>5 DEF CountUse, kinds

-----------------------------------------------------------------------------
(* The answers.                                                             *)

\* The money a snapshot counts as held is what both sweeps leave pending: the
\* database's condition on the lease's end excludes nothing.
LEMMA SameSnapshot ==
    ASSUME TypeOK, RowsInv, NEW t \in Time
    PROVE  SnapshotHeld(t) = PendingCost(Reclaimed(t), DayOf(t))
<1> DEFINE d == DayOf(t)
           rows == Reconciled(d, t)
<1>1. ASSUME NEW r \in Pending(rows, d)
      PROVE  rows[r].expires > t
  <2>1. r \in Pending(reservations, d) /\ r \notin Stale(d, t)
    BY ReconciledPending
  <2>2. reservations[r] \in ReservationRow
    BY <2>1 DEF TypeOK, Pending
  <2>3. rows[r] = reservations[r]
    BY <2>1 DEF Reconciled, StaleDispatched, Pending
  <2>4. d \in Nat /\ t \in Nat /\ reservations[r].expires \in Nat
    BY <2>2, LedgerAssumption DEF ReservationRow, DayOf, Time, LedgerAssumption
  <2>5. ~(reservations[r].expires <= t)
    BY <2>1, <2>4 DEF Stale, Pending
  <2> QED
    BY <2>3, <2>4, <2>5
<1>2. {r \in Pending(rows, d) : rows[r].expires > t} = Pending(rows, d)
    BY <1>1
<1>3. rows = Reclaimed(t)
    BY SameSweep
<1> HIDE DEF rows
<1> QED
    BY <1>2, <1>3 DEF SnapshotHeld, PendingCost, rows

\* In every state both ledgers answer every call alike.
LEMMA SameAnswers == TypeOK /\ RowsInv => AnswersAsInMemory
<1> SUFFICES ASSUME TypeOK, RowsInv PROVE AnswersAsInMemory
    OBVIOUS
<1>1. ASSUME NEW r \in Reservation
      PROVE  /\ \A cost \in Actual : SettleAnswer(r, cost) = MemorySettleAnswer(r, cost)
             /\ ConservativeAnswer(r) = MemoryConservativeAnswer(r)
             /\ DispatchAnswer(r) = MemoryFlagAnswer(r)
             /\ ReleaseAnswer(r) = MemoryFlagAnswer(r)
  <2>1. reservations[r].status \in {"absent", "pending", "settled", "released"}
    BY DEF TypeOK, ReservationRow
  <2>2. reservations[r].status # "pending"
          => Closed(reservations[r]) = EarlyReturn(reservations[r])
    BY <2>1 DEF Closed, Settlement, EarlyReturn
  <2>3. ASSUME NEW cost \in Actual
        PROVE  SettleAnswer(r, cost) = MemorySettleAnswer(r, cost)
    BY <2>2 DEF SettleAnswer, MemorySettleAnswer, Settlement, Capped
  <2>4. ConservativeAnswer(r) = MemoryConservativeAnswer(r)
    BY <2>2 DEF ConservativeAnswer, MemoryConservativeAnswer, Settlement
  <2>5. ReleaseAnswer(r) = MemoryFlagAnswer(r)
    BY <2>1 DEF ReleaseAnswer, Closed, Settlement, MemoryFlagAnswer
  <2> QED
    BY <2>3, <2>4, <2>5 DEF DispatchAnswer, MemoryFlagAnswer
<1>2. \A t \in CallerNow : t \in Time
    BY DEF CallerNow
<1> QED
    BY <1>1, <1>2, SameVerdict, SameSnapshot DEF AnswersAsInMemory

-----------------------------------------------------------------------------
(* The step simulation.                                                     *)

\* A call that changes the ledger of the database is the same call of the
\* in-memory ledger.
LEMMA SameCalls == TypeOK /\ RowsInv => ReserveAsInMemory /\ CallsAsInMemory
<1> SUFFICES ASSUME TypeOK, RowsInv PROVE ReserveAsInMemory /\ CallsAsInMemory
    OBVIOUS
<1>1. ASSUME NEW b \in Bucket, NEW source \in SourceType, NEW t \in CallerNow,
             NEW r \in Reservation, NEW cost \in Cost,
             ReserveLive(r, b, source, cost, t)
      PROVE  AllowLive(r, b, source, cost, t)
  <2>1. t \in Time /\ DayOf(t) \in Day
    BY DayOfTime DEF CallerNow
  <2>2. reservations[r] = AbsentRow
    BY <1>1 DEF ReserveLive, RowsInv, RowInv
  <2>3. MemoryDecision(b, source, "live", TRUE, cost, t) = "allowed"
    BY <1>1, <2>1, SameVerdict DEF ReserveLive, ExecutionMode
  <2>4. CountUse(b, DayOf(t), source, "live")
    BY <1>1, <2>1, SameCharge DEF ReserveLive, ExecutionMode
  <2> QED
    BY <1>1, <2>1, <2>2, <2>3, <2>4, SameSweep DEF ReserveLive, AllowLive, Held
<1>2. ASSUME NEW b \in Bucket, NEW source \in SourceType, NEW t \in CallerNow,
             ReserveRecorded(b, source, t)
      PROVE  AllowRecorded(b, source, t)
  <2>1. t \in Time /\ DayOf(t) \in Day
    BY DayOfTime DEF CallerNow
  <2>2. MemoryDecision(b, source, "recorded", TRUE, 0, t) = "allowed"
    BY <1>2, <2>1, SameVerdict DEF ReserveRecorded, ExecutionMode
  <2>3. CountUse(b, DayOf(t), source, "recorded")
    BY <1>2, <2>1, SameCharge DEF ReserveRecorded, ExecutionMode
  <2> QED
    BY <1>2, <2>1, <2>2, <2>3, SameSweep DEF ReserveRecorded, AllowRecorded
<1>3. ASSUME NEW b \in Bucket, NEW source \in SourceType, NEW t \in CallerNow,
             NEW mode \in ExecutionMode, NEW cost \in Cost,
             ReserveDenied(b, source, mode, cost, t)
      PROVE  Deny(b, source, mode, cost, t)
  <2>1. t \in Time
    BY DEF CallerNow
  <2>2. MemoryDecision(b, source, mode, TRUE, cost, t) # "allowed"
    BY <1>3, <2>1, SameVerdict DEF ReserveDenied
  <2> QED
    BY <1>3, <2>1, <2>2, SameSweep DEF ReserveDenied, Deny, Reclaim
<1>4. ASSUME NEW r \in Reservation
      PROVE  /\ MarkDispatched(r) => SetDispatched(r, TRUE)
             /\ ClearDispatched(r) => SetDispatched(r, FALSE)
             /\ Release(r) => ReleaseReservation(r)
    BY DEF MarkDispatched, ClearDispatched, SetDispatched, Release, ReleaseReservation
<1>5. ASSUME NEW r \in Reservation
      PROVE  /\ \A cost \in Actual : Settle(r, cost) => SettleReservation(r, cost)
             /\ SettleConservatively(r) => SettleReservationConservatively(r)
    BY DEF Settle, SettleConservatively, SettleAt, Capped,
           SettleReservation, SettleReservationConservatively, Settles
<1>6. ASSUME NEW t \in CallerNow, Snapshot(t)
      PROVE  Reclaim(t)
    BY <1>6, SameSweep DEF Snapshot, Reclaim, CallerNow
<1>7. ReserveAsInMemory
    BY <1>1, <1>2, <1>3 DEF ReserveAsInMemory
<1>8. CallsAsInMemory
    BY <1>4, <1>5, <1>6 DEF CallsAsInMemory
<1> QED
    BY <1>7, <1>8

\* In no state do the two ledgers answer one call differently, but for the
\* reason of a denial in the two cases that SameReason names.
THEOREM AnswerTheorem == Spec => []AnswersAsInMemory
<1>1. Init => RowsInv
    BY InitRows
<1>2. TypeOK /\ RowsInv /\ [Next]_vars => RowsInv'
    BY NextRows
<1>3. TypeOK /\ RowsInv => AnswersAsInMemory
    BY SameAnswers
<1> QED
    BY <1>1, <1>2, <1>3, TypeCorrect, PTL DEF Spec

\* Whatever call a step of the database's ledger is, it is the same call of the
\* in-memory ledger, for any reservations, browsers, costs, limits and lags.
THEOREM MemoryTheorem == Spec => ActsAsInMemory
<1>1. TypeOK /\ RowsInv => [ReserveAsInMemory /\ CallsAsInMemory]_vars
    BY SameCalls
<1>2. Init => RowsInv
    BY InitRows
<1>3. TypeOK /\ RowsInv /\ [Next]_vars => RowsInv'
    BY NextRows
<1> QED
    BY <1>1, <1>2, <1>3, TypeCorrect, PTL DEF Spec, ActsAsInMemory
=============================================================================
