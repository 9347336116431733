----------------------------- MODULE RunExecution -----------------------------
(***************************************************************************)
(* One run, from the reservation of its quota to its last database write:  *)
(* executeRun (src/src/server/workflow/execute-run.ts), the live provider  *)
(* adapter it calls, and the response stream that drives it, against the   *)
(* quota ledger, the run's row and the document store.                     *)
(*                                                                         *)
(* A step is one awaited call together with the synchronous code up to the *)
(* next one, so that the client's abort, the end of the stream, the clock, *)
(* the lease sweep and a crash fall between any two awaits.  An awaited    *)
(* call may fail, and then it may or may not have taken effect.            *)
(***************************************************************************)
EXTENDS Naturals, Sequences, SequencesExt

CONSTANTS
    Lease,          \* ticks of a reservation's lease
    MaxTime,        \* bound on the clock
    FullCost,       \* what a live run reserves: estimateMaximumLiveRunCost
    ExactCost,      \* what one response with usage costs: estimateRunCost
    Fields,         \* number of requested fields
    MaxFaults,      \* bound on the number of calls that fail
    Cancellable     \* whether the reader of the stream may cancel it

ASSUME RunAssumption ==
    /\ Lease \in Nat \ {0} /\ MaxTime \in Nat
    /\ ExactCost \in Nat /\ FullCost \in Nat /\ ExactCost < FullCost
    /\ Fields \in Nat /\ MaxFaults \in Nat
    /\ Cancellable \in BOOLEAN

VARIABLES
    run,            \* the generator: where it waits, and its local variables
    client,         \* the abort signal, and the stream's cancellation
    row,            \* the row of table runs, with its run_steps
    file,           \* the blob, and the row of document_cleanup_jobs
    faults,         \* calls that may still fail
    now, reservations, spend, bucketUsage, globalUsage      \* the ledger

\* The ledger as this run sees it: one reservation, one browser, and a lease
\* that always ends on the UTC day after.
Reservation == "reservation"
L == INSTANCE QuotaLedger WITH
        Reservation <- {Reservation}, Bucket <- {"bucket"},
        Cost <- {FullCost}, Actual <- {ExactCost}, Budget <- FullCost,
        DayLength <- Lease, Skew <- 0,
        Limit <- [k \in {"custom", "live", "recorded"} |-> 1],
        GlobalLimit <- [k \in {"custom", "recorded"} |-> 1]

ledger == <<now, reservations, spend, bucketUsage, globalUsage>>
vars == <<run, client, row, file, faults, ledger>>

Stages == <<"validating", "storing", "extracting", "verifying", "comparing",
            "deciding", "publishing">>

After(stage) ==
    Stages[(CHOOSE i \in DOMAIN Stages : Stages[i] = stage) + 1]

\* The calls the generator can be waiting for.
Waiting ==
    {"create", "withdraw", "abandon", "append", "announce", "store", "extract", "mark",
     "attribute", "clear", "undoMark", "generate", "appendRetry", "ground",
     "appendField", "appendDecision", "settle", "save", "catchSettle",
     "catchRelease", "tombstone", "deleteBlob", "deleteJob", "markFailed"}

Init ==
    /\ run = [at |-> "idle",              \* or in Waiting, "ended" or "crashed"
              stage |-> "validating",
              live |-> FALSE,             \* provider.executionMode
              limit |-> 1,                \* providerAttemptLimit, 1 or 2
              dispatches |-> 0,           \* providerDispatchCount
              calls |-> 0,                \* requests that left for the provider
              retries |-> 0,              \* retryCount
              trusted |-> FALSE,          \* finalUsageTrustworthy
              settlement |-> "none",      \* or "accepted", "refused"
              fields |-> 0,               \* field events emitted
              told |-> "nothing"]         \* terminal event emitted
    /\ client = [aborted |-> FALSE, cancelled |-> FALSE]
    /\ row = [status |-> "none", key |-> FALSE, attributed |-> FALSE,
              steps |-> <<>>, completed |-> FALSE, failed |-> FALSE]
    /\ file = [blob |-> FALSE, job |-> FALSE]
    /\ faults = MaxFaults
    /\ L!Init

-----------------------------------------------------------------------------
(* Calls                                                                    *)

Untouched == UNCHANGED <<row, file, ledger>>
WriteRow(new) == row' = new /\ UNCHANGED <<file, ledger>>
WriteFile(new) == file' = new /\ UNCHANGED <<row, ledger>>

Held == reservations[Reservation].status = "pending"

\* An operation on a reservation that is no longer pending changes nothing.
Ledger(op) == (IF Held THEN op ELSE UNCHANGED ledger) /\ UNCHANGED <<row, file>>

\* A call that succeeds takes the generator to ok; one that fails, before or
\* after taking effect, takes it to failed.
Call(do, ok, failed) ==
    /\ UNCHANGED client
    /\ \/ do /\ run' = ok /\ UNCHANGED faults
       \/ faults > 0 /\ faults' = faults - 1 /\ (do \/ Untouched) /\ run' = failed

\* A step that makes no call of the database or the store.
Local(next) == run' = next /\ Untouched /\ UNCHANGED <<client, faults>>

At(point) == run.at = point
To(r, point) == [r EXCEPT !.at = point]

\* End of the catch block: an aborted run is deleted, another one failed.
Verdict(r) == To(r, IF client.aborted THEN "tombstone" ELSE "markFailed")

\* Fault: the catch block gives every reservation back.
ReleasedAnyway(r) ==
    IF r.live /\ r.settlement = "none" THEN To(r, "catchRelease") ELSE Verdict(r)

\* The catch block: settle what was dispatched, release what was not.
Caught(r) ==
    IF r.live /\ r.settlement = "none"
    THEN To(r, IF r.dispatches > 0 THEN "catchSettle" ELSE "catchRelease")
    ELSE Verdict(r)

\* signal.throwIfAborted()
Unless(r) == IF client.aborted THEN Caught(run) ELSE r

\* A yield: a generator whose stream was cancelled ends here, running neither
\* its catch block nor any other code.
Yield(r) == IF client.cancelled THEN To(r, "ended") ELSE r

\* announce(stage): the check, the assignment of currentStage, the call.
Announce(stage) == Unless([run EXCEPT !.at = "announce", !.stage = stage])

\* appendStage(currentStage): the check, the call.
AppendStage(r) == IF client.aborted THEN Caught(r) ELSE To(r, "append")

Trace(step) == [row EXCEPT !.steps = Append(@, step)]

-----------------------------------------------------------------------------
(* Admission                                                                *)

\* handleRunsPost reserves quota, then the generator starts: it gives the
\* reservation back at once when aborted already or when the upload is invalid.
Submit(live, valid, limit) ==
    LET start == IF client.aborted THEN "withdraw"
                 ELSE IF valid THEN "create" ELSE "abandon"
    IN  /\ At("idle")
        /\ run' = [run EXCEPT !.at = start, !.live = live, !.limit = limit]
        /\ IF live THEN L!ReserveLive(Reservation, "bucket", "synthetic", FullCost, now)
                   ELSE L!ReserveRecorded("bucket", "synthetic", now)
        /\ UNCHANGED <<client, row, file, faults>>

Create ==
    At("create") /\ Call(WriteRow([row EXCEPT !.status = "validating", !.key = TRUE]),
                         AppendStage(run), To(run, "abandon"))

\* releaseQuotaReservation before the row exists; the client is told, unless
\* it had left before the run began.
GiveUp(point, told) ==
    LET end == [run EXCEPT !.at = "ended", !.told = told]
    IN  At(point) /\ IF run.live THEN Call(Ledger(L!Release(Reservation)), end, end)
                                 ELSE Local(end)

Withdraw == GiveUp("withdraw", "nothing")
Abandon == GiveUp("abandon", "failed")

-----------------------------------------------------------------------------
(* Stages                                                                   *)

\* The step of the stage is stored; the next stage is announced, but after
\* comparing come the fields, and after publishing the results.
Append_ ==
    /\ At("append")
    /\ Call(WriteRow(Trace(run.stage)),
            CASE run.stage = "comparing" /\ Fields > 0 -> To(run, "appendField")
              [] run.stage = "publishing" -> To(run, "save")
              [] OTHER -> Announce(After(run.stage)),
            Caught(run))

\* The status is stored and the event yielded; the code that then resumes
\* makes its first call, after a check where there is one.
Announced ==
    /\ At("announce")
    /\ Call(WriteRow([row EXCEPT !.status = run.stage]),
            Yield(CASE run.stage = "storing"    -> To(run, "store")
                    [] run.stage = "extracting" -> Unless(To(run, "extract"))
                    [] run.stage = "verifying"  -> To(run, "ground")
                    [] run.stage = "comparing"  -> AppendStage(run)
                    [] run.stage = "deciding"   -> To(run, "appendDecision")
                    [] OTHER ->                \* publishing
                           IF run.live THEN To(run, "settle") ELSE AppendStage(run)),
            Caught(run))

\* A recorded run sleeps before its status is stored, and then checks again.
Awoken == At("announce") /\ ~ run.live /\ client.aborted /\ Local(Caught(run))

Store ==
    At("store") /\ Call(WriteFile([file EXCEPT !.blob = TRUE]),
                        AppendStage(run), Caught(run))

\* groundDocument and the evaluators, which may fail of themselves.
Ground ==
    At("ground") /\ (Local(AppendStage(run)) \/ Local(Caught(run)))

MoreFields(n) == n < Fields

\* A field's step is stored and its event yielded.
AppendField ==
    LET counted == [run EXCEPT !.fields = @ + 1]
    IN  /\ At("appendField")
        /\ Call(WriteRow(Trace("field")),
                Yield(IF MoreFields(counted.fields) THEN counted
                      ELSE IF client.aborted THEN Caught(counted)
                      ELSE [counted EXCEPT !.at = "announce", !.stage = "deciding"]),
                Caught(run))

AppendDecision ==
    At("appendDecision") /\ Call(WriteRow(Trace("decision")), AppendStage(run), Caught(run))

-----------------------------------------------------------------------------
(* Extraction                                                               *)

\* Loading the provider's SDK, or reading the recorded fixture.
Extract ==
    /\ At("extract")
    /\ \/ Local(IF run.live THEN Unless(To(run, "mark")) ELSE AppendStage(run))
       \/ Local(Caught(run))

\* onDispatch, first call: the mark on the reservation.  Without it nothing
\* is undone.
Mark ==
    /\ At("mark")
    /\ Call(Ledger(L!MarkDispatched(Reservation)),
            IF ~ Held THEN Caught(run)
            ELSE To(run, IF client.aborted THEN "clear" ELSE "attribute"),
            Caught(run))

\* onDispatch, second call: the mark on the row.  The dispatch counts even if
\* the abort, or the adapter's own timeout, then keeps the request from leaving.
Attribute ==
    LET counted == [run EXCEPT !.dispatches = @ + 1]
    IN  /\ At("attribute")
        /\ \E timedOut \in BOOLEAN :
               Call(WriteRow([row EXCEPT !.attributed = TRUE]),
                    IF client.aborted \/ timedOut THEN Caught(counted)
                    ELSE [counted EXCEPT !.at = "generate", !.calls = @ + 1],
                    To(run, "clear"))

\* onDispatch failed after the mark: the mark is taken back, whichever
\* attempt made it, or else the whole reservation.
Clear ==
    /\ At("clear")
    /\ Call(Ledger(L!ClearDispatched(Reservation)),
            IF Held THEN Caught(run) ELSE To(run, "undoMark"),
            To(run, "undoMark"))

UndoMark ==
    At("undoMark") /\ Call(Ledger(L!Release(Reservation)), Caught(run), Caught(run))

\* The provider answers, with usage that can be trusted or not; or fails, and
\* is tried again once if the error allows it.
Generate ==
    /\ At("generate")
    /\ \/ \E trusted \in BOOLEAN :
              Local(AppendStage([run EXCEPT !.trusted = trusted]))
       \/ /\ run.limit = 2 /\ run.retries = 0
          /\ Local([run EXCEPT !.at = "appendRetry", !.retries = 1])
       \/ Local(Caught(run))

AppendRetry ==
    At("appendRetry") /\ Call(WriteRow(Trace("retry")), Unless(To(run, "extract")), Caught(run))

-----------------------------------------------------------------------------
(* Settlement and results                                                   *)

\* Fault: any response with trustworthy usage settles at its own cost.
UseLastCost == run.dispatches > 0 /\ run.trusted

UseExactCost == run.dispatches = 1 /\ run.retries = 0 /\ run.trusted

\* settleProviderCost: accepted when the row is settled, now or before.
SettleProviderCost(accepted, refused) ==
    Call(Ledger(IF UseExactCost THEN L!Settle(Reservation, ExactCost)
                                ELSE L!SettleConservatively(Reservation)),
         IF reservations[Reservation].status \in {"pending", "settled"}
         THEN accepted ELSE refused,
         refused)

Settlement(result) == [run EXCEPT !.settlement = result]

Settle ==
    At("settle") /\ SettleProviderCost(AppendStage(Settlement("accepted")),
                                       Caught(Settlement("refused")))

Save ==
    /\ At("save")
    /\ Call(WriteRow([row EXCEPT !.status = "completed", !.completed = TRUE]),
            [run EXCEPT !.at = "ended", !.told = "completed"],
            Caught(run))

-----------------------------------------------------------------------------
(* The catch block                                                          *)

CatchSettle ==
    At("catchSettle") /\ SettleProviderCost(Verdict(Settlement("accepted")),
                                            Verdict(Settlement("refused")))

CatchRelease ==
    At("catchRelease") /\ Call(Ledger(L!Release(Reservation)), Verdict(run), Verdict(run))

\* Fault: no cleanup job is written with the tombstone.
TombstoneOnly ==
    /\ At("tombstone")
    /\ Call(WriteRow([row EXCEPT !.status = "deleted", !.key = FALSE, !.steps = <<>>]),
            To(run, "deleteBlob"), To(run, "ended"))

\* deleteDetailedData of an aborted run: the details go, and the key moves to
\* a cleanup job; the blob is deleted, and then the job.
Tombstone ==
    /\ At("tombstone")
    /\ Call(/\ row' = [row EXCEPT !.status = "deleted", !.key = FALSE, !.steps = <<>>]
            /\ file' = [file EXCEPT !.job = TRUE]
            /\ UNCHANGED ledger,
            To(run, "deleteBlob"), To(run, "ended"))

DeleteBlob ==
    At("deleteBlob") /\ Call(WriteFile([file EXCEPT !.blob = FALSE]),
                             To(run, "deleteJob"), To(run, "ended"))

DeleteJob ==
    At("deleteJob") /\ Call(WriteFile([file EXCEPT !.job = FALSE]),
                            To(run, "ended"), To(run, "ended"))

\* Fault: the failed event is yielded and the row is left as it is.
FailQuietly ==
    At("markFailed") /\ Local([run EXCEPT !.at = "ended", !.told = "failed"])

MarkFailed ==
    LET end == [run EXCEPT !.at = "ended", !.told = "failed"]
    IN  At("markFailed") /\ Call(WriteRow([Trace(run.stage) EXCEPT !.status = "failed",
                                                                   !.failed = TRUE]),
                                 end, end)

-----------------------------------------------------------------------------
(* Everybody else                                                           *)

Abort ==
    /\ run.at \notin {"ended", "crashed"} /\ ~ client.aborted
    /\ client' = [client EXCEPT !.aborted = TRUE]
    /\ Untouched /\ UNCHANGED <<run, faults>>

\* The reader cancels the stream: the signal aborts, and a return request
\* queues behind the generator's pending next.
Cancel ==
    /\ Cancellable /\ run.at \in Waiting /\ ~ client.cancelled
    /\ client' = [aborted |-> TRUE, cancelled |-> TRUE]
    /\ Untouched /\ UNCHANGED <<run, faults>>

\* The process dies, as a call that fails does, at the cost of a fault.
Crash ==
    /\ run.at \in Waiting /\ faults > 0
    /\ run' = To(run, "crashed") /\ faults' = faults - 1
    /\ Untouched /\ UNCHANGED client

Elsewhere ==
    /\ L!Tick \/ L!Snapshot(now)
    /\ UNCHANGED <<run, client, row, file, faults>>

Progress ==
    \/ Create \/ Withdraw \/ Abandon \/ Append_ \/ Announced \/ Awoken \/ Store \/ Ground
    \/ AppendField \/ AppendDecision
    \/ Extract \/ Mark \/ Attribute \/ Clear \/ UndoMark \/ Generate \/ AppendRetry
    \/ Settle \/ Save
    \/ CatchSettle \/ CatchRelease \/ Tombstone \/ DeleteBlob \/ DeleteJob \/ MarkFailed

Next ==
    \/ \E live, valid \in BOOLEAN, limit \in {1, 2} : Submit(live, valid, limit)
    \/ Progress
    \/ Abort \/ Cancel \/ Crash
    \/ Elsewhere

Spec == Init /\ [][Next]_vars

\* Calls return, time passes, and somebody asks for the metrics.
FairSpec ==
    /\ Spec
    /\ WF_vars(Progress)
    /\ WF_vars(Elsewhere /\ L!Tick)
    /\ WF_vars(Elsewhere /\ L!Snapshot(now))

-----------------------------------------------------------------------------
(* Properties                                                               *)

Reserved == reservations[Reservation]
Faultless == faults = MaxFaults
Ended == run.at \in {"ended", "crashed"}

\* A document in the store can always be found again, whatever failed and
\* whenever the process died: its key is in the run's row or in a cleanup job.
NoOrphanBlob == file.blob => row.key \/ file.job

\* No request leaves for the provider unless the run's row says so and its cost
\* is safe: charged, or held under a mark the sweep will charge.  And a run of
\* one attempt that called the provider is never given its reservation back, by
\* the run, by its catch block or by the lease sweep after a crash.
CallsAreCharged ==
    /\ At("generate") =>
           /\ row.attributed
           /\ \/ Reserved.status = "settled"
              \/ Reserved.status = "pending" /\ Reserved.dispatched
    /\ run.limit = 1 /\ run.calls > 0 => Reserved.status \in {"pending", "settled"}

\* The last of these for every run, also one whose attempt was repeated.  The
\* code does not keep it, and no run checks it: undoing the dispatch mark of the
\* second attempt undoes that of the first.
RetriedIsCharged ==
    run.calls > 0 => Reserved.status \in {"pending", "settled"}

\* Less than the full reservation is charged only for one single request whose
\* usage could be trusted, and a live run is completed only once it is paid for.
PaidAsUsed ==
    /\ Reserved.status = "settled" /\ Reserved.actual < Reserved.reserved =>
           run.calls = 1 /\ run.retries = 0 /\ run.trusted
    /\ run.live /\ row.completed => Reserved.status = "settled"

\* What the client was told is what the row says: completed always, failed as
\* long as no call failed on the way.  However an abort of the request falls, a
\* run that ends without a failing call has reached a final status, and a
\* deleted one has left no document.
VerdictsAgree ==
    /\ run.told = "completed" => row.status = "completed"
    /\ run.told = "failed" /\ Faultless => row.status \in {"none", "failed"}
    /\ run.at = "ended" /\ Faultless /\ ~ client.cancelled =>
           /\ row.status \in {"none", "completed", "failed", "deleted"}
           /\ row.status = "deleted" => ~ file.blob /\ ~ file.job

\* The last of these for a stream whose reader cancelled it.
CancelledRunIsClosed ==
    run.at = "ended" /\ Faultless /\ client.cancelled =>
        row.status \in {"none", "completed", "failed", "deleted"}

\* Every admitted run comes to an end, and its reservation is closed by the
\* run or by the sweep.
AdmittedRunCloses == run.at # "idle" ~> Ended /\ Reserved.status # "pending"

=============================================================================
