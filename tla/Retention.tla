------------------------------ MODULE Retention ------------------------------
(***************************************************************************)
(* Expiry, Delete now, the hourly purge and the reading of documents: the  *)
(* rows of runs and document_cleanup_jobs, the private Blob store, and the *)
(* handlers that work on them call by call (deletion-token.ts,             *)
(* cron-handler.ts, document-handler.ts, and in run-repository.ts          *)
(* deleteDetailedData, purgeExpiredData and retryCleanupJob).              *)
(*                                                                         *)
(* Time is kept as distances: how long a run still has, and how long until *)
(* a cleanup job is due.  So the clock never ends, and what must happen in *)
(* the end can be checked.  A tick is the five minutes after which a job   *)
(* is tried again; a deletion or a purge is over within one.               *)
(***************************************************************************)
EXTENDS Integers, FiniteSets, Sequences

CONSTANTS
    Run,            \* run ids, in the order of the database: naturals
    Lifetime,       \* ticks a run is kept, RETENTION_MS
    Batch,          \* LIMIT of one purge's cleanup jobs
    Refused,        \* runs whose document the store never deletes
    Deleter,        \* invocations of DELETE /api/runs/:id
    Purger,         \* invocations of the purge
    Reader,         \* invocations of GET /api/runs/:id/document
    MaxFaults       \* bound on calls that fail and invocations that die

Backoff == 1        \* interval '5 minutes'

ASSUME RetentionAssumption ==
    /\ Run \subseteq Nat /\ IsFiniteSet(Run)
    /\ Lifetime \in Nat \ {0} /\ Batch \in Nat \ {0}
    /\ Refused \subseteq Run
    /\ MaxFaults \in Nat

VARIABLES
    row,            \* runs: status, time left, document_key, details_deleted
    blob,           \* runs whose document is in the store
    job,            \* document_cleanup_jobs, by when each is due
    work,           \* deleters and purgers: the call each waits for
    read,           \* readers: the call each waits for
    faults

vars == <<row, blob, job, work, read, faults>>

Due == (- Cardinality(Run))..Backoff
Jobs == DOMAIN job

Idle == [at |-> "idle", todo |-> <<>>]

Init ==
    /\ row = [r \in Run |-> [status |-> "absent", left |-> Lifetime,
                             key |-> FALSE, deleted |-> FALSE]]
    /\ blob = {}
    /\ job = <<>>
    /\ work = [p \in Deleter \cup Purger |-> Idle]
    /\ read = [p \in Reader |-> [at |-> "idle", of |-> 0]]
    /\ faults = MaxFaults

Fails == faults > 0 /\ faults' = faults - 1
Succeeds == UNCHANGED faults

-----------------------------------------------------------------------------
(* Runs, as the executor leaves them: it lives less than a tick.            *)

Admit(r) ==
    /\ row[r].status = "absent"
    /\ row' = [row EXCEPT ![r].status = "running", ![r].key = TRUE]
    /\ UNCHANGED <<blob, job, work, read, faults>>

StoreDocument(r) ==
    /\ row[r].status = "running" /\ row[r].left = Lifetime
    /\ blob' = blob \cup {r}
    /\ UNCHANGED <<row, job, work, read, faults>>

\* Completed or failed, and the client has its token; a run whose executor
\* died stays in progress.
Finish(r) ==
    /\ row[r].status = "running" /\ row[r].left = Lifetime
    /\ row' = [row EXCEPT ![r].status = "ended"]
    /\ UNCHANGED <<blob, job, work, read, faults>>

Expired(r) == row[r].status # "absent" /\ row[r].left = 0
Gone(r) == row[r].deleted \/ Expired(r)

-----------------------------------------------------------------------------
(* Deletion                                                                 *)

Current(p) == Head(work[p].todo)
At(p, point) == work[p].at = point
Goto(p, point) == work' = [work EXCEPT ![p].at = point]
Leave(p) == work' = [work EXCEPT ![p] = Idle]

\* p goes on with its next run at point, or ends at last.
Proceed(p, point, last) ==
    LET rest == Tail(work[p].todo)
    IN  work' = [work EXCEPT ![p] = [at |-> IF rest = <<>> THEN last ELSE point,
                                     todo |-> rest]]

\* deleteRunNow with the right token: the hash is there as long as the
\* details are.
Ask(p, r) ==
    /\ At(p, "idle") /\ row[r].status = "ended" /\ ~ row[r].deleted
    /\ work' = [work EXCEPT ![p] = [at |-> "tombstone", todo |-> <<r>>]]
    /\ UNCHANGED <<row, blob, job, read, faults>>

\* tombstoneRun: the key moves from the run to a cleanup job.
Tombstone(r, to) ==
    /\ row' = [row EXCEPT ![r] = [@ EXCEPT !.status = to, !.key = FALSE, !.deleted = TRUE]]
    /\ job' = [s \in Jobs \cup {r} |-> IF s = r THEN 0 ELSE job[s]]

\* Of two deletions one finds the run already gone and is over.
DeleteRow(p) ==
    LET r == Current(p)
    IN  /\ p \in Deleter /\ At(p, "tombstone")
        /\ \/ Succeeds /\ ~ row[r].deleted /\ Tombstone(r, "deleted") /\ Goto(p, "blob")
           \/ Succeeds /\ row[r].deleted /\ UNCHANGED <<row, job>> /\ Leave(p)
           \/ /\ Fails /\ Leave(p)
              /\ \/ ~ row[r].deleted /\ Tombstone(r, "deleted")
                 \/ UNCHANGED <<row, job>>
        /\ UNCHANGED <<blob, read>>

-----------------------------------------------------------------------------
(* retryCleanupJob: the document, then the job; if either fails, the job is *)
(* put off.                                                                 *)

After(p) == IF p \in Purger THEN "blob" ELSE "idle"

\* Fault: the job is deleted whether or not the document could be.
DeleteDocumentUnchecked(p) ==
    LET r == Current(p)
    IN  /\ At(p, "blob") /\ Succeeds
        /\ blob' = blob \ ({r} \ Refused) /\ Goto(p, "job")
        /\ UNCHANGED <<row, job, read>>

DeleteDocument(p) ==
    LET r == Current(p)
    IN  /\ At(p, "blob")
        /\ \/ Succeeds /\ r \notin Refused /\ blob' = blob \ {r} /\ Goto(p, "job")
           \/ Succeeds /\ r \in Refused /\ UNCHANGED blob /\ Goto(p, "putOff")
           \/ Fails /\ blob' \in {blob, blob \ {r}} /\ Goto(p, "putOff")
        /\ UNCHANGED <<row, job, read>>

DeleteJob(p) ==
    LET without == [r \in Jobs \ {Current(p)} |-> job[r]]
    IN  /\ At(p, "job")
        /\ \/ Succeeds /\ job' = without /\ Proceed(p, After(p), "idle")
           \/ Fails /\ job' \in {job, without} /\ Goto(p, "putOff")
        /\ UNCHANGED <<row, blob, read>>

\* Fault: a job that failed is left due as it was.
Kept(r) == job

\* A job that failed, if it is still there, is tried again after a while.
Later(r) == [s \in Jobs |-> IF s = r THEN Backoff ELSE job[s]]

\* If even that fails, the invocation ends.
PutOff(p) ==
    LET later == Later(Current(p))
    IN  /\ At(p, "putOff")
        /\ \/ Succeeds /\ job' = later /\ Proceed(p, After(p), "idle")
           \/ Fails /\ job' \in {job, later} /\ Leave(p)
        /\ UNCHANGED <<row, blob, read>>

-----------------------------------------------------------------------------
(* purgeExpiredData                                                         *)

Candidates == {r \in Run : Expired(r) /\ ~ row[r].deleted}

\* The lists of n members of S in this order, of which there is one when the
\* order is total.
InOrder(S, n, order) ==
    {list \in [1..n -> S] : \A i \in 1..n :
        LET rest == S \ {list[j] : j \in 1..(i - 1)}
        IN  list[i] \in rest /\ \A r \in rest \ {list[i]} : <<list[i], r>> \in order}

ById == {pair \in Run \X Run : pair[1] < pair[2]}

Purge(p) ==
    /\ At(p, "idle")
    /\ \E list \in InOrder(Candidates, Cardinality(Candidates), ById) :
           work' = [work EXCEPT ![p] = [at |-> IF list = <<>> THEN "list" ELSE "expire",
                                        todo |-> list]]
    /\ UNCHANGED <<row, blob, job, read, faults>>

\* A tombstone that fails is passed over.
ExpireRow(p) ==
    LET r == Current(p)
    IN  /\ At(p, "expire") /\ Proceed(p, "expire", "list")
        /\ Succeeds \/ Fails
        /\ \/ ~ row[r].deleted /\ Tombstone(r, "expired")
           \/ (faults' # faults \/ row[r].deleted) /\ UNCHANGED <<row, job>>
        /\ UNCHANGED <<blob, read>>

\* The jobs that are due: the oldest first, then by run id, not over LIMIT.
OldestFirst ==
    {pair \in Jobs \X Jobs :
        \/ job[pair[1]] < job[pair[2]]
        \/ job[pair[1]] = job[pair[2]] /\ pair[1] < pair[2]}

ListJobs(p) ==
    LET due == {r \in Jobs : job[r] <= 0}
        n   == IF Cardinality(due) < Batch THEN Cardinality(due) ELSE Batch
    IN  /\ At(p, "list")
        /\ \E first \in InOrder(due, n, OldestFirst) :
               work' = [work EXCEPT ![p] = IF first = <<>> THEN Idle
                                           ELSE [at |-> "blob", todo |-> first]]
        /\ UNCHANGED <<row, blob, job, read, faults>>

\* The process dies, or the query of a purge fails.
Die(p) ==
    /\ ~ At(p, "idle") /\ Fails /\ Leave(p)
    /\ UNCHANGED <<row, blob, job, read>>

-----------------------------------------------------------------------------
(* handleRunDocumentGet                                                     *)

ReadAt(p, point) == read[p].at = point
Reads(p, point) == read' = [read EXCEPT ![p].at = point]
ReadOnly == UNCHANGED <<row, blob, job, work, faults>>

\* The row is read; a run that is gone is answered 410.
ReadRow(p, r) ==
    /\ ReadAt(p, "idle") /\ row[r].status # "absent" /\ ~ Gone(r)
    /\ read' = [read EXCEPT ![p] = [at |-> "fetch", of |-> r]]
    /\ ReadOnly

\* The expiry is checked again, and the document fetched if it is there.
Fetch(p) ==
    /\ ReadAt(p, "fetch") /\ ReadOnly
    /\ Reads(p, IF ~ Expired(read[p].of) /\ read[p].of \in blob THEN "recheck" ELSE "idle")

\* Fault: the row is not read again after the fetch.
ServeUnchecked(p) == ReadAt(p, "recheck") /\ ReadOnly /\ Reads(p, "serve")

\* The row is read again after the fetch.
Recheck(p) ==
    /\ ReadAt(p, "recheck") /\ ReadOnly
    /\ Reads(p, IF Gone(read[p].of) THEN "idle" ELSE "serve")

Serve(p) == ReadAt(p, "serve") /\ ReadOnly /\ Reads(p, "idle")

-----------------------------------------------------------------------------

\* The jobs a tick later.  Of jobs overdue only the order matters, so they
\* are numbered -1, -2 and so on, from the latest.
Older ==
    LET dues == {job[r] - 1 : r \in Jobs}
        rank(due) == IF due >= 0 THEN due
                     ELSE - Cardinality({other \in dues : due <= other /\ other < 0})
    IN  [r \in Jobs |-> rank(job[r] - 1)]

Tick ==
    /\ \A p \in Deleter \cup Purger : At(p, "idle")
    /\ row' = [r \in Run |-> IF row[r].status = "absent" \/ row[r].left = 0 THEN row[r]
                             ELSE [row[r] EXCEPT !.left = @ - 1]]
    /\ job' = Older
    /\ UNCHANGED <<blob, work, read, faults>>

Working(p) ==
    \/ DeleteRow(p) \/ DeleteDocument(p) \/ DeleteJob(p) \/ PutOff(p)
    \/ ExpireRow(p) \/ ListJobs(p)

Reading(p) == Fetch(p) \/ Recheck(p) \/ Serve(p)

Next ==
    \/ \E r \in Run : Admit(r) \/ StoreDocument(r) \/ Finish(r)
    \/ \E p \in Deleter, r \in Run : Ask(p, r)
    \/ \E p \in Purger : Purge(p)
    \/ \E p \in Deleter \cup Purger : Working(p) \/ Die(p)
    \/ \E p \in Reader : Reading(p) \/ \E r \in Run : ReadRow(p, r)
    \/ Tick

Spec == Init /\ [][Next]_vars

\* Invocations end, the purge is invoked again and again, and time passes,
\* although each invocation holds the clock up until it ends.
FairSpec ==
    /\ Spec /\ SF_vars(Tick)
    /\ \A p \in Deleter \cup Purger : WF_vars(Working(p))
    /\ \A p \in Purger : WF_vars(Purge(p))

-----------------------------------------------------------------------------
(* Properties                                                               *)

\* The rows, jobs and invocations have their shapes.
TypeOK ==
    /\ row \in [Run -> [status : {"absent", "running", "ended", "deleted", "expired"},
                        left : 0..Lifetime, key : BOOLEAN, deleted : BOOLEAN]]
    /\ blob \subseteq Run
    /\ Jobs \subseteq Run /\ job \in [Jobs -> Due]
    /\ \A p \in DOMAIN work : ~ At(p, "idle") /\ ~ At(p, "list") => work[p].todo # <<>>
    /\ \A p \in Reader : ~ ReadAt(p, "idle") => read[p].of \in Run
    /\ faults \in 0..MaxFaults

\* What countCleanupBacklog adds up.
Backlog == Cardinality(Candidates) + Cardinality(Jobs)

\* A document in the store is always known to the database, through the run's
\* row or a cleanup job, whichever deletions and purges overlap, fail or die; and
\* the backlog that Operations shows is never zero while the document of a
\* deleted or expired run is still in the store.
NoLostDocument ==
    /\ \A r \in blob : row[r].key \/ r \in Jobs
    /\ Backlog = 0 => \A r \in blob : ~ Gone(r)

\* Once a run's details are deleted its document is never stored, keyed or
\* scheduled again, whoever else is still cleaning up after it; and bytes fetched
\* before a deletion or an expiry are not served after it: when a reader makes
\* up its mind to serve, the run is still active.
NothingComesBack ==
    [][/\ \A r \in Run : row[r].deleted =>
              /\ row'[r].status = row[r].status /\ ~ row'[r].key
              /\ r \in blob' => r \in blob
              /\ r \in Jobs' => r \in Jobs
       /\ \A p \in Reader : read'[p].at = "serve" /\ read[p].at # "serve" =>
              ~ Gone(read[p].of)]_vars

\* The document of a run that is gone is eventually deleted, even if the
\* store refuses to delete others for ever and they fill every batch.
DocumentsGo ==
    \A r \in Run \ Refused : r \in blob /\ Gone(r) ~> r \notin blob

=============================================================================
