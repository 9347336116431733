------------------------------ MODULE RunTables ------------------------------
(***************************************************************************)
(* The statements NeonRunRepository issues on the tables of one run, at    *)
(* PostgreSQL's READ COMMITTED level.  Each is one transaction whose first *)
(* act is to lock the run's row.  A statement that waits for the lock then *)
(* sees the newest version of the row, and of every row it locks, updates  *)
(* or deletes; but which rows of the other tables it sees at all is decided*)
(* by the snapshot it took when it started.  So a statement has two steps: *)
(* it starts, taking its snapshot; and it gets the lock, acts and commits. *)
(***************************************************************************)
EXTENDS Naturals, Sequences, FiniteSets, SequencesExt

CONSTANTS
    Stage,          \* statuses of a run in progress
    Action,         \* identities of workflow actions: action and role
    FailedAction,   \* those a failed run still allows
    Reviewer,       \* requests of holders of the run's capability
    Expiry,         \* when the run expires
    MaxTime,        \* bound on the clock
    MaxSteps        \* stages the executor goes through

ASSUME TablesAssumption ==
    /\ Stage \cap {"completed", "failed", "deleted", "expired", "action_staged"} = {}
    /\ FailedAction \subseteq Action
    /\ Reviewer \cap {"executor", "uploader", "purge"} = {}
    /\ Expiry \in Nat \ {0} /\ MaxTime \in Nat /\ MaxSteps \in Nat

Caller == Reviewer \cup {"executor", "uploader", "purge"}

VARIABLES
    now,
    row,            \* runs: status, details_deleted
    steps,          \* run_steps by their sequence, "removed" where deleted
    result,         \* run_results, by the state of its proposed action
    events,         \* workflow_events
    statement,      \* the statement each caller has started
    answer,         \* what each caller was last told, and of what
    done            \* statements of the executor that are over

tables == <<row, steps, result, events>>
vars == <<now, tables, statement, answer, done>>

Idle == [op |-> "idle"]
Untold == [told |-> "nothing", of |-> "nothing"]

\* A statement: what it does, the p_now it was given, and of its snapshot
\* what matters later, the rows of the other tables it can see.
Statement(op, arg, t) ==
    [op |-> op, arg |-> arg, at |-> t,
     seen |-> [steps |-> Len(steps), result |-> result # "none", events |-> events]]

Init ==
    /\ now = 0
    /\ row \in [status : Stage, deleted : {FALSE}]
    /\ steps = <<>> /\ result = "none" /\ events = {}
    /\ statement = [c \in Caller |-> Idle]
    /\ answer = [c \in Caller |-> Untold]
    /\ done = 0

Start(c, op, arg, t) ==
    /\ statement[c] = Idle
    /\ statement' = [statement EXCEPT ![c] = Statement(op, arg, t)]
    /\ UNCHANGED <<now, tables, answer, done>>

\* The statement of c, an op, gets the lock, acts and commits.
Ends(c, op, told) ==
    /\ statement[c].op = op
    /\ statement' = [statement EXCEPT ![c] = Idle]
    /\ answer' = [answer EXCEPT ![c] = [told |-> told, of |-> statement[c].arg]]
    /\ UNCHANGED now

Arg(c) == statement[c].arg
Seen(c) == statement[c].seen
Silent(c) == answer[c] = Untold

-----------------------------------------------------------------------------
(* The executor: a status and a step for each stage, then results or a      *)
(* failure; an aborted run is deleted.  After results whose answer is lost  *)
(* it still reports a failure.                                              *)

\* What done says once the last statement is over: results were stored; the
\* client was told how the run ended, and holds its token; or it was not.
Saved == 2 * MaxSteps + 1
Told == Saved + 1
Aborted == Saved + 2

\* The client is told of the results.
Tell ==
    /\ done = Saved /\ statement["executor"] = Idle
    /\ done' = Told
    /\ UNCHANGED <<now, tables, statement, answer>>

Executor ==
    \/ /\ done < 2 * MaxSteps
       /\ \E stage \in Stage :
              Start("executor", IF done % 2 = 0 THEN "setStatus" ELSE "appendStep", stage, now)
    \/ /\ done = 2 * MaxSteps
       /\ \E action \in {"blocked", "proposed"} :
              Start("executor", "saveResults", action, now)
    \/ /\ done <= Saved
       /\ \/ Start("executor", "markFailed", "failed", now)
          \/ Start("executor", "tombstone", "deleted", now)

\* Fault: the status is written whether or not the details are deleted.
SetStatusAlways ==
    /\ Ends("executor", "setStatus", "ok") /\ done' = done + 1
    /\ row' = [row EXCEPT !.status = Arg("executor")]
    /\ UNCHANGED <<steps, result, events>>

SetStatus ==
    /\ Ends("executor", "setStatus", "ok") /\ done' = done + 1
    /\ row' = IF row.deleted THEN row ELSE [row EXCEPT !.status = Arg("executor")]
    /\ UNCHANGED <<steps, result, events>>

AppendStep ==
    /\ Ends("executor", "appendStep", "ok") /\ done' = done + 1
    /\ steps' = IF row.deleted THEN steps ELSE Append(steps, Arg("executor"))
    /\ UNCHANGED <<row, result, events>>

SaveResults ==
    /\ Ends("executor", "saveResults", "ok") /\ done' = done + 1
    /\ IF row.deleted THEN UNCHANGED <<row, result>>
       ELSE row' = [row EXCEPT !.status = "completed"] /\ result' = Arg("executor")
    /\ UNCHANGED <<steps, events>>

MarkFailed ==
    /\ Ends("executor", "markFailed", "ok") /\ done' = Told
    /\ IF row.deleted THEN UNCHANGED <<row, steps>>
       ELSE row' = [row EXCEPT !.status = "failed"] /\ steps' = Append(steps, "failed")
    /\ UNCHANGED <<result, events>>

-----------------------------------------------------------------------------
(* Reviewers                                                                *)

\* Each reviewer's one request: a workflow action or the staging of the
\* proposed action, with the time at which the handler read its clock.
Reviews ==
    \E c \in Reviewer, t \in 0..now :
        /\ done = Told /\ Silent(c)
        /\ \/ \E a \in Action : Start(c, "createEvent", a, t)
           \/ Start(c, "stageAction", "stage", t)

\* The class of the locked row, in the order of the CASE.
Lifecycle(t) ==
    IF row.deleted \/ row.status = "deleted" THEN "deleted"
    ELSE IF row.status = "expired" \/ t >= Expiry THEN "expired"
    ELSE row.status

Allows(c) ==
    \/ Lifecycle(statement[c].at) = "completed"
    \/ Lifecycle(statement[c].at) = "failed" /\ Arg(c) \in FailedAction

Inserts(c) == Allows(c) /\ Arg(c) \notin events

\* ON CONFLICT DO NOTHING meets the newest row; the row to answer with is then
\* looked up in the snapshot.
EventAnswer(c) ==
    IF ~ Allows(c) THEN "refused"
    ELSE IF Inserts(c) THEN "created"
    ELSE IF Arg(c) \in Seen(c).events THEN "already_created" ELSE "id_collision"

CreateEvent(c) ==
    /\ Ends(c, "createEvent", EventAnswer(c)) /\ UNCHANGED done
    /\ events' = IF Inserts(c) THEN events \cup {Arg(c)} ELSE events
    /\ UNCHANGED <<row, steps, result>>

\* Fault: the result is read without FOR UPDATE, as the snapshot shows it.
StagesUnlocked(c) ==
    /\ Lifecycle(statement[c].at) = "completed" /\ Seen(c).result
    /\ result \in {"proposed", "staged"}

\* The result's row is locked too, so its newest version decides; but a row
\* the snapshot does not show is not there.
Stages(c) ==
    /\ Lifecycle(statement[c].at) = "completed" /\ Seen(c).result
    /\ result = "proposed"

StageAction(c) ==
    /\ Ends(c, "stageAction", IF Stages(c) THEN "staged" ELSE "refused")
    /\ UNCHANGED done
    /\ IF Stages(c)
       THEN result' = "staged" /\ steps' = Append(steps, "action_staged")
       ELSE UNCHANGED <<steps, result>>
    /\ UNCHANGED <<row, events>>

-----------------------------------------------------------------------------
(* Deletion and expiry                                                      *)

Uploader ==
    done = Told /\ Silent("uploader") /\ Start("uploader", "tombstone", "deleted", now)

\* purgeExpiredData found the run among the candidates.
Purge ==
    ~ row.deleted /\ now >= Expiry /\ Start("purge", "tombstone", "expired", now)

NotYetGone(c) == ~ row.deleted

\* tombstoneRun: the deletes find the rows that the snapshot shows, whether or
\* not the run was found; rows committed while it waited stay behind.
Tombstone(c) ==
    /\ Ends(c, "tombstone", "ok")
    /\ done' = IF c = "executor" THEN Aborted ELSE done
    /\ row' = IF NotYetGone(c) THEN [status |-> Arg(c), deleted |-> TRUE] ELSE row
    /\ steps' = [i \in DOMAIN steps |->
                    IF i <= Seen(c).steps THEN "removed" ELSE steps[i]]
    /\ result' = IF Seen(c).result THEN "none" ELSE result
    /\ events' = events \ Seen(c).events

Tick ==
    /\ now < MaxTime
    /\ now' = now + 1
    /\ UNCHANGED <<tables, statement, answer, done>>

Next ==
    \/ Executor \/ Tell \/ SetStatus \/ AppendStep \/ SaveResults \/ MarkFailed
    \/ Reviews
    \/ \E c \in Reviewer : CreateEvent(c) \/ StageAction(c)
    \/ Uploader \/ Purge
    \/ \E c \in {"executor", "uploader", "purge"} : Tombstone(c)
    \/ Tick

Spec == Init /\ [][Next]_vars

-----------------------------------------------------------------------------
(* What a read finds in the tables between two statements: publicFromRow.   *)
(* A read during which statements commit is in RunReads.                    *)

PublicStatus ==
    IF ~ row.deleted /\ now >= Expiry THEN "expired" ELSE row.status

Readable == ~ row.deleted /\ now < Expiry

Store == INSTANCE RunStore WITH
            status <- PublicStatus,
            steps  <- IF Readable THEN steps ELSE <<>>,
            result <- IF Readable THEN result ELSE "none",
            events <- IF Readable THEN events ELSE {}

-----------------------------------------------------------------------------
(* Properties                                                               *)

\* Whatever statements overlap, what the tables hold for the public changes as
\* if each operation of the repository were one indivisible step, and is empty
\* from the deletion or expiry of the run on.  This is what a read finds that no
\* commit interrupts; ReadIsWhole of RunReads is about the others.
ImplementsStore == Store!Spec

\* However many requests overlap, the proposed action is staged for one of them
\* only, and the trace says so once; at most one is told that it created the
\* event of an identity, and none of an existing event that nobody created.
HandledOnce ==
    /\ \A c, d \in Reviewer :
           answer[c].told = "staged" /\ answer[d].told = "staged" => c = d
    /\ \A i, j \in DOMAIN steps :
           steps[i] = "action_staged" /\ steps[j] = "action_staged" => i = j
    /\ \A c, d \in Reviewer :
           answer[c].told = "created" /\ answer[d] = answer[c] => c = d
    /\ \A c \in Reviewer : answer[c].told = "already_created" =>
           \E d \in Reviewer : answer[d] = [told |-> "created", of |-> answer[c].of]

\* A run whose details are deleted has no trace, result or event left in the
\* tables.  The code does not keep it, and no run checks it: the deletion does not
\* see what commits while it waits for the row.
DeletedRunHasNoDetails ==
    row.deleted =>
        ToSet(steps) \subseteq {"removed"} /\ result = "none" /\ events = {}

=============================================================================
