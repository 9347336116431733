------------------------------- MODULE RunStore -------------------------------
(***************************************************************************)
(* What the run repository promises about one run: the part of it that the *)
(* public may read, changed by one operation at a time.  The interface     *)
(* RunRepository of src/src/server/repositories/run-repository.ts and its  *)
(* in-memory implementation, for a run that exists.  It is what is stored; *)
(* a read of the database that a commit interrupts may show less of it.    *)
(***************************************************************************)
EXTENDS Sequences

CONSTANTS
    Stage,          \* statuses of a run in progress
    Action,         \* identities of workflow actions: action and role
    FailedAction    \* those a failed run still allows

VARIABLES
    status,         \* public status
    steps,          \* the steps of the trace, in order
    result,         \* the stored result, by the state of its proposed action
    events          \* workflow events

vars == <<status, steps, result, events>>

Gone == {"deleted", "expired"}
Result == {"none", "blocked", "proposed", "staged"}

Init ==
    /\ status \in Stage
    /\ steps = <<>>
    /\ result = "none"
    /\ events = {}

Active == status \notin Gone

SetStatus(stage) ==
    /\ Active
    /\ status' = stage
    /\ UNCHANGED <<steps, result, events>>

AppendStep(step) ==
    /\ Active
    /\ steps' = Append(steps, step)
    /\ UNCHANGED <<status, result, events>>

SaveResults(action) ==
    /\ Active
    /\ status' = "completed"
    /\ result' = action
    /\ UNCHANGED <<steps, events>>

MarkFailed ==
    /\ Active
    /\ status' = "failed"
    /\ steps' = Append(steps, "failed")
    /\ UNCHANGED <<result, events>>

\* One event for each identity.
CreateEvent(a) ==
    /\ \/ status = "completed"
       \/ status = "failed" /\ a \in FailedAction
    /\ a \notin events
    /\ events' = events \cup {a}
    /\ UNCHANGED <<status, steps, result>>

\* The proposed action is staged once, with a step that says so.
StageAction ==
    /\ status = "completed"
    /\ result = "proposed"
    /\ result' = "staged"
    /\ steps' = Append(steps, "action_staged")
    /\ UNCHANGED <<status, events>>

\* Expiry, and Delete now, which may still follow expiry: nothing is left.
RemoveDetails(to) ==
    /\ Active \/ (status = "expired" /\ to = "deleted")
    /\ status' = to
    /\ steps' = <<>>
    /\ result' = "none"
    /\ events' = {}

Next ==
    \/ \E stage \in Stage : SetStatus(stage) \/ AppendStep(stage)
    \/ \E action \in {"blocked", "proposed"} : SaveResults(action)
    \/ MarkFailed
    \/ \E a \in Action : CreateEvent(a)
    \/ StageAction
    \/ \E to \in Gone : RemoveDetails(to)

Spec == Init /\ [][Next]_vars
=============================================================================
