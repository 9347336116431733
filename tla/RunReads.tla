------------------------------- MODULE RunReads -------------------------------
(***************************************************************************)
(* NeonRunRepository.readPublicRun beside the statements of RunTables.  A  *)
(* read is not one transaction: it queries the run's row and then, if the  *)
(* row says that there are details to show, the trace, the result and the  *)
(* workflow events, by three statements of their own that are under way    *)
(* together.  Anything may commit between two of the four.  Reads change   *)
(* nothing, so one read, begun at any moment, stands for each of them.     *)
(***************************************************************************)
EXTENDS RunTables

VARIABLE view       \* what the read has seen so far

Detail == {"steps", "result", "events"}

Stored == [steps |-> steps, result |-> result, events |-> events]

Unread ==
    [began |-> FALSE, status |-> "none", details |-> FALSE, unread |-> {},
     steps |-> <<>>, result |-> "none", events |-> {},
     had |-> [steps |-> <<>>, answer |-> [c \in Caller |-> Untold]]]

InitReading == Init /\ view = Unread

\* The row, with the time at which the handler read its clock.  "had" is not
\* read: it keeps the trace there was then and what everyone had been told.
ReadRow ==
    \E t \in 0..now :
        LET expired == t >= Expiry
            shows == ~expired /\ ~row.deleted
        IN  /\ ~view.began
            /\ view' = [Unread EXCEPT
                   !.began = TRUE,
                   !.status = IF expired /\ row.status # "deleted" THEN "expired"
                              ELSE row.status,
                   !.details = shows,
                   !.unread = IF shows THEN Detail ELSE {},
                   !.had = [steps |-> steps, answer |-> answer]]
            /\ UNCHANGED vars

\* Fault: the row is queried along with the details, and its answer is last.
ReadTogether(d) ==
    /\ d \in view.unread
    /\ view' = [view EXCEPT ![d] = Stored[d], !.unread = @ \ {d}, !.status = row.status]
    /\ UNCHANGED vars

\* One of the three queries of the details.
ReadDetail(d) ==
    /\ d \in view.unread
    /\ view' = [view EXCEPT ![d] = Stored[d], !.unread = @ \ {d}]
    /\ UNCHANGED vars

Reading == ReadRow \/ \E d \in Detail : ReadDetail(d)

NextReading == Reading \/ (Next /\ UNCHANGED view)

SpecReading == InitReading /\ [][NextReading]_<<vars, view>>

-----------------------------------------------------------------------------
(* Properties                                                               *)

\* A trace has every step there was when the read began, the step a failed run
\* ends with, and the one that says what a reviewer had been told was staged.
StepsFit(trace) ==
    /\ \A i \in DOMAIN view.had.steps : i \in DOMAIN trace /\ trace[i] = view.had.steps[i]
    /\ view.status = "failed" => "failed" \in ToSet(trace)
    /\ \A c \in Reviewer :
          view.had.answer[c].told = "staged" => "action_staged" \in ToSet(trace)

\* A completed run has a result, and a staging somebody was told of shows in it.
ResultFits(stored) ==
    /\ view.status = "completed" => stored # "none"
    /\ \A c \in Reviewer : view.had.answer[c].told = "staged" => stored = "staged"

\* The events have those somebody was told of.
EventsFit(stored) ==
    \A c \in Reviewer :
        view.had.answer[c].told \in {"created", "already_created"}
            => view.had.answer[c].of \in stored

\* However the four queries of a read fall among the statements of others: as
\* long as the run is not deleted, what the read shows fits the status it shows,
\* lacks no step that was there when it began, and shows what every reviewer had
\* been told before: the event created, the action staged.  A deletion that
\* commits in between may leave a completed run without its details.
ReadIsWhole ==
    view.details /\ view.unread = {} /\ ~row.deleted =>
        StepsFit(view.steps) /\ ResultFits(view.result) /\ EventsFit(view.events)

=============================================================================
