------------------------------- MODULE Workbench -------------------------------
(***************************************************************************)
(* One page of the workbench (WorkbenchView and WorkflowPanel of           *)
(* src/src/components/workbench): runs that are validated, submitted and   *)
(* read, the details of the last one, and the workflow action of its       *)
(* panel.  The page has one thread; between two of its steps come clicks   *)
(* and the answers it awaits, in any order.  What it compares to tell a    *)
(* late answer is the counter requestRef, here page.request; it also       *)
(* stands for the id of the run that is submitted under it.                *)
(***************************************************************************)
EXTENDS Naturals, FiniteSets

CONSTANTS
    File,           \* documents of the user
    MaxRequests     \* bound on requestRef

Sample == "sample"
Nothing == "nothing"

ASSUME WorkbenchAssumption ==
    IsFiniteSet(File) /\ {Sample, Nothing} \cap File = {} /\ MaxRequests \in Nat \ {0}

VARIABLES
    page,           \* running, cancellableRef and requestRef
    upload,         \* the selected source and the file the browser holds
    job,            \* what became of each value of requestRef: ended was sent
    panel,          \* the run the panel shows, and activeRunSnapshotRef
    details, fields,\* runs whose details and fields the page holds
    loads,          \* awaited fetches of details that are not aborted
    action          \* awaited workflow request of the panel

contents == <<details, fields>>
vars == <<page, upload, job, panel, contents, loads, action>>

NoAction == [kind |-> "none", run |-> 0, file |-> Nothing]
Request == 1..MaxRequests

Empty(doc) == [run |-> 0, status |-> "none", detail |-> "idle", doc |-> doc]

Init ==
    /\ page = [running |-> FALSE, cancellable |-> FALSE, request |-> 0]
    /\ upload = [source |-> "sample", file |-> Nothing]
    /\ job = [q \in Request |-> [at |-> "none", doc |-> Nothing]]
    /\ panel = Empty(Nothing)
    /\ details = {} /\ fields = {} /\ loads = {} /\ action = NoAction

Selected == IF upload.source = "sample" THEN Sample ELSE upload.file
Visible == panel.run # 0 /\ panel.status \in {"completed", "failed"}
Free == [page EXCEPT !.running = FALSE, !.cancellable = FALSE]

-----------------------------------------------------------------------------
(* Parts of the handlers                                                    *)

\* Fault: the submission is left to itself.
KeepPosting(at, doc) ==
    /\ page.request < MaxRequests
    /\ job' = [job EXCEPT ![page.request + 1] = [at |-> at, doc |-> doc]]

\* The next value of requestRef, and what it is taken for.  The submission
\* that is awaited is aborted.
NextJob(at, doc) ==
    /\ page.request < MaxRequests
    /\ job' = [q \in Request |->
           IF q = page.request + 1 THEN [at |-> at, doc |-> doc]
           ELSE IF job[q].at = "posting" THEN [job[q] EXCEPT !.at = "ended"] ELSE job[q]]

\* Fault: the details being read are not aborted.
ClearShown(doc) ==
    panel' = Empty(doc) /\ details' = {} /\ action' = NoAction /\ UNCHANGED loads

\* clearActiveWorkflow: nothing of the last run is shown or read, and the
\* panel that goes away aborts its request.
Clear(doc) ==
    panel' = Empty(doc) /\ details' = {} /\ loads' = {} /\ action' = NoAction

Load(run) == loads' = {[run |-> run, request |-> page.request]}

-----------------------------------------------------------------------------
(* Clicks                                                                   *)

\* A sample or a file is selected; the controls are disabled during a run.
Choose ==
    /\ ~ page.running
    /\ \/ upload' = [upload EXCEPT !.source = "sample"]
       \/ \E f \in File \cup {Nothing} : upload' = [source |-> "custom", file |-> f]
    /\ UNCHANGED <<page, job, panel, contents, loads, action>>

Began == [running |-> TRUE, cancellable |-> TRUE, request |-> page.request + 1]

\* Fault: the document is remembered before it is validated.
SubmitRemembered ==
    /\ ~ page.running /\ ~ page.cancellable /\ page' = Began /\ UNCHANGED upload
    /\ IF Selected = Sample
       THEN NextJob("posting", Sample) /\ Clear(Sample) /\ fields' = {}
       ELSE /\ NextJob("validating", Selected) /\ panel' = [panel EXCEPT !.doc = Selected]
            /\ UNCHANGED <<contents, loads, action>>

\* runAssurance without a snapshot to repeat: a sample is submitted at once, a
\* file is validated first and the last run is shown meanwhile.
Submit ==
    /\ ~ page.running /\ ~ page.cancellable /\ page' = Began /\ UNCHANGED upload
    /\ IF Selected = Sample
       THEN NextJob("posting", Sample) /\ Clear(Sample) /\ fields' = {}
       ELSE NextJob("validating", Selected) /\ UNCHANGED <<panel, contents, loads, action>>

Cancelled == page' = [Free EXCEPT !.request = @ + 1]

Cancel ==
    /\ page.cancellable
    /\ Cancelled /\ NextJob("cancelled", Nothing) /\ Clear(Nothing)
    /\ UNCHANGED <<upload, fields>>

\* retryPreparedAction.
Retry ==
    /\ Visible /\ panel.status = "completed" /\ panel.detail = "error"
    /\ panel' = [panel EXCEPT !.detail = "loading"] /\ Load(panel.run)
    /\ UNCHANGED <<page, upload, job, contents, action>>

\* executeAction up to its request.  It keeps the handlers of the view as they
\* were rendered: what they knew of the file goes with it.
Act(kind) ==
    /\ Visible /\ action = NoAction /\ panel.detail # "loading"
    /\ \/ panel.status = "failed" /\ kind = "retry"
       \/ panel.status = "failed" /\ kind = "replace" /\ panel.run \in details
       \/ panel.status = "completed" /\ kind \in {"replace", "other"} /\ panel.run \in details
    /\ action' = [kind |-> kind, run |-> panel.run, file |-> upload.file]
    /\ UNCHANGED <<page, upload, job, panel, contents, loads>>

-----------------------------------------------------------------------------
(* Answers                                                                  *)

Validate(q) ==
    /\ job[q].at = "validating" /\ UNCHANGED upload
    /\ \/ /\ q # page.request
          /\ job' = [job EXCEPT ![q].at = "dropped"]
          /\ UNCHANGED <<page, panel, contents, loads, action>>
       \/ /\ q = page.request /\ page' = Free
          /\ job' = [job EXCEPT ![q].at = "refused"]
          /\ UNCHANGED <<panel, contents, loads, action>>
       \/ /\ q = page.request /\ job[q].doc \in File /\ UNCHANGED page
          /\ job' = [job EXCEPT ![q].at = "posting"]
          /\ Clear(job[q].doc) /\ fields' = {}

\* A field arrives in the stream of events.
Stream(q) ==
    /\ job[q].at = "posting" /\ q = page.request /\ fields' = fields \cup {q}
    /\ UNCHANGED <<page, upload, job, panel, details, loads, action>>

\* The stream ends: with a result, with a failed run, or without either.  The
\* finally block, after the details, finds nothing left to reset.
Respond(q) ==
    /\ job[q].at = "posting" /\ job' = [job EXCEPT ![q].at = "ended"]
    /\ UNCHANGED <<upload, details, action>>
    /\ \/ q # page.request /\ UNCHANGED <<page, panel, fields, loads>>
       \/ /\ q = page.request /\ page' = Free
          /\ \/ \E status \in {"completed", "failed"} :
                    /\ panel' = [panel EXCEPT !.run = q, !.status = status,
                                              !.detail = "loading"]
                    /\ Load(q)
             \/ \E doc \in {panel.doc, Nothing} : panel' = Empty(doc) /\ UNCHANGED loads
          /\ UNCHANGED fields

\* loadRunDetail.  A run that has expired or was deleted is shown no more.
Loaded(l) ==
    /\ l \in loads /\ loads' = loads \ {l} /\ UNCHANGED <<page, upload, job>>
    /\ \/ l.request # page.request /\ UNCHANGED <<panel, contents, action>>
       \/ /\ l.request = page.request
          /\ panel' = [panel EXCEPT !.detail = "error"] /\ UNCHANGED <<contents, action>>
       \/ /\ l.request = page.request
          /\ \/ panel' = [panel EXCEPT !.detail = "ready"] /\ UNCHANGED action
             \/ panel' = [panel EXCEPT !.detail = "ready", !.status = "gone"]
                /\ action' = NoAction
          /\ details' = details \cup {l.run} /\ fields' \in {fields, {l.run}}

\* requestReplacement: the file is given up, unless the upload is disabled.
Replace ==
    /\ page' = [page EXCEPT !.request = @ + 1]
    /\ NextJob("replaced", Nothing) /\ Clear(Nothing)
    /\ upload' = [source |-> "custom",
                  file |-> IF page.running THEN upload.file ELSE Nothing]
    /\ UNCHANGED fields

\* The document of the snapshot, as far as the handler knows, is still held.
StillHeld(doc) == doc \in File => action.file = doc

\* reprocessActiveRun, and runAssurance with its snapshot.
Reprocess ==
    IF panel.doc = Nothing \/ (StillHeld(panel.doc) /\ page.cancellable)
    THEN UNCHANGED <<page, upload, job, panel, fields, loads>>
         /\ details' = details \cup {action.run} /\ action' = NoAction
    ELSE IF ~ StillHeld(panel.doc) THEN Replace
    ELSE page' = Began /\ NextJob("posting", panel.doc) /\ Clear(panel.doc) /\ fields' = {}
         /\ UNCHANGED upload

\* The answer to the workflow request, on which its event is shown.
Acted ==
    \/ action.kind = "replace" /\ Replace
    \/ action.kind = "retry" /\ Reprocess
    \/ /\ action.kind = "other" /\ details' = details \cup {action.run}
       /\ action' = NoAction
       /\ UNCHANGED <<page, upload, job, panel, fields, loads>>
    \/ /\ action # NoAction /\ action' = NoAction
       /\ UNCHANGED <<page, upload, job, panel, contents, loads>>

Next ==
    \/ Choose \/ Submit \/ Cancel \/ Retry \/ Acted
    \/ \E kind \in {"retry", "replace", "other"} : Act(kind)
    \/ \E q \in Request : Validate(q) \/ Stream(q) \/ Respond(q)
    \/ \E l \in loads : Loaded(l)

Spec == Init /\ [][Next]_vars

-----------------------------------------------------------------------------
(* Properties                                                               *)

\* Whatever answers come late, the details, events and fields under a run in
\* the panel are that run's own.
ShownIsActive ==
    /\ details \subseteq {panel.run}
    /\ panel.run # 0 => fields \subseteq {panel.run}

\* A submission that is still awaited is the page's current one: one that was
\* cancelled or replaced is never left running beside another.  And a page that
\* says it is running can be cancelled, and is validating or submitting a
\* document unless a replacement was asked for meanwhile.
OneRunAtATime ==
    /\ \A q \in Request : job[q].at = "posting" => q = page.request /\ page.running
    /\ page.running = page.cancellable
    /\ page.running => job[page.request].at \in {"validating", "posting", "replaced"}

\* A file that is sent without being validated was sent by this page before: so the
\* first time it went through the validation, and what is repeated is neither what
\* has been selected since nor what has been refused or given up.
RepeatedWasValidated ==
    [][\A q \in Request :
           job[q].at = "none" /\ job'[q].at = "posting" /\ job'[q].doc \in File =>
               \E p \in Request : job[p].at = "ended" /\ job[p].doc = job'[q].doc]_vars

\* When the panel of an idle page says that details are being loaded, they
\* are, and the page will take the answer.  The code does not keep it, and no run
\* checks it: a validation that fails has raised the counter of the page.
LoadingIsHonest ==
    Visible /\ panel.detail = "loading" /\ ~ page.running =>
        [run |-> panel.run, request |-> page.request] \in loads

=============================================================================
