------------------------------ MODULE PageProofs ------------------------------
(***************************************************************************)
(* What the parts of the workbench show, send and offer: the page of       *)
(* Workbench; the form, the checks and the request of Intake; the run, its *)
(* panel and its workflow routes of Review.                                *)
(***************************************************************************)
EXTENDS Workbench, Intake, Review, FiniteSetTheorems, TLAPS

-----------------------------------------------------------------------------
(* The inductive invariant                                                  *)

\* The parts of the state the properties depend on.
IsJob(j) == j = [at |-> j.at, doc |-> j.doc]
IsPanel(p) == p = [run |-> p.run, status |-> p.status, detail |-> p.detail, doc |-> p.doc]

Shape ==
    /\ page \in [running : BOOLEAN, cancellable : BOOLEAN, request : 0..MaxRequests]
    /\ job = [q \in Request |-> [at |-> job[q].at, doc |-> job[q].doc]]
    /\ IsPanel(panel)
    /\ loads \subseteq [run : Request, request : 0..MaxRequests]

\* Only the current value of the counter is awaited by a page that runs.
JobInv ==
    /\ \A q \in Request : job[q].at = "posting" => q = page.request /\ page.running
    /\ page.request \in Request /\ job[page.request].at = "validating" => page.running
    /\ page.running = page.cancellable
    /\ page.running => /\ page.request \in Request
                       /\ job[page.request].at \in {"validating", "posting", "replaced"}

\* Nothing of an earlier run is left when a submission leaves the page.
PostingInv ==
    \A q \in Request : job[q].at = "posting" =>
        panel.run = 0 /\ fields \subseteq {q} /\ loads = {} /\ action = NoAction

\* What is held, awaited or acted upon belongs to the run of the panel; an
\* answer that does not is one that the page will drop.
PanelInv ==
    /\ panel.run \in 0..MaxRequests
    /\ details \subseteq {panel.run} \ {0}
    /\ panel.run # 0 => fields \subseteq {panel.run}
    /\ action # NoAction => action.run = panel.run /\ panel.run # 0
    /\ \A l \in loads : /\ l.request <= page.request
                        /\ l.request = page.request => l.run = panel.run

IInv == Shape /\ JobInv /\ PostingInv /\ PanelInv

\* At first the page shows nothing and awaits nothing.
LEMMA InitHolds == Init => IInv
<1> SUFFICES ASSUME Init PROVE IInv
    OBVIOUS
<1>1. Shape
    BY WorkbenchAssumption DEF Init, Shape, IsPanel, Empty
<1>2. JobInv /\ PostingInv
    BY DEF Init, JobInv, PostingInv, Request
<1>3. PanelInv
    BY WorkbenchAssumption DEF Init, PanelInv, Empty
<1> QED
    BY <1>1, <1>2, <1>3 DEF IInv

\* The invariant says what is shown and what runs.
LEMMA InvImplies == IInv => ShownIsActive /\ OneRunAtATime
BY DEF IInv, JobInv, PanelInv, ShownIsActive, OneRunAtATime

-----------------------------------------------------------------------------
(* The next value of the counter                                            *)

\* Taking it leaves one job that may be posting, and that is the new one.
LEMMA NextJobTakes ==
    ASSUME IInv, NEW at, NEW doc, NextJob(at, doc)
    PROVE  /\ page.request + 1 \in Request
           /\ job' = [q \in Request |-> [at |-> job'[q].at, doc |-> job'[q].doc]]
           /\ job'[page.request + 1].at = at
           /\ \A q \in Request : job'[q].at = "posting" => q = page.request + 1
<1>1. page.request \in Nat /\ page.request < MaxRequests
    BY DEF IInv, Shape, NextJob
<1>2. page.request + 1 \in Request
    BY <1>1, WorkbenchAssumption DEF Request
<1>3. \A q \in Request :
          job'[q] = IF q = page.request + 1 THEN [at |-> at, doc |-> doc]
                    ELSE IF job[q].at = "posting" THEN [job[q] EXCEPT !.at = "ended"] ELSE job[q]
    BY DEF NextJob
<1>4. job' = [q \in Request |-> job'[q]]
    BY DEF NextJob
<1>5. ASSUME NEW q \in Request
      PROVE  /\ job'[q] = [at |-> job'[q].at, doc |-> job'[q].doc]
             /\ job'[q].at = "posting" => q = page.request + 1
  <2>1. job[q] = [at |-> job[q].at, doc |-> job[q].doc]
      BY DEF IInv, Shape
  <2> QED
      BY <1>3, <2>1
<1>6. job'[page.request + 1].at = at
  <2> DEFINE next == page.request + 1
  <2>1. next \in Request
      BY <1>2
  <2> HIDE DEF next
  <2>2. job'[next] = IF next = page.request + 1 THEN [at |-> at, doc |-> doc]
                     ELSE IF job[next].at = "posting" THEN [job[next] EXCEPT !.at = "ended"]
                     ELSE job[next]
      BY <1>3, <2>1
  <2>3. job'[next].at = at
      BY <2>2 DEF next
  <2> QED
      BY <2>3 DEF next
<1> QED
    BY <1>2, <1>4, <1>5, <1>6

\* With the page cleared, nothing is left that belongs to an earlier run.
LEMMA ClearKeeps ==
    ASSUME IInv, NEW at, NEW doc, NEW of, NEW running \in BOOLEAN,
           NextJob(at, doc), Clear(of),
           page' = [running |-> running, cancellable |-> running, request |-> page.request + 1],
           at = "posting" => running /\ fields' = {},
           at = "validating" => running,
           running => at \in {"validating", "posting", "replaced"}
    PROVE  IInv'
<1>1. /\ page.request + 1 \in Request
      /\ job' = [q \in Request |-> [at |-> job'[q].at, doc |-> job'[q].doc]]
      /\ job'[page.request + 1].at = at
      /\ \A q \in Request : job'[q].at = "posting" => q = page.request + 1
    BY NextJobTakes
<1>2. /\ page'.running = running /\ page'.cancellable = running
      /\ page'.request = page.request + 1 /\ page'.request \in 0..MaxRequests
    BY <1>1 DEF Request
<1>3. /\ panel' = Empty(of) /\ panel'.run = 0 /\ IsPanel(panel')
      /\ details' = {} /\ loads' = {} /\ action' = NoAction
    BY DEF Clear, Empty, IsPanel
<1>4. Shape'
    BY <1>1, <1>2, <1>3 DEF Shape
<1>5. JobInv'
    BY <1>1, <1>2 DEF JobInv
<1>6. PostingInv'
  <2>1. ASSUME NEW q \in Request, job'[q].at = "posting" PROVE fields' = {}
      BY <1>1, <2>1
  <2> QED
      BY <1>3, <2>1 DEF PostingInv
<1>7. PanelInv'
    BY <1>3, WorkbenchAssumption DEF PanelInv
<1> QED
    BY <1>4, <1>5, <1>6, <1>7 DEF IInv

-----------------------------------------------------------------------------
(* Clicks                                                                   *)

\* A page that is shown a run awaits no submission.
LEMMA VisibleIsIdle ==
    IInv /\ Visible => panel.run \in Request /\ \A q \in Request : job[q].at # "posting"
BY WorkbenchAssumption DEF IInv, PanelInv, PostingInv, Visible, Request

LEMMA SubmitKeeps == IInv /\ Submit => IInv'
<1> SUFFICES ASSUME IInv, Submit PROVE IInv'
    OBVIOUS
<1>1. page' = [running |-> TRUE, cancellable |-> TRUE, request |-> page.request + 1]
    BY DEF Submit, Began
<1>2. CASE Selected = Sample
    BY <1>1, <1>2, ClearKeeps DEF Submit
<1>3. CASE Selected # Sample
  <2>1. NextJob("validating", Selected) /\ UNCHANGED <<panel, contents, loads, action>>
      BY <1>3 DEF Submit
  <2>2. /\ page.request + 1 \in Request
        /\ job' = [q \in Request |-> [at |-> job'[q].at, doc |-> job'[q].doc]]
        /\ job'[page.request + 1].at = "validating"
        /\ \A q \in Request : job'[q].at = "posting" => q = page.request + 1
      BY <2>1, NextJobTakes
  <2>3. /\ page'.running /\ page'.cancellable /\ page'.request = page.request + 1
        /\ page' \in [running : BOOLEAN, cancellable : BOOLEAN, request : 0..MaxRequests]
      BY <1>1, <2>2 DEF Request
  <2>4. Shape'
      BY <2>1, <2>2, <2>3 DEF IInv, Shape, IsPanel
  <2>5. \A q \in Request : job'[q].at # "posting"
      BY <2>2
  <2>6. JobInv' /\ PostingInv'
      BY <2>2, <2>3, <2>5 DEF JobInv, PostingInv
  <2>7. PanelInv'
    <3>1. ASSUME NEW l \in loads PROVE l.request < page.request + 1
        BY <3>1 DEF IInv, Shape, PanelInv
    <3> QED
        BY <2>1, <2>3, <3>1 DEF IInv, Shape, PanelInv, contents
  <2> QED
      BY <2>4, <2>6, <2>7 DEF IInv
<1> QED
    BY <1>2, <1>3

LEMMA CancelKeeps == IInv /\ Cancel => IInv'
<1> SUFFICES ASSUME IInv, Cancel PROVE IInv'
    OBVIOUS
<1>1. page' = [running |-> FALSE, cancellable |-> FALSE, request |-> page.request + 1]
    BY DEF Cancel, Cancelled, Free, IInv, Shape
<1> QED
    BY <1>1, ClearKeeps DEF Cancel

\* A retry of the details and an action are of the run that is shown.
LEMMA PanelClicksKeep ==
    ASSUME IInv, Retry \/ \E kind \in {"retry", "replace", "other"} : Act(kind)
    PROVE  IInv'
<1>1. panel.run \in Request /\ \A q \in Request : job[q].at # "posting"
    BY VisibleIsIdle DEF Retry, Act
<1>2. /\ UNCHANGED <<page, job, contents>> /\ IsPanel(panel') /\ panel'.run = panel.run
      /\ \/ loads' = {[run |-> panel.run, request |-> page.request]} /\ action' = action
         \/ loads' = loads /\ action'.run = panel.run
    BY DEF Retry, Act, Load, contents, IInv, Shape, IsPanel
<1>3. Shape'
    BY <1>1, <1>2 DEF IInv, Shape
<1>4. JobInv' /\ PostingInv'
    BY <1>1, <1>2 DEF IInv, JobInv, PostingInv
<1>5. PanelInv'
  <2>1. panel.run # 0
      BY <1>1 DEF Request
  <2>2. page.request <= page.request
      BY DEF IInv, Shape
  <2>3. \A l \in loads' : l.request <= page.request /\ (l.request = page.request => l.run = panel.run)
      BY <1>2, <2>2 DEF IInv, PanelInv
  <2> QED
      BY <1>2, <2>1, <2>3 DEF IInv, PanelInv, contents
<1> QED
    BY <1>3, <1>4, <1>5 DEF IInv

-----------------------------------------------------------------------------
(* Answers                                                                  *)

\* The end of a job leaves the others as they are.
LEMMA JobMoves ==
    ASSUME IInv, NEW q \in Request, NEW at, job' = [job EXCEPT ![q].at = at]
    PROVE  /\ job' = [p \in Request |-> [at |-> job'[p].at, doc |-> job'[p].doc]]
           /\ job'[q].at = at
           /\ \A p \in Request \ {q} : job'[p].at = job[p].at
<1>1. \A p \in Request : job'[p] = IF p = q THEN [job[p] EXCEPT !.at = at] ELSE job[p]
    BY DEF IInv, Shape
<1>2. job' = [p \in Request |-> job'[p]]
    BY DEF IInv, Shape
<1>3. ASSUME NEW p \in Request
      PROVE  /\ job'[p] = [at |-> job'[p].at, doc |-> job'[p].doc]
             /\ job'[p].at = IF p = q THEN at ELSE job[p].at
  <2>1. job[p] = [at |-> job[p].at, doc |-> job[p].doc]
      BY DEF IInv, Shape
  <2> QED
      BY <1>1, <2>1
<1> QED
    BY <1>2, <1>3

LEMMA ValidateKeeps == ASSUME IInv, NEW q \in Request, Validate(q) PROVE IInv'
<1>1. job[q].at = "validating"
    BY DEF Validate
<1>2. CASE q # page.request /\ job' = [job EXCEPT ![q].at = "dropped"]
           /\ UNCHANGED <<page, panel, contents, loads, action>>
  <2>1. Shape'
      BY <1>2, JobMoves DEF IInv, Shape, IsPanel
  <2>2. JobInv'
      BY <1>1, <1>2, JobMoves DEF IInv, JobInv
  <2>3. PostingInv'
      BY <1>2, JobMoves DEF IInv, PostingInv, contents
  <2>4. PanelInv'
      BY <1>2 DEF IInv, PanelInv, contents
  <2> QED
      BY <2>1, <2>2, <2>3, <2>4 DEF IInv
<1>3. CASE q = page.request /\ page' = Free /\ job' = [job EXCEPT ![q].at = "refused"]
           /\ UNCHANGED <<panel, contents, loads, action>>
  <2>1. page' = [running |-> FALSE, cancellable |-> FALSE, request |-> page.request]
      BY <1>3 DEF Free, IInv, Shape
  <2>2. Shape'
    <3>1. page' \in [running : BOOLEAN, cancellable : BOOLEAN, request : 0..MaxRequests]
        BY <2>1 DEF IInv, Shape
    <3>2. job' = [p \in Request |-> [at |-> job'[p].at, doc |-> job'[p].doc]]
        BY <1>3, JobMoves
    <3> QED
        BY <1>3, <3>1, <3>2 DEF IInv, Shape, IsPanel
  <2>3. \A p \in Request : job'[p].at # "posting"
      BY <1>1, <1>3, JobMoves DEF IInv, JobInv
  <2>4. JobInv' /\ PostingInv'
    <3>1. page'.running = FALSE /\ page'.cancellable = FALSE /\ page'.request = q
        BY <1>3, <2>1
    <3>2. job'[q].at = "refused"
        BY <1>3, JobMoves
    <3>3. JobInv'
        BY <2>3, <3>1, <3>2 DEF JobInv
    <3>4. PostingInv'
        BY <2>3 DEF PostingInv
    <3> QED
        BY <3>3, <3>4
  <2>5. PanelInv'
      BY <1>3, <2>1 DEF IInv, PanelInv, contents
  <2> QED
      BY <2>2, <2>4, <2>5 DEF IInv
<1>4. CASE q = page.request /\ UNCHANGED page /\ job' = [job EXCEPT ![q].at = "posting"]
           /\ Clear(job[q].doc) /\ fields' = {}
  <2>1. page.running
      BY <1>1, <1>4 DEF IInv, JobInv
  <2>2. \A p \in Request : job'[p].at = "posting" => p = q
      BY <1>1, <1>4, JobMoves DEF IInv, JobInv
  <2>3. /\ panel' = Empty(job[q].doc) /\ panel'.run = 0 /\ IsPanel(panel')
        /\ details' = {} /\ loads' = {} /\ action' = NoAction
      BY <1>4 DEF Clear, Empty, IsPanel
  <2>4. Shape'
      BY <1>4, <2>3, JobMoves DEF IInv, Shape
  <2>5. JobInv'
      BY <1>4, <2>1, <2>2, JobMoves DEF IInv, JobInv
  <2>6. PostingInv' /\ PanelInv'
      BY <1>4, <2>3, WorkbenchAssumption DEF PostingInv, PanelInv
  <2> QED
      BY <2>4, <2>5, <2>6 DEF IInv
<1> QED
    BY <1>2, <1>3, <1>4 DEF Validate

LEMMA StreamKeeps == ASSUME IInv, NEW q \in Request, Stream(q) PROVE IInv'
<1>1. /\ job[q].at = "posting" /\ q = page.request /\ fields' = fields \cup {q}
      /\ UNCHANGED <<page, job, panel, details, loads, action>>
    BY DEF Stream
<1>2. panel.run = 0 /\ fields \subseteq {q} /\ loads = {} /\ action = NoAction
    BY <1>1 DEF IInv, PostingInv
<1>3. Shape' /\ JobInv'
    BY <1>1 DEF IInv, Shape, JobInv, IsPanel
<1>4. PostingInv'
  <2>1. \A p \in Request : job[p].at = "posting" => p = q
      BY <1>1 DEF IInv, JobInv
  <2> QED
      BY <1>1, <1>2, <2>1 DEF PostingInv
<1>5. PanelInv'
    BY <1>1, <1>2 DEF IInv, PanelInv
<1> QED
    BY <1>3, <1>4, <1>5 DEF IInv

LEMMA RespondKeeps == ASSUME IInv, NEW q \in Request, Respond(q) PROVE IInv'
<1>1. /\ job[q].at = "posting" /\ job' = [job EXCEPT ![q].at = "ended"]
      /\ details' = details /\ action' = action
    BY DEF Respond
<1>2. /\ q = page.request /\ panel.run = 0 /\ fields \subseteq {q} /\ loads = {}
      /\ action = NoAction /\ details = {}
    BY <1>1 DEF IInv, JobInv, PostingInv, PanelInv
<1>3. page' = [running |-> FALSE, cancellable |-> FALSE, request |-> page.request]
      /\ fields' = fields
    BY <1>2 DEF Respond, Free, IInv, Shape
<1>4. \A p \in Request : job'[p].at # "posting"
    BY <1>1, JobMoves DEF IInv, JobInv
<1>5. JobInv' /\ PostingInv'
    BY <1>1, <1>2, <1>3, <1>4, JobMoves DEF JobInv, PostingInv
<1>6. IsPanel(panel')
      /\ \/ panel'.run = q /\ loads' = {[run |-> q, request |-> page.request]}
         \/ panel'.run = 0 /\ loads' = {}
  <2>1. CASE \E doc \in {panel.doc, Nothing} : panel' = Empty(doc) /\ UNCHANGED loads
      BY <1>2, <2>1 DEF Empty, IsPanel
  <2>2. CASE \E status \in {"completed", "failed"} :
                 /\ panel' = [panel EXCEPT !.run = q, !.status = status, !.detail = "loading"]
                 /\ Load(q)
      BY <2>2 DEF Load, IInv, Shape, IsPanel
  <2> QED
      BY <1>2, <2>1, <2>2 DEF Respond
<1>7. Shape'
  <2>1. page' \in [running : BOOLEAN, cancellable : BOOLEAN, request : 0..MaxRequests]
      BY <1>3 DEF IInv, Shape
  <2>2. job' = [p \in Request |-> [at |-> job'[p].at, doc |-> job'[p].doc]]
      BY <1>1, JobMoves
  <2>3. loads' \subseteq [run : Request, request : 0..MaxRequests]
      BY <1>6 DEF IInv, Shape
  <2> QED
      BY <1>6, <2>1, <2>2, <2>3 DEF Shape
<1>8. PanelInv'
  <2>1. page.request <= page.request /\ q \in 0..MaxRequests
      BY DEF IInv, Shape, Request
  <2> QED
      BY <1>1, <1>2, <1>3, <1>6, <2>1, WorkbenchAssumption DEF PanelInv
<1> QED
    BY <1>5, <1>7, <1>8 DEF IInv

LEMMA LoadedKeeps == ASSUME IInv, NEW l \in loads, Loaded(l) PROVE IInv'
<1>1. /\ loads' = loads \ {l} /\ UNCHANGED <<page, job>>
      /\ IsPanel(panel') /\ panel'.run = panel.run /\ action' \in {action, NoAction}
    BY DEF Loaded, IInv, Shape, IsPanel
<1>2. \/ UNCHANGED contents
      \/ /\ l.request = page.request
         /\ details' = details \cup {l.run} /\ fields' \in {fields, {l.run}}
    BY DEF Loaded
<1>3. l.request = page.request => l.run = panel.run /\ panel.run # 0
    BY WorkbenchAssumption DEF IInv, Shape, PanelInv, Request
<1>4. \A q \in Request : job[q].at # "posting"
    BY DEF IInv, PostingInv
<1>5. Shape' /\ JobInv' /\ PostingInv'
    BY <1>1, <1>4 DEF IInv, Shape, JobInv, PostingInv
<1>6. PanelInv'
    BY <1>1, <1>2, <1>3 DEF IInv, PanelInv, contents
<1> QED
    BY <1>5, <1>6 DEF IInv

\* A replacement may leave the page running for nothing.
LEMMA ReplaceKeeps == IInv /\ Replace => IInv'
<1> SUFFICES ASSUME IInv, Replace PROVE IInv'
    OBVIOUS
<1>1. /\ page.running \in BOOLEAN
      /\ page' = [running |-> page.running, cancellable |-> page.running,
                  request |-> page.request + 1]
    BY DEF Replace, IInv, Shape, JobInv
<1> QED
    BY <1>1, ClearKeeps DEF Replace

LEMMA ActedKeeps == IInv /\ Acted => IInv'
<1> SUFFICES ASSUME IInv, Acted PROVE IInv'
    OBVIOUS
<1>1. ASSUME UNCHANGED <<page, job, panel, fields, loads>>, action' = NoAction,
             details' = details \/ (action # NoAction /\ details' = details \cup {action.run})
      PROVE  IInv'
  <2>1. Shape' /\ JobInv' /\ PostingInv'
      BY <1>1 DEF IInv, Shape, JobInv, PostingInv, IsPanel
  <2>2. PanelInv'
      BY <1>1 DEF IInv, PanelInv
  <2> QED
      BY <2>1, <2>2 DEF IInv
<1>2. action.kind \in {"retry", "other"} => action # NoAction
    BY DEF NoAction
<1>3. CASE action.kind = "replace" /\ Replace
    BY <1>3, ReplaceKeeps
<1>4. CASE action.kind = "retry" /\ Reprocess
  <2>1. CASE page' = Began /\ NextJob("posting", panel.doc) /\ Clear(panel.doc) /\ fields' = {}
      BY <2>1, ClearKeeps DEF Began
  <2> QED
      BY <1>1, <1>2, <1>4, <2>1, ReplaceKeeps DEF Reprocess
<1>5. CASE /\ action.kind = "other" /\ details' = details \cup {action.run}
           /\ action' = NoAction /\ UNCHANGED <<page, upload, job, panel, fields, loads>>
    BY <1>1, <1>2, <1>5
<1>6. CASE /\ action # NoAction /\ action' = NoAction
           /\ UNCHANGED <<page, upload, job, panel, contents, loads>>
    BY <1>1, <1>6 DEF contents
<1> QED
    BY <1>3, <1>4, <1>5, <1>6 DEF Acted

-----------------------------------------------------------------------------
(* The theorems                                                             *)

\* Every click and every answer keeps the invariant.
LEMMA NextKeeps == IInv /\ [Next]_vars => IInv'
<1> SUFFICES ASSUME IInv, [Next]_vars PROVE IInv'
    OBVIOUS
<1>1. CASE Choose \/ UNCHANGED vars
  <2>1. UNCHANGED <<page, job, panel, contents, loads, action>>
      BY <1>1 DEF Choose, vars
  <2> QED
      BY <2>1 DEF IInv, Shape, JobInv, PostingInv, PanelInv, IsPanel, contents
<1>2. CASE \E q \in Request : Validate(q) \/ Stream(q) \/ Respond(q)
    BY <1>2, ValidateKeeps, StreamKeeps, RespondKeeps
<1> QED
    BY <1>1, <1>2, SubmitKeeps, CancelKeeps, PanelClicksKeep, ActedKeeps, LoadedKeeps DEF Next

\* For any documents and any number of requests, whatever answers come late, the
\* details, events and fields under a run in the panel are that run's own.
THEOREM ShownTheorem == Spec => []ShownIsActive
<1>1. IInv => ShownIsActive
    BY InvImplies
<1> QED
    BY <1>1, InitHolds, NextKeeps, PTL DEF Spec

\* A submission that is awaited is the page's current one, a running page can be
\* cancelled, and it has a document at work unless a replacement was asked for.
THEOREM OneRunTheorem == Spec => []OneRunAtATime
<1>1. IInv => OneRunAtATime
    BY InvImplies
<1> QED
    BY <1>1, InitHolds, NextKeeps, PTL DEF Spec

\* The document a run can be repeated with was sent; a value the counter has not
\* reached was taken for nothing.
Sent(doc) == \E p \in Request : job[p].at \in {"posting", "ended"} /\ job[p].doc = doc
SentInv ==
    /\ panel.doc \in File => Sent(panel.doc)
    /\ \A p \in Request : p > page.request => job[p].at = "none"

\* What was sent has been sent when the counter goes on.
LEMMA StillSent ==
    ASSUME IInv, SentInv, NEW at, NEW doc, NextJob(at, doc), page'.request = page.request + 1
    PROVE  /\ \A d : Sent(d) => Sent(d)'
           /\ at \in {"posting", "ended"} => Sent(doc)'
           /\ \A p \in Request : p > page'.request => job'[p].at = "none"
<1>1. page.request \in Nat /\ page.request + 1 \in Request
    BY NextJobTakes DEF IInv, Shape
<1>2. \A q \in Request :
          job'[q] = IF q = page.request + 1 THEN [at |-> at, doc |-> doc]
                    ELSE IF job[q].at = "posting" THEN [job[q] EXCEPT !.at = "ended"] ELSE job[q]
    BY DEF NextJob
<1>3. ASSUME NEW q \in Request, q # page.request + 1
      PROVE  /\ job'[q].doc = job[q].doc
             /\ job'[q].at = IF job[q].at = "posting" THEN "ended" ELSE job[q].at
  <2>1. job[q] = [at |-> job[q].at, doc |-> job[q].doc]
      BY DEF IInv, Shape
  <2> QED
      BY <1>2, <1>3, <2>1
<1>4. ASSUME NEW d, Sent(d) PROVE Sent(d)'
  <2>1. PICK p \in Request : job[p].at \in {"posting", "ended"} /\ job[p].doc = d
      BY <1>4 DEF Sent
  <2>2. p # page.request + 1
      BY <1>1, <2>1 DEF SentInv, Request
  <2>3. job'[p].at \in {"posting", "ended"} /\ job'[p].doc = d
      BY <1>3, <2>1, <2>2
  <2> QED
      BY <2>3 DEF Sent
<1>5. at \in {"posting", "ended"} => Sent(doc)'
  <2> DEFINE next == page.request + 1
  <2>1. next \in Request
      BY <1>1
  <2>2. job'[next] = [at |-> at, doc |-> doc]
      BY <1>2, <2>1
  <2> HIDE DEF next
  <2>3. job'[next].at = at /\ job'[next].doc = doc
      BY <2>2
  <2> QED
      BY <2>1, <2>3 DEF Sent
<1>6. ASSUME NEW p \in Request, p > page'.request PROVE job'[p].at = "none"
  <2>1. p # page.request + 1 /\ p > page.request
      BY <1>1, <1>6 DEF Request
  <2> QED
      BY <1>3, <2>1 DEF SentInv
<1> QED
    BY <1>4, <1>5, <1>6

\* A job that moves on after it was taken sends or has sent what it was to send.
LEMMA MovedOn ==
    ASSUME IInv, SentInv, NEW q \in Request, NEW at, job' = [job EXCEPT ![q].at = at],
           job[q].at # "none", page'.request = page.request,
           job[q].at \in {"posting", "ended"} => at \in {"posting", "ended"}
    PROVE  /\ \A d : Sent(d) => Sent(d)'
           /\ at \in {"posting", "ended"} => Sent(job[q].doc)'
           /\ \A p \in Request : p > page'.request => job'[p].at = "none"
<1>1. \A p \in Request : /\ job'[p].doc = job[p].doc
                         /\ job'[p].at = IF p = q THEN at ELSE job[p].at
  <2> SUFFICES ASSUME NEW p \in Request
               PROVE  /\ job'[p].doc = job[p].doc
                      /\ job'[p].at = IF p = q THEN at ELSE job[p].at
      OBVIOUS
  <2>1. job[p] = [at |-> job[p].at, doc |-> job[p].doc]
      BY DEF IInv, Shape
  <2>2. job'[p] = IF p = q THEN [job[p] EXCEPT !.at = at] ELSE job[p]
      BY DEF IInv, Shape
  <2> QED
      BY <2>1, <2>2
<1> QED
    BY <1>1 DEF Sent, SentInv

LEMMA SentStart == Init => SentInv
BY WorkbenchAssumption DEF Init, SentInv, Empty, Nothing, Request

LEMMA SentKept == IInv /\ SentInv /\ [Next]_vars => SentInv'
<1> SUFFICES ASSUME IInv, SentInv, [Next]_vars PROVE SentInv'
    OBVIOUS
<1>1. Sample \notin File /\ Nothing \notin File
    BY WorkbenchAssumption
<1>2. ASSUME UNCHANGED <<page, job>>, panel'.doc = panel.doc PROVE SentInv'
    BY <1>2 DEF SentInv, Sent
<1>3. ASSUME NEW at, NEW doc, NEW of, NextJob(at, doc), page'.request = page.request + 1,
             panel'.doc = of, of \in File => of = panel.doc \/ (of = doc /\ at = "posting")
      PROVE  SentInv'
    BY <1>3, StillSent DEF SentInv
<1>4. \A doc : Clear(doc) => panel'.doc = doc
    BY DEF Clear, Empty
<1>5. CASE UNCHANGED vars \/ Choose \/ \E kind \in {"retry", "replace", "other"} : Act(kind)
    BY <1>2, <1>5 DEF vars, Choose, Act
<1>6. CASE Submit
  <2>1. page'.request = page.request + 1
      BY <1>6 DEF Submit, Began
  <2>2. CASE Selected = Sample
      BY <1>1, <1>3, <1>4, <1>6, <2>1, <2>2 DEF Submit
  <2>3. CASE Selected # Sample
      BY <1>3, <1>6, <2>1, <2>3 DEF Submit
  <2> QED
      BY <2>2, <2>3
<1>7. CASE Cancel
  <2>1. page'.request = page.request + 1
      BY <1>7 DEF Cancel, Cancelled, Free, IInv, Shape
  <2> QED
      BY <1>1, <1>3, <1>4, <1>7, <2>1 DEF Cancel
<1>8. CASE Retry
  <2>1. panel'.doc = panel.doc
      BY <1>8 DEF Retry, IInv, Shape, IsPanel
  <2> QED
      BY <1>2, <1>8, <2>1 DEF Retry
<1>9. ASSUME Replace PROVE SentInv'
  <2>1. page'.request = page.request + 1
      BY <1>9 DEF Replace, IInv, Shape
  <2> QED
      BY <1>1, <1>3, <1>4, <1>9, <2>1 DEF Replace
<1>10. CASE Acted
  <2>1. ASSUME Reprocess PROVE SentInv'
    <3>1. CASE page' = Began /\ NextJob("posting", panel.doc) /\ Clear(panel.doc)
      <4>1. page'.request = page.request + 1
          BY <3>1 DEF Began
      <4> QED
          BY <1>3, <1>4, <3>1, <4>1
    <3> QED
        BY <1>2, <1>9, <2>1, <3>1 DEF Reprocess
  <2> QED
      BY <1>2, <1>9, <1>10, <2>1 DEF Acted
<1>11. ASSUME NEW q \in Request, Validate(q) PROVE SentInv'
  <2>1. CASE /\ \/ job' = [job EXCEPT ![q].at = "dropped"] /\ UNCHANGED page
                \/ job' = [job EXCEPT ![q].at = "refused"] /\ page' = Free
             /\ UNCHANGED panel
    <3>1. page'.request = page.request
        BY <2>1 DEF Free, IInv, Shape
    <3>2. job[q].at = "validating"
        BY <1>11 DEF Validate
    <3>3. \A d : Sent(d) => Sent(d)'
        BY <2>1, <3>1, <3>2, MovedOn
    <3>4. \A p \in Request : p > page'.request => job'[p].at = "none"
        BY <2>1, <3>1, <3>2, MovedOn
    <3> QED
        BY <2>1, <3>3, <3>4 DEF SentInv
  <2>2. CASE /\ UNCHANGED page /\ job' = [job EXCEPT ![q].at = "posting"]
             /\ Clear(job[q].doc)
    <3>1. job[q].at = "validating" /\ page'.request = page.request
        BY <1>11, <2>2 DEF Validate
    <3>2. /\ Sent(job[q].doc)'
          /\ \A p \in Request : p > page'.request => job'[p].at = "none"
        BY <2>2, <3>1, MovedOn
    <3> QED
        BY <1>4, <2>2, <3>2 DEF SentInv
  <2> QED
      BY <1>11, <2>1, <2>2 DEF Validate
<1>12. ASSUME NEW q \in Request, Stream(q) PROVE SentInv'
    BY <1>2, <1>12 DEF Stream
<1>13. ASSUME NEW q \in Request, Respond(q) PROVE SentInv'
  <2>1. /\ job[q].at = "posting" /\ job' = [job EXCEPT ![q].at = "ended"]
        /\ page'.request = page.request
      BY <1>13 DEF Respond, Free, IInv, Shape
  <2>2. panel'.doc \in {panel.doc, Nothing}
    <3>1. CASE UNCHANGED panel
        BY <3>1
    <3>2. CASE \E status \in {"completed", "failed"} :
                   panel' = [panel EXCEPT !.run = q, !.status = status, !.detail = "loading"]
        BY <3>2 DEF IInv, Shape, IsPanel
    <3>3. CASE \E doc \in {panel.doc, Nothing} : panel' = Empty(doc)
        BY <3>3 DEF Empty
    <3> QED
        BY <1>13, <3>1, <3>2, <3>3 DEF Respond
  <2>3. /\ \A d : Sent(d) => Sent(d)'
        /\ \A p \in Request : p > page'.request => job'[p].at = "none"
      BY <2>1, MovedOn
  <2> QED
      BY <1>1, <2>2, <2>3 DEF SentInv
<1>14. ASSUME NEW l \in loads, Loaded(l) PROVE SentInv'
  <2>1. panel'.doc = panel.doc
      BY <1>14 DEF Loaded, IInv, Shape, IsPanel
  <2> QED
      BY <1>2, <1>14, <2>1 DEF Loaded
<1> QED
    BY <1>5, <1>6, <1>7, <1>8, <1>10, <1>11, <1>12, <1>13, <1>14 DEF Next

\* What a step submits that was not there before, it submits without validating
\* it: a sample, or the document of the panel, which was sent and is not awaited.
LEMMA SubmittedAnew ==
    ASSUME IInv, SentInv, Next, NEW q \in Request,
           job[q].at = "none", job'[q].at = "posting", job'[q].doc \in File
    PROVE  \E p \in Request : job[p].at = "ended" /\ job[p].doc = job'[q].doc
<1>1. \A at, doc : NextJob(at, doc) => at = "posting" /\ job'[q].doc = doc
  <2>1. SUFFICES ASSUME NEW at, NEW doc, NextJob(at, doc) PROVE at = "posting" /\ job'[q].doc = doc
      OBVIOUS
  <2>2. job'[q] = IF q = page.request + 1 THEN [at |-> at, doc |-> doc]
                  ELSE IF job[q].at = "posting" THEN [job[q] EXCEPT !.at = "ended"] ELSE job[q]
      BY <2>1 DEF NextJob
  <2> QED
      BY <2>2
<1>2. ASSUME job' = job PROVE FALSE
    BY <1>2
<1>3. ASSUME NEW p \in Request, NEW at, job' = [job EXCEPT ![p].at = at], job[p].at # "none"
      PROVE  FALSE
    BY <1>3 DEF IInv, Shape
<1>4. ~ Choose /\ ~ Retry /\ ~ \E kind \in {"retry", "replace", "other"} : Act(kind)
    BY <1>2 DEF Choose, Retry, Act
<1>5. ~ Cancel /\ ~ Replace
    BY <1>1 DEF Cancel, Replace
<1>6. ~ Submit
    BY <1>1, WorkbenchAssumption, <1>2 DEF Submit
<1>7. ASSUME NEW p \in Request PROVE ~ (Validate(p) \/ Stream(p) \/ Respond(p))
    BY <1>2, <1>3 DEF Validate, Stream, Respond
<1>8. ~ \E l \in loads : Loaded(l)
    BY <1>2 DEF Loaded
<1>9. Acted
    BY <1>2, <1>4, <1>5, <1>6, <1>7, <1>8 DEF Next
<1>10. action.kind = "retry" /\ Reprocess
    BY <1>2, <1>5, <1>9 DEF Acted
<1>11. NextJob("posting", panel.doc)
    BY <1>2, <1>5, <1>10 DEF Reprocess
<1>12. \A p \in Request : job[p].at # "posting"
    BY <1>10 DEF IInv, PostingInv, NoAction
<1> QED
    BY <1>1, <1>11, <1>12 DEF SentInv, Sent

\* A file that is sent without being validated was sent by the page before, when
\* it was validated, whatever was selected, refused, cancelled or replaced since.
THEOREM RepeatTheorem == Spec => RepeatedWasValidated
<1> DEFINE Validated == \A q \in Request :
               job[q].at = "none" /\ job'[q].at = "posting" /\ job'[q].doc \in File =>
                   \E p \in Request : job[p].at = "ended" /\ job[p].doc = job'[q].doc
<1>1. IInv /\ SentInv /\ [Next]_vars => [Validated]_vars
    BY SubmittedAnew
<1> QED
    BY <1>1, InitHolds, NextKeeps, SentStart, SentKept, PTL DEF Spec, RepeatedWasValidated

-----------------------------------------------------------------------------
(* The form, the checks of a file and the request                           *)

-----------------------------------------------------------------------------
(* Intake: what is known of a file, of labels and of an upload              *)

\* A document that passes is readable, within the limits, and what it says it is.
LEMMA PassedFile ==
    ASSUME NEW f \in UserFile \cup {SampleFile}, FileErrors(f) = {}
    PROVE  /\ f.size \in 1..MaxFile /\ f.type = f.format
           /\ f.format = "pdf" => f.pages <= MaxPages
<1>1. f.size \in Nat
    BY IntakeAssumption DEF SampleFile
<1>2. \A e \in {"empty_file", "file_too_large", "unsupported_format", "mime_mismatch", "pdf_page_limit"} :
          ~ CASE e = "empty_file"         -> f.size = 0
              [] e = "file_too_large"     -> f.size > MaxFile
              [] e = "unsupported_format" -> f.format \notin Format /\ f.size > 0
              [] e = "mime_mismatch"      -> f.format \in Format /\ f.type # f.format
              [] OTHER                    -> f.format = "pdf" /\ f.pages > MaxPages
    BY DEF FileErrors
<1>3. f.size # 0
    BY <1>2
<1>4. ~ (f.size > MaxFile)
    BY <1>2
<1>5. ~ (f.format \notin Format /\ f.size > 0)
    BY <1>2
<1>6. ~ (f.format \in Format /\ f.type # f.format)
    BY <1>2
<1>7. ~ (f.format = "pdf" /\ f.pages > MaxPages)
    BY <1>2
<1>8. f.pages \in Int /\ MaxPages \in Int
    BY IntakeAssumption DEF SampleFile, Unreadable, MaxPages
<1> QED
    BY <1>1, <1>3, <1>4, <1>5, <1>6, <1>7, <1>8, IntakeAssumption

\* A sample passes.
LEMMA SamplePasses == FileErrors(SampleFile) = {}
BY IntakeAssumption DEF FileErrors, SampleFile, Format, MaxPages

\* The errors of an upload have names of their own.
LEMMA ErrorNames ==
    ASSUME NEW u
    PROVE  Errors(u) \subseteq
               {"empty_file", "file_too_large", "unsupported_format", "mime_mismatch",
                "pdf_page_limit", "field_count", "blank_field", "duplicate_field",
                "consent_required"}
<1>1. FileErrors(u.file) \subseteq
          {"empty_file", "file_too_large", "unsupported_format", "mime_mismatch", "pdf_page_limit"}
    BY DEF FileErrors
<1>2. LabelErrors(u.labels) \subseteq {"field_count", "blank_field", "duplicate_field"}
    BY DEF LabelErrors
<1> QED
    BY <1>1, <1>2 DEF Errors

\* The first error is one of them.
LEMMA FirstIsError ==
    ASSUME NEW E, E # {}
    PROVE  First(E) \in E
BY DEF First

\* Labels with keys of their own have as many keys.
LEMMA KeysCounted ==
    ASSUME NEW labels \in Seq(Label),
           \A i, j \in DOMAIN labels : labels[i].key = labels[j].key => i = j
    PROVE  Cardinality({labels[i].key : i \in DOMAIN labels}) = Len(labels)
<1> DEFINE D == 1..Len(labels)
           K == {labels[i].key : i \in D}
           f == [i \in D |-> labels[i].key]
<1>1. DOMAIN labels = D /\ Len(labels) \in Nat
    OBVIOUS
<1>2. f \in Bijection(D, K)
  <2>1. f \in [D -> K] /\ \A k \in K : \E i \in D : f[i] = k
    OBVIOUS
  <2>2. \A i, j \in D : f[i] = f[j] => i = j
    BY <1>1
  <2> HIDE DEF f, K
  <2> QED
    BY <2>1, <2>2 DEF Bijection, Injection, Surjection, IsInjective
<1>3. IsFiniteSet(D) /\ Cardinality(D) = Len(labels)
    BY <1>1, FS_Interval
<1>4. ExistsBijection(D, K)
    BY <1>2 DEF ExistsBijection
<1> HIDE DEF D, K, f
<1>5. Cardinality(K) = Cardinality(D)
    BY <1>3, <1>4, FS_Bijection
<1> QED
    BY <1>1, <1>3, <1>5 DEF K

\* What the second validation and the run rely on.
Ready(u) ==
    /\ Errors(u) = {}
    /\ u.source = "custom" =>
           /\ u.file.size \in 1..MaxFile /\ u.file.type = u.file.format
           /\ u.file.format = "pdf" => u.file.pages \in 0..MaxPages
           /\ Cardinality({u.labels[i].key : i \in DOMAIN u.labels}) = Len(u.labels)
           /\ Len(u.labels) \in {2, 3}
           /\ u.consent

\* A custom upload that is parsed is ready.
LEMMA ParsedIsReady ==
    ASSUME NEW u \in Upload, u.source = "custom", ParsedCustom(u) = "none"
    PROVE  Ready(u)
<1>1. u.file # NoFile /\ u.file \in UserFile /\ u.labels \in Seq(Label)
    BY IntakeAssumption DEF Upload, ParsedCustom
<1>2. /\ ~ (u.file.format = "pdf" /\ u.file.pages = Unreadable)
      /\ \A i, j \in DOMAIN u.labels : u.labels[i].key = u.labels[j].key => i = j
      /\ Errors(u) # {} => First(Errors(u)) = "none"
    BY <1>1 DEF ParsedCustom, DistinctBy
<1>3. Errors(u) = {}
    BY <1>2, ErrorNames, FirstIsError
<1>4. FileErrors(u.file) = {} /\ LabelErrors(u.labels) = {} /\ u.consent
    BY <1>3 DEF Errors
<1>5. Len(u.labels) \in {2, 3}
    BY <1>4 DEF LabelErrors
<1>6. u.file.pages \in Nat \cup {Unreadable}
    BY <1>1, IntakeAssumption
<1>7. u.file.format = "pdf" => u.file.pages \in 0..MaxPages
  <2>1. u.file.format = "pdf" => u.file.pages <= MaxPages
    BY <1>1, <1>4, PassedFile
  <2> QED
    <3>1. u.file.format = "pdf" => u.file.pages \in Nat /\ u.file.pages <= MaxPages
      BY <1>2, <1>6, <2>1
    <3> DEFINE n == u.file.pages
    <3> HIDE DEF n
    <3>2. n \in Nat /\ n <= MaxPages => n \in 0..MaxPages
      BY DEF MaxPages
    <3> QED
      BY <3>1, <3>2 DEF n
<1> QED
    BY <1>1, <1>2, <1>3, <1>4, <1>5, <1>7, PassedFile, KeysCounted DEF Ready

\* So is a sample.
LEMMA SampleIsReady ==
    ASSUME NEW u \in Upload, u.source = "synthetic"
    PROVE  Ready(SampleUpload(u))
<1> DEFINE s == SampleUpload(u)
<1>1. s.file = SampleFile /\ s.source = "synthetic"
    BY DEF SampleUpload, Upload
<1> HIDE DEF s
<1> QED
    BY <1>1, SamplePasses DEF Ready, Errors, s

-----------------------------------------------------------------------------
(* Intake: the inductive invariant                                          *)

\* The records of the state have their fields.
IntakeShape ==
    /\ form \in [file : UserFile \cup {NoFile}, fields : FieldLists, consent : BOOLEAN,
                 valid : BOOLEAN, checking : BOOLEAN, selection : 0..MaxSelections]
    /\ checks \subseteq [by : {"select", "validate", "run"}, file : UserFile,
                         selection : 0..MaxSelections]
    /\ sender = [running |-> sender.running, knows |-> sender.knows, upload |-> sender.upload]
    /\ sender.running \in BOOLEAN /\ sender.knows \in BOOLEAN /\ available \in BOOLEAN
    /\ post = [at |-> post.at, byPage |-> post.byPage, bytes |-> post.bytes,
               upload |-> post.upload, preflight |-> post.preflight, mode |-> post.mode,
               code |-> post.code]
    /\ post.at \in {"none", "sent", "reading", "parsed", "admitted", "opened", "refused",
            "executed"}
    /\ post.byPage \in BOOLEAN /\ post.bytes \in 0..MaxBody

\* A form has two or three fields.
FormInv == Len(form.fields) \in {2, 3}

\* At most one check stands between a running page and its submission, and it is
\* of the document that will be submitted.
CheckInv ==
    /\ \A c \in checks : c.by = "run" =>
           sender.running /\ post.at = "none" /\ c.file = sender.upload.file
    /\ \A c, d \in checks : c.by = "run" /\ d.by = "run" => c = d

\* A page that runs has captured its form, and one that submits has checked it.
SenderInv ==
    /\ sender.running =>
           /\ sender.upload \in Upload /\ sender.upload.source = "custom"
           /\ sender.upload.file \in UserFile /\ Len(sender.upload.labels) \in {2, 3}
    /\ post.at = "none" => ~ post.byPage
    /\ post.byPage =>
           /\ sender.running /\ Passes(sender.upload.file) /\ FilledIn(sender.upload)
           /\ post.preflight = "given"

\* What was parsed stays ready, and a user's document goes to a provider.
ParsedInv ==
    /\ post.at \in {"parsed", "admitted", "opened", "executed"} => Ready(post.upload)
    /\ post.at \in {"admitted", "opened", "executed"} /\ post.upload.source = "custom" => post.mode = "live"
    /\ post.code # "validation_failed"

IntakeInv ==
    IntakeShape /\ FormInv /\ CheckInv /\ SenderInv /\ ParsedInv /\ PageSubmitsChecked

\* A request that is refused is otherwise as it was.
LEMMA RefusedPost ==
    ASSUME IntakeShape, NEW code, Refuse(code)
    PROVE  /\ post'.at = "refused" /\ post'.code = code /\ post'.byPage = post.byPage
           /\ post'.bytes = post.bytes /\ post'.preflight = post.preflight
           /\ post' = [at |-> post'.at, byPage |-> post'.byPage, bytes |-> post'.bytes,
                       upload |-> post'.upload, preflight |-> post'.preflight,
                       mode |-> post'.mode, code |-> post'.code]
BY DEF Refuse, IntakeShape

\* A code the page could not rule out.
Unforeseen(code) ==
    /\ code \notin CheckedByPage
    /\ code = "request_too_large" =>
           MaxFile + TextBytes[sender.upload.labels] + Overhead > MaxBody

\* So it may be refused, by a code the page could not rule out if it is the page's.
LEMMA RefuseKeeps ==
    ASSUME IntakeInv, NEW code, Refuse(code), Serve, post.at # "none",
           code # "validation_failed",
           post.byPage => Unforeseen(code)
    PROVE  IntakeInv'
<1>1. /\ post'.at = "refused" /\ post'.code = code /\ post'.byPage = post.byPage
      /\ post'.bytes = post.bytes /\ post'.preflight = post.preflight
      /\ post' = [at |-> post'.at, byPage |-> post'.byPage, bytes |-> post'.bytes,
                  upload |-> post'.upload, preflight |-> post'.preflight,
                  mode |-> post'.mode, code |-> post'.code]
    BY RefusedPost DEF IntakeInv
<1>2. UNCHANGED <<form, checks, sender, available>>
    BY DEF Serve
<1>3. IntakeShape' /\ FormInv'
    BY <1>1, <1>2 DEF IntakeInv, IntakeShape, FormInv
<1>4. CheckInv'
    BY <1>1, <1>2 DEF IntakeInv, CheckInv
<1>5. SenderInv'
    BY <1>1, <1>2 DEF IntakeInv, SenderInv
<1>6. ParsedInv' /\ PageSubmitsChecked'
    BY <1>1, <1>2 DEF ParsedInv, PageSubmitsChecked, Unforeseen
<1> QED
    BY <1>3, <1>4, <1>5, <1>6 DEF IntakeInv

\* A request that goes on, with another point, mode or upload.
LEMMA ServeKeeps ==
    ASSUME IntakeInv, Serve, post.at # "none",
           post'.at \in {"reading", "parsed", "admitted", "opened", "executed"},
           post'.byPage = post.byPage, post'.preflight = post.preflight, post'.code = post.code,
           post'.bytes \in 0..MaxBody,
           post' = [at |-> post'.at, byPage |-> post'.byPage, bytes |-> post'.bytes,
                    upload |-> post'.upload, preflight |-> post'.preflight,
                    mode |-> post'.mode, code |-> post'.code],
           post'.at # "reading" => Ready(post'.upload),
           post'.at \in {"admitted", "opened", "executed"} /\ post'.upload.source = "custom" =>
               post'.mode = "live"
    PROVE  IntakeInv'
<1>1. UNCHANGED <<form, checks, sender, available>>
    BY DEF Serve
<1>2. IntakeShape' /\ FormInv'
    BY <1>1 DEF IntakeInv, IntakeShape, FormInv
<1>3. CheckInv'
    BY <1>1 DEF IntakeInv, CheckInv
<1>4. SenderInv'
    BY <1>1 DEF IntakeInv, SenderInv
<1>5. ParsedInv'
  <2>1. Ready(post.upload)' <=> Ready(post'.upload)
    BY DEF Ready
  <2> QED
    BY <2>1 DEF IntakeInv, ParsedInv
<1>6. PageSubmitsChecked'
    BY DEF PageSubmitsChecked
<1> QED
    BY <1>2, <1>3, <1>4, <1>5, <1>6 DEF IntakeInv

-----------------------------------------------------------------------------
(* Intake: the form                                                         *)

\* The state the form is changed in: no page runs and no request is there.
LEMMA WhenFree ==
    ASSUME IntakeInv, FormFree
    PROVE  ~ sender.running /\ post.at = "none" /\ \A c \in checks : c.by # "run"
BY DEF FormFree, IntakeInv, CheckInv

\* A change of the form and a check of its file, while nothing is submitted.
LEMMA FormKeeps ==
    ASSUME IntakeInv, FormFree, UNCHANGED <<available, post>>, IntakeShape', FormInv', CheckInv',
           sender'.running => /\ sender'.upload \in Upload /\ sender'.upload.source = "custom"
                              /\ sender'.upload.file \in UserFile
                              /\ Len(sender'.upload.labels) \in {2, 3}
    PROVE  IntakeInv'
<1>1. post.at = "none" /\ ~ post.byPage
    BY WhenFree DEF IntakeInv, SenderInv
<1>2. SenderInv'
    BY <1>1 DEF SenderInv
<1>3. ParsedInv' /\ PageSubmitsChecked'
    BY <1>1 DEF IntakeInv, ParsedInv, PageSubmitsChecked
<1> QED
    BY <1>2, <1>3 DEF IntakeInv

\* A file is selected.
LEMMA SelectKeeps ==
    ASSUME IntakeInv, NEW file \in UserFile \cup {NoFile}, Select(file)
    PROVE  IntakeInv'
<1>1. /\ FormFree /\ UNCHANGED <<sender, available, post>> /\ form.selection < MaxSelections
      /\ form' = [form EXCEPT !.file = file, !.valid = FALSE, !.selection = @ + 1,
                              !.checking = @ \/ file # NoFile]
      /\ checks' = IF file = NoFile THEN checks
                   ELSE checks \cup {[by |-> "select", file |-> file,
                                      selection |-> form.selection + 1]}
    BY DEF Select
<1>2. MaxSelections \in Nat /\ form.selection + 1 \in 0..MaxSelections
    BY <1>1, IntakeAssumption DEF IntakeInv, IntakeShape
<1>3. form' = [form EXCEPT !.file = file, !.valid = FALSE, !.selection = form.selection + 1,
                           !.checking = form.checking \/ file # NoFile]
    BY <1>1
<1>4. (form.checking \/ file # NoFile) \in BOOLEAN
    OBVIOUS
<1>5. form' \in [file : UserFile \cup {NoFile}, fields : FieldLists, consent : BOOLEAN,
                 valid : BOOLEAN, checking : BOOLEAN, selection : 0..MaxSelections]
      /\ form'.fields = form.fields
    BY <1>2, <1>3, <1>4 DEF IntakeInv, IntakeShape
<1>6. IntakeShape' /\ FormInv'
    BY <1>1, <1>2, <1>5 DEF IntakeInv, IntakeShape, FormInv
<1>7. \A c \in checks' : c.by # "run"
    BY <1>1, WhenFree
<1>8. CheckInv'
    BY <1>7 DEF CheckInv
<1> QED
    BY <1>1, <1>6, <1>8, FormKeeps, WhenFree

\* The fields are filled in.
LEMMA FillKeeps ==
    ASSUME IntakeInv, NEW typed \in FieldLists, NEW consent \in BOOLEAN, Fill(typed, consent)
    PROVE  IntakeInv'
<1>1. /\ FormFree /\ UNCHANGED <<checks, sender, available, post>> /\ Len(typed) \in {2, 3}
      /\ form' = [form EXCEPT !.fields = typed, !.consent = consent]
    BY DEF Fill
<1>2. IntakeShape' /\ FormInv'
    BY <1>1 DEF IntakeInv, IntakeShape, FormInv
<1>3. CheckInv'
    BY <1>1 DEF IntakeInv, CheckInv
<1> QED
    BY <1>1, <1>2, <1>3, FormKeeps, WhenFree

\* The form is emptied for a replacement.
LEMMA ReplaceFileKeeps == ASSUME IntakeInv, ReplaceFile PROVE IntakeInv'
<1>1. /\ FormFree /\ UNCHANGED <<checks, sender, available, post>> /\ form.selection < MaxSelections
      /\ form' = [form EXCEPT !.file = NoFile, !.valid = FALSE, !.checking = FALSE,
                              !.consent = FALSE, !.selection = form.selection + 1]
    BY DEF ReplaceFile
<1>2. form.selection + 1 \in 0..MaxSelections
    BY <1>1, IntakeAssumption DEF IntakeInv, IntakeShape
<1>3. IntakeShape' /\ FormInv'
    BY <1>1, <1>2 DEF IntakeInv, IntakeShape, FormInv
<1>4. CheckInv'
    BY <1>1 DEF IntakeInv, CheckInv
<1> QED
    BY <1>1, <1>3, <1>4, FormKeeps, WhenFree

\* A check is started.
LEMMA Started ==
    ASSUME IntakeInv, form.file # NoFile, NEW by \in {"validate", "run"}, StartsCheck(by)
    PROVE  /\ checks' = checks \cup {[by |-> by, file |-> form.file, selection |-> form.selection]}
           /\ checks' \subseteq [by : {"select", "validate", "run"}, file : UserFile,
                                 selection : 0..MaxSelections]
           /\ form' \in [file : UserFile \cup {NoFile}, fields : FieldLists, consent : BOOLEAN,
                         valid : BOOLEAN, checking : BOOLEAN, selection : 0..MaxSelections]
           /\ form'.fields = form.fields /\ form.file \in UserFile
<1>1. /\ form' = [form EXCEPT !.checking = TRUE]
      /\ checks' = checks \cup {[by |-> by, file |-> form.file, selection |-> form.selection]}
    BY DEF StartsCheck
<1>2. form.file \in UserFile /\ form.selection \in 0..MaxSelections
    BY DEF IntakeInv, IntakeShape
<1>3. [by |-> by, file |-> form.file, selection |-> form.selection]
          \in [by : {"select", "validate", "run"}, file : UserFile, selection : 0..MaxSelections]
    BY <1>2
<1>4. form' \in [file : UserFile \cup {NoFile}, fields : FieldLists, consent : BOOLEAN,
                 valid : BOOLEAN, checking : BOOLEAN, selection : 0..MaxSelections]
      /\ form'.fields = form.fields
    BY <1>1 DEF IntakeInv, IntakeShape
<1>5. checks' \subseteq [by : {"select", "validate", "run"}, file : UserFile,
                         selection : 0..MaxSelections]
    BY <1>1, <1>3 DEF IntakeInv, IntakeShape
<1> QED
    BY <1>1, <1>2, <1>4, <1>5

\* By the button that validates.
LEMMA ValidateFileKeeps == ASSUME IntakeInv, ValidateFile PROVE IntakeInv'
<1>1. FormFree /\ UNCHANGED <<sender, available, post>> /\ form.file # NoFile /\ StartsCheck("validate")
    BY DEF ValidateFile
<1>2. /\ checks' = checks \cup {[by |-> "validate", file |-> form.file, selection |-> form.selection]}
      /\ checks' \subseteq [by : {"select", "validate", "run"}, file : UserFile,
                            selection : 0..MaxSelections]
      /\ form' \in [file : UserFile \cup {NoFile}, fields : FieldLists, consent : BOOLEAN,
                    valid : BOOLEAN, checking : BOOLEAN, selection : 0..MaxSelections]
      /\ form'.fields = form.fields
    BY <1>1, Started
<1>3. IntakeShape' /\ FormInv'
    BY <1>1, <1>2 DEF IntakeInv, IntakeShape, FormInv
<1>4. \A c \in checks' : c.by # "run"
    BY <1>1, <1>2, WhenFree
<1>5. CheckInv'
    BY <1>4 DEF CheckInv
<1> QED
    BY <1>1, <1>3, <1>5, FormKeeps, WhenFree

\* By the run: there is no other.
LEMMA RunFileKeeps == ASSUME IntakeInv, Run PROVE IntakeInv'
<1> DEFINE u == [source |-> "custom", mode |-> "live", file |-> form.file,
                 labels |-> form.fields, consent |-> form.consent]
           check == [by |-> "run", file |-> form.file, selection |-> form.selection]
<1>1. /\ FormFree /\ UNCHANGED <<available, post>> /\ form.file # NoFile /\ StartsCheck("run")
      /\ sender' = [sender EXCEPT !.running = TRUE, !.upload = u]
    BY DEF Run
<1>2. /\ checks' = checks \cup {check}
      /\ checks' \subseteq [by : {"select", "validate", "run"}, file : UserFile,
                            selection : 0..MaxSelections]
      /\ form' \in [file : UserFile \cup {NoFile}, fields : FieldLists, consent : BOOLEAN,
                    valid : BOOLEAN, checking : BOOLEAN, selection : 0..MaxSelections]
      /\ form'.fields = form.fields /\ form.file \in UserFile
    BY <1>1, Started
<1>3. /\ u \in Upload /\ u.source = "custom" /\ u.file = form.file /\ u.labels = form.fields
      /\ check.by = "run" /\ check.file = form.file
    BY <1>2 DEF IntakeInv, IntakeShape, Upload
<1> HIDE DEF u, check
<1>4. /\ sender' = [running |-> sender'.running, knows |-> sender'.knows, upload |-> sender'.upload]
      /\ sender'.running = TRUE /\ sender'.knows = sender.knows /\ sender'.upload = u
    BY <1>1 DEF IntakeInv, IntakeShape
<1>5. IntakeShape' /\ FormInv'
    BY <1>1, <1>2, <1>4 DEF IntakeInv, IntakeShape, FormInv
<1>6. CheckInv'
  <2>1. \A c \in checks' : c.by = "run" => c = check
    BY <1>1, <1>2, WhenFree
  <2> QED
    BY <1>1, <1>3, <1>4, <2>1, WhenFree DEF CheckInv
<1>7. Len(u.labels) \in {2, 3}
    BY <1>3 DEF IntakeInv, FormInv
<1> QED
    BY <1>1, <1>2, <1>3, <1>4, <1>5, <1>6, <1>7, FormKeeps

\* A check ends: that of a run submits what it checked, or the page stops.
LEMMA CheckEndsKeeps ==
    ASSUME IntakeInv, NEW check \in checks, CheckEnds(check)
    PROVE  IntakeInv'
<1>1. checks' = checks \ {check} /\ UNCHANGED available
    BY DEF CheckEnds
<1>2. form' = form \/ form' = [form EXCEPT !.checking = FALSE, !.valid = Passes(check.file)]
    BY DEF CheckEnds
<1>3. Passes(check.file) \in BOOLEAN
    BY DEF Passes
<1>4. /\ form' \in [file : UserFile \cup {NoFile}, fields : FieldLists, consent : BOOLEAN,
                    valid : BOOLEAN, checking : BOOLEAN, selection : 0..MaxSelections]
      /\ form'.fields = form.fields
    BY <1>2, <1>3 DEF IntakeInv, IntakeShape
<1>5. \/ UNCHANGED <<sender, post>> /\ ~ (check.by = "run" /\ sender.running)
      \/ /\ check.by = "run" /\ sender.running /\ UNCHANGED sender
         /\ Passes(check.file) /\ FilledIn(sender.upload)
         /\ post' = [NoPost EXCEPT !.at = "sent", !.byPage = TRUE, !.preflight = "given"]
      \/ /\ check.by = "run" /\ sender.running /\ UNCHANGED post
         /\ sender' = [sender EXCEPT !.running = FALSE]
    BY DEF CheckEnds, Confirms
<1>6. check.by = "run" =>
          /\ sender.running /\ post.at = "none" /\ check.file = sender.upload.file
          /\ \A c \in checks' : c.by # "run"
    BY <1>1 DEF IntakeInv, CheckInv
<1>7. FormInv'
    BY <1>4 DEF IntakeInv, FormInv
<1>8. checks' \subseteq [by : {"select", "validate", "run"}, file : UserFile,
                         selection : 0..MaxSelections]
    BY <1>1 DEF IntakeInv, IntakeShape
<1>9. CASE UNCHANGED <<sender, post>>
  <2>1. IntakeShape'
    BY <1>1, <1>4, <1>8, <1>9 DEF IntakeInv, IntakeShape
  <2>2. CheckInv'
    BY <1>1, <1>9 DEF IntakeInv, CheckInv
  <2>3. SenderInv' /\ ParsedInv' /\ PageSubmitsChecked'
    BY <1>9 DEF IntakeInv, SenderInv, ParsedInv, PageSubmitsChecked
  <2> QED
    BY <1>7, <2>1, <2>2, <2>3 DEF IntakeInv
<1>10. CASE /\ check.by = "run" /\ sender.running /\ UNCHANGED sender
            /\ Passes(check.file) /\ FilledIn(sender.upload)
            /\ post' = [NoPost EXCEPT !.at = "sent", !.byPage = TRUE, !.preflight = "given"]
  <2>1. /\ post' = [at |-> post'.at, byPage |-> post'.byPage, bytes |-> post'.bytes,
                    upload |-> post'.upload, preflight |-> post'.preflight,
                    mode |-> post'.mode, code |-> post'.code]
        /\ post'.at = "sent" /\ post'.byPage = TRUE /\ post'.bytes = 0
        /\ post'.preflight = "given" /\ post'.code = "none"
    BY <1>10 DEF NoPost
  <2>2. MaxBody \in Nat /\ Overhead \in Nat
    BY IntakeAssumption
  <2>3. IntakeShape'
    <3>1. /\ post'.at \in {"none", "sent", "reading", "parsed", "admitted", "opened", "refused",
            "executed"}
          /\ post'.byPage \in BOOLEAN /\ post'.bytes \in 0..MaxBody
      <4>1. 0 \in 0..MaxBody
        BY <2>2
      <4>2. post'.bytes \in 0..MaxBody
        BY <2>1, <4>1
      <4>3. post'.at \in {"none", "sent", "reading", "parsed", "admitted", "opened", "refused",
            "executed"}
            /\ post'.byPage \in BOOLEAN
        BY <2>1
      <4> QED
        BY <4>2, <4>3
    <3> QED
      BY <1>1, <1>4, <1>8, <1>10, <2>1, <3>1 DEF IntakeInv, IntakeShape
  <2>4. CheckInv'
    BY <1>6, <1>10 DEF CheckInv
  <2>5. sender.upload.file.size \in Nat
    BY <1>10, IntakeAssumption DEF IntakeInv, SenderInv
  <2>6. SenderInv'
    BY <1>6, <1>10, <2>1, <2>2, <2>5 DEF IntakeInv, SenderInv
  <2>7. ParsedInv' /\ PageSubmitsChecked'
    BY <2>1 DEF ParsedInv, PageSubmitsChecked
  <2> QED
    BY <1>7, <2>3, <2>4, <2>6, <2>7 DEF IntakeInv
<1>11. CASE /\ check.by = "run" /\ sender.running /\ UNCHANGED post
            /\ sender' = [sender EXCEPT !.running = FALSE]
  <2>1. /\ sender' = [running |-> sender'.running, knows |-> sender'.knows, upload |-> sender'.upload]
        /\ sender'.running = FALSE /\ sender'.knows = sender.knows
    BY <1>11 DEF IntakeInv, IntakeShape
  <2>2. IntakeShape'
    BY <1>1, <1>4, <1>8, <1>11, <2>1 DEF IntakeInv, IntakeShape
  <2>3. CheckInv'
    BY <1>6, <1>11 DEF CheckInv
  <2>4. SenderInv' /\ ParsedInv' /\ PageSubmitsChecked'
    BY <1>6, <1>11, <2>1 DEF IntakeInv, SenderInv, ParsedInv, PageSubmitsChecked
  <2> QED
    BY <1>7, <2>2, <2>3, <2>4 DEF IntakeInv
<1> QED
    BY <1>5, <1>9, <1>10, <1>11

\* The run is cancelled while its file is checked.
LEMMA CancelRunKeeps == ASSUME IntakeInv, CancelRun PROVE IntakeInv'
<1>1. /\ sender.running /\ post.at = "none" /\ UNCHANGED <<form, available, post>>
      /\ sender' = [sender EXCEPT !.running = FALSE]
      /\ checks' = {[c EXCEPT !.by = IF c.by = "run" THEN "validate" ELSE c.by] : c \in checks}
    BY DEF CancelRun
<1>2. \A c \in checks :
          LET d == [c EXCEPT !.by = IF c.by = "run" THEN "validate" ELSE c.by]
          IN  /\ d \in [by : {"select", "validate", "run"}, file : UserFile,
                        selection : 0..MaxSelections]
              /\ d.by # "run"
    BY DEF IntakeInv, IntakeShape
<1>3. /\ checks' \subseteq [by : {"select", "validate", "run"}, file : UserFile,
                            selection : 0..MaxSelections]
      /\ \A c \in checks' : c.by # "run"
    BY <1>1, <1>2
<1>4. /\ sender' = [running |-> sender'.running, knows |-> sender'.knows, upload |-> sender'.upload]
      /\ sender'.running = FALSE /\ sender'.knows = sender.knows
    BY <1>1 DEF IntakeInv, IntakeShape
<1>5. IntakeShape' /\ FormInv' /\ CheckInv'
    BY <1>1, <1>3, <1>4 DEF IntakeInv, IntakeShape, FormInv, CheckInv
<1>6. SenderInv' /\ ParsedInv' /\ PageSubmitsChecked'
    BY <1>1, <1>4 DEF IntakeInv, SenderInv, ParsedInv, PageSubmitsChecked
<1> QED
    BY <1>5, <1>6 DEF IntakeInv

\* What the page knows of the providers, or what is true of them, changes.
LEMMA ProvidersKeep == ASSUME IntakeInv, Hydrate \/ Deploy PROVE IntakeInv'
<1>1. CASE Hydrate
  <2>1. /\ FormFree /\ UNCHANGED <<form, checks, available, post>>
        /\ sender' = [sender EXCEPT !.knows = available]
    BY <1>1 DEF Hydrate
  <2>2. /\ sender' = [running |-> sender'.running, knows |-> sender'.knows, upload |-> sender'.upload]
        /\ sender'.running = sender.running /\ sender'.knows = available
    BY <2>1 DEF IntakeInv, IntakeShape
  <2>3. IntakeShape' /\ FormInv'
    BY <2>1, <2>2 DEF IntakeInv, IntakeShape, FormInv
  <2>4. CheckInv'
    BY <2>1, WhenFree DEF CheckInv
  <2> QED
    BY <2>1, <2>2, <2>3, <2>4, FormKeeps, WhenFree
<1>2. CASE Deploy
  <2>1. UNCHANGED <<form, checks, sender, post>> /\ available' \in BOOLEAN
    BY <1>2 DEF Deploy
  <2>2. IntakeShape' /\ FormInv'
    <3>1. IntakeShape'
      BY <2>1, Zenon DEF IntakeInv, IntakeShape
    <3> QED
      BY <2>1, <3>1 DEF IntakeInv, FormInv
  <2>3. CheckInv'
    BY <2>1 DEF IntakeInv, CheckInv
  <2>4. SenderInv' /\ ParsedInv' /\ PageSubmitsChecked'
    BY <2>1 DEF IntakeInv, SenderInv, ParsedInv, PageSubmitsChecked
  <2> QED
    BY <2>2, <2>3, <2>4 DEF IntakeInv
<1> QED
    BY <1>1, <1>2

-----------------------------------------------------------------------------
(* Intake: the request                                                      *)

\* Another client sends one.
LEMMA SendOtherKeeps ==
    ASSUME IntakeInv, NEW preflight, SendOther(preflight) PROVE IntakeInv'
<1>1. /\ FormFree /\ UNCHANGED <<form, checks, sender, available>>
      /\ post' = [NoPost EXCEPT !.at = "sent", !.preflight = preflight]
    BY DEF SendOther, Serve
<1>2. /\ post' = [at |-> post'.at, byPage |-> post'.byPage, bytes |-> post'.bytes,
                  upload |-> post'.upload, preflight |-> post'.preflight,
                  mode |-> post'.mode, code |-> post'.code]
      /\ post'.at = "sent" /\ post'.byPage = FALSE /\ post'.bytes = 0 /\ post'.code = "none"
    BY <1>1 DEF NoPost
<1>3. ~ sender.running /\ \A c \in checks : c.by # "run"
    BY <1>1, WhenFree
<1>4. MaxBody \in Nat
    BY IntakeAssumption
<1>5. IntakeShape' /\ FormInv' /\ CheckInv'
  <2>1. /\ post'.at \in {"none", "sent", "reading", "parsed", "admitted", "opened", "refused",
            "executed"}
        /\ post'.byPage \in BOOLEAN /\ post'.bytes \in 0..MaxBody
    <3>1. 0 \in 0..MaxBody
      BY <1>4
    <3>2. post'.bytes \in 0..MaxBody
      BY <1>2, <3>1
    <3>3. post'.at \in {"none", "sent", "reading", "parsed", "admitted", "opened", "refused",
            "executed"}
          /\ post'.byPage \in BOOLEAN
      BY <1>2
    <3> QED
      BY <3>2, <3>3
  <2>2. IntakeShape' /\ FormInv'
    BY <1>1, <1>2, <2>1 DEF IntakeInv, IntakeShape, FormInv
  <2>3. CheckInv'
    BY <1>1, <1>3 DEF CheckInv
  <2> QED
    BY <2>2, <2>3
<1>6. SenderInv' /\ ParsedInv' /\ PageSubmitsChecked'
    BY <1>1, <1>2, <1>3 DEF SenderInv, ParsedInv, PageSubmitsChecked
<1> QED
    BY <1>5, <1>6 DEF IntakeInv

\* A document that its page has checked is within the limit.
LEMMA PageSize ==
    ASSUME IntakeInv, post.byPage
    PROVE  /\ BodySize(sender.upload) <= MaxFile + TextBytes[sender.upload.labels] + Overhead
           /\ BodySize(sender.upload) \in Nat /\ MaxBody \in Nat /\ MaxFile \in Nat
           /\ Overhead \in Nat /\ TextBytes[sender.upload.labels] \in Nat
<1>1. /\ sender.upload.file \in UserFile /\ FileErrors(sender.upload.file) = {}
      /\ sender.upload.labels \in FieldLists
    BY DEF IntakeInv, SenderInv, Passes, Upload
<1>2. sender.upload.file.size \in 1..MaxFile /\ sender.upload.file # NoFile
    BY <1>1, PassedFile, IntakeAssumption
<1>3. /\ TextBytes[sender.upload.labels] \in Nat
      /\ MaxFile \in Nat /\ MaxBody \in Nat /\ Overhead \in Nat
    BY <1>1, IntakeAssumption
<1>4. BodySize(sender.upload)
          = sender.upload.file.size + TextBytes[sender.upload.labels] + Overhead
    BY <1>2 DEF BodySize
<1> DEFINE size == sender.upload.file.size
           text == TextBytes[sender.upload.labels]
<1>5. size \in 1..MaxFile /\ text \in Nat
    BY <1>2, <1>3
<1> HIDE DEF size, text
<1>6. size + text + Overhead <= MaxFile + text + Overhead /\ size + text + Overhead \in Nat
    BY <1>3, <1>5
<1> QED
    BY <1>3, <1>4, <1>6 DEF size, text

\* What the page sends is too large only for its labels.
LEMMA PageTooLarge ==
    ASSUME IntakeInv, post.byPage => BodySize(sender.upload) > MaxBody
    PROVE  post.byPage => Unforeseen("request_too_large")
<1> SUFFICES ASSUME post.byPage
             PROVE  MaxFile + TextBytes[sender.upload.labels] + Overhead > MaxBody
    BY DEF Unforeseen, CheckedByPage
<1> DEFINE text == TextBytes[sender.upload.labels]
           body == BodySize(sender.upload)
<1>1. /\ body <= MaxFile + text + Overhead /\ body > MaxBody
      /\ body \in Nat /\ MaxBody \in Nat /\ MaxFile \in Nat /\ Overhead \in Nat /\ text \in Nat
    BY PageSize
<1> HIDE DEF text, body
<1>2. MaxFile + text + Overhead > MaxBody
    BY <1>1
<1> QED
    BY <1>2 DEF text

\* The limiter fails.
LEMMA LimiterFailsKeeps == ASSUME IntakeInv, LimiterFails PROVE IntakeInv'
BY RefuseKeeps DEF LimiterFails, Unforeseen, CheckedByPage

\* It arrives.
LEMMA ArriveKeeps ==
    ASSUME IntakeInv, NEW allowed \in BOOLEAN, NEW key \in BOOLEAN,
           NEW multipart \in BOOLEAN, NEW over \in BOOLEAN,
           Arrive(allowed, key, multipart, over)
    PROVE  IntakeInv'
<1>1. /\ post.at = "sent" /\ Serve
      /\ post.byPage => /\ key /\ multipart /\ post.preflight = "given"
                        /\ over => BodySize(sender.upload) > MaxBody
    BY DEF Arrive, IntakeInv, SenderInv
<1>2. \/ Refuse("run_request_rate_limited")
      \/ /\ ~ post.byPage
         /\ \E code \in {"invalid_idempotency_key", "invalid_run_preflight",
                         "invalid_content_type"} : Refuse(code)
      \/ Refuse("request_too_large") /\ over
      \/ post' = [post EXCEPT !.at = "reading"]
    BY <1>1 DEF Arrive
<1>5. CASE Refuse("run_request_rate_limited")
  <2>1. Unforeseen("run_request_rate_limited")
    BY DEF Unforeseen, CheckedByPage
  <2> QED
    BY <1>1, <1>5, <2>1, RefuseKeeps
<1>6. CASE Refuse("request_too_large") /\ over
  <2>1. post.byPage => Unforeseen("request_too_large")
    BY <1>1, <1>6, PageTooLarge
  <2> QED
    BY <1>1, <1>6, <2>1, RefuseKeeps
<1>3. CASE /\ ~ post.byPage
           /\ \E code \in {"invalid_idempotency_key", "invalid_run_preflight",
                           "invalid_content_type"} : Refuse(code)
    BY <1>1, <1>3, RefuseKeeps
<1>4. CASE post' = [post EXCEPT !.at = "reading"]
  <2>1. /\ post' = [at |-> post'.at, byPage |-> post'.byPage, bytes |-> post'.bytes,
                    upload |-> post'.upload, preflight |-> post'.preflight,
                    mode |-> post'.mode, code |-> post'.code]
        /\ post'.at = "reading" /\ post'.byPage = post.byPage /\ post'.bytes = post.bytes
        /\ post'.code = post.code /\ post'.preflight = post.preflight
    BY <1>4 DEF IntakeInv, IntakeShape
  <2>2. post.bytes \in 0..MaxBody
    BY DEF IntakeInv, IntakeShape
  <2>3. /\ post'.at \in {"reading", "parsed", "admitted", "opened", "executed"}
        /\ post.at # "none" /\ post'.bytes \in 0..MaxBody
        /\ post'.at # "reading" => Ready(post'.upload)
        /\ post'.at \in {"admitted", "opened", "executed"} /\ post'.upload.source = "custom" =>
               post'.mode = "live"
    <3>1. post'.at \in {"reading", "parsed", "admitted", "opened", "executed"} /\ post.at # "none"
      BY <1>1, <2>1
    <3>2. post'.bytes \in 0..MaxBody
      BY <2>1, <2>2
    <3>4. /\ post'.at # "reading" => Ready(post'.upload)
          /\ post'.at \in {"admitted", "opened", "executed"} /\ post'.upload.source = "custom" =>
                 post'.mode = "live"
      BY <2>1
    <3> QED
      BY <3>1, <3>2, <3>4
  <2> QED
    BY <1>1, <2>1, <2>3, ServeKeeps
<1> QED
    BY <1>2, <1>3, <1>4, <1>5, <1>6

\* A chunk of its body is read.
LEMMA ReadChunkKeeps ==
    ASSUME IntakeInv, NEW n \in Nat, ReadChunk(n)
    PROVE  IntakeInv'
<1>1. /\ post.at = "reading" /\ Serve
      /\ post.byPage => post.bytes + n <= BodySize(sender.upload)
      /\ \/ post.bytes + n > MaxBody /\ Refuse("request_too_large")
         \/ ~ (post.bytes + n > MaxBody) /\ post' = [post EXCEPT !.bytes = post.bytes + n]
    BY DEF ReadChunk, Sends, TooLarge
<1>3. MaxBody \in Nat /\ post.bytes \in Nat
    BY IntakeAssumption DEF IntakeInv, IntakeShape
<1>4. CASE post.bytes + n > MaxBody /\ Refuse("request_too_large")
  <2> DEFINE body == BodySize(sender.upload)
             bytes == post.bytes
  <2>1. post.byPage => body \in Nat /\ bytes + n <= body
    BY <1>1, PageSize
  <2>2. bytes \in Nat /\ bytes + n > MaxBody
    BY <1>3, <1>4
  <2> HIDE DEF body, bytes
  <2>3. post.byPage => body > MaxBody
    BY <1>3, <2>1, <2>2
  <2>4. post.byPage => Unforeseen("request_too_large")
    BY <2>3, PageTooLarge DEF body
  <2> QED
    BY <1>1, <1>4, <2>4, RefuseKeeps
<1>5. CASE ~ (post.bytes + n > MaxBody) /\ post' = [post EXCEPT !.bytes = post.bytes + n]
  <2>1. /\ post' = [at |-> post'.at, byPage |-> post'.byPage, bytes |-> post'.bytes,
                    upload |-> post'.upload, preflight |-> post'.preflight,
                    mode |-> post'.mode, code |-> post'.code]
        /\ post'.at = "reading" /\ post'.byPage = post.byPage /\ post'.bytes = post.bytes + n
        /\ post'.code = post.code /\ post'.preflight = post.preflight
    BY <1>1, <1>5 DEF IntakeInv, IntakeShape
  <2>2. post'.bytes \in 0..MaxBody
    <3>1. post.bytes + n \in 0..MaxBody
      BY <1>3, <1>5
    <3> QED
      BY <2>1, <3>1
  <2>4. /\ post'.at # "reading" => Ready(post'.upload)
        /\ post'.at \in {"admitted", "opened", "executed"} /\ post'.upload.source = "custom" =>
               post'.mode = "live"
        /\ post'.at \in {"reading", "parsed", "admitted", "opened", "executed"} /\ post.at # "none"
    BY <1>1, <2>1
  <2> QED
    BY <1>1, <2>1, <2>2, <2>4, ServeKeeps
<1> QED
    BY <1>1, <1>4, <1>5

\* The connection breaks.
LEMMA ReadFailsKeeps == ASSUME IntakeInv, ReadFails PROVE IntakeInv'
BY RefuseKeeps DEF ReadFails, Unforeseen, CheckedByPage

\* What is refused to a form that its page has checked.
LEMMA PageCodes ==
    ASSUME NEW u, u.source = "custom", u.file \in UserFile,
           u.labels \in FieldLists, Len(u.labels) \in {2, 3},
           Passes(u.file), FilledIn(u), ParsedCustom(u) # "none"
    PROVE  ParsedCustom(u) \in {"duplicate_field_key", "blank_field", "duplicate_field"}
<1>1. FileErrors(u.file) = {} /\ u.file.size <= MaxFile /\ u.file # NoFile
      /\ ~ (u.file.format = "pdf" /\ u.file.pages = Unreadable) /\ u.consent
  <2>1. FileErrors(u.file) = {} /\ ~ (u.file.format = "pdf" /\ u.file.pages = Unreadable)
    BY DEF Passes
  <2>2. u.file.size \in 1..MaxFile
    BY <2>1, PassedFile
  <2>3. MaxFile \in Nat /\ NoFile \notin UserFile
    BY IntakeAssumption
  <2>4. u.consent
    BY DEF FilledIn
  <2> QED
    BY <2>1, <2>2, <2>3, <2>4
<1>2. ~ (u.file.size > MaxFile)
  <2>1. u.file.size \in Nat /\ MaxFile \in Nat
    BY IntakeAssumption
  <2> QED
    BY <1>1, <2>1
<1>3. Errors(u) \subseteq {"blank_field", "duplicate_field"}
  <2>1. Errors(u) = LabelErrors(u.labels)
    BY <1>1 DEF Errors
  <2>2. LabelErrors(u.labels) \subseteq {"blank_field", "duplicate_field"}
    BY DEF LabelErrors
  <2> QED
    BY <2>1, <2>2
<1>4. Errors(u) # {} => First(Errors(u)) \in {"blank_field", "duplicate_field"}
    BY <1>3, FirstIsError
<1> QED
    BY <1>1, <1>2, <1>4 DEF ParsedCustom

\* A request whose upload was parsed goes on with it.
LEMMA ParsedKeeps ==
    ASSUME IntakeInv, Serve, post.at = "reading", NEW u, NEW mode, Ready(u),
           post' = [post EXCEPT !.at = "parsed", !.upload = u, !.mode = mode]
    PROVE  IntakeInv'
<1>1. /\ post' = [at |-> post'.at, byPage |-> post'.byPage, bytes |-> post'.bytes,
                  upload |-> post'.upload, preflight |-> post'.preflight,
                  mode |-> post'.mode, code |-> post'.code]
      /\ post'.at = "parsed" /\ post'.byPage = post.byPage /\ post'.bytes = post.bytes
      /\ post'.code = post.code /\ post'.preflight = post.preflight /\ post'.upload = u
    BY DEF IntakeInv, IntakeShape
<1>2. post.bytes \in 0..MaxBody
    BY DEF IntakeInv, IntakeShape
<1>3. post'.bytes \in 0..MaxBody
    BY <1>1, <1>2
<1>5. /\ post'.at # "reading" => Ready(post'.upload)
      /\ post'.at \in {"admitted", "opened", "executed"} /\ post'.upload.source = "custom" =>
             post'.mode = "live"
      /\ post'.at \in {"reading", "parsed", "admitted", "opened", "executed"} /\ post.at # "none"
    BY <1>1
<1> QED
    BY <1>1, <1>3, <1>5, ServeKeeps

\* The body ends.
LEMMA BodyEndsKeeps ==
    ASSUME IntakeInv, NEW u \in Upload, NEW known \in BOOLEAN,
           BodyEnds(u, known)
    PROVE  IntakeInv'
<1>1. /\ post.at = "reading" /\ Serve
      /\ post.byPage => u = sender.upload /\ known
    BY DEF BodyEnds
<1>2. CASE ~ known
  <2>1. Refuse("invalid_choice") /\ ~ post.byPage
    BY <1>1, <1>2 DEF BodyEnds
  <2> QED
    BY <1>1, <2>1, RefuseKeeps
<1>3. CASE known /\ u.source = "synthetic"
  <2>1. \/ Refuse("run_request_failed")
        \/ post' = [post EXCEPT !.at = "parsed", !.upload = SampleUpload(u), !.mode = ModeOf(u)]
    BY <1>3 DEF BodyEnds
  <2>2. Unforeseen("run_request_failed")
    BY DEF Unforeseen, CheckedByPage
  <2> QED
    BY <1>1, <1>3, <2>1, <2>2, SampleIsReady, ParsedKeeps, RefuseKeeps
<1>4. CASE known /\ u.source = "custom" /\ ParsedCustom(u) = "none"
  <2>1. post' = [post EXCEPT !.at = "parsed", !.upload = u, !.mode = ModeOf(u)]
    BY <1>4 DEF BodyEnds
  <2> QED
    BY <1>1, <1>4, <2>1, ParsedIsReady, ParsedKeeps
<1>5. CASE known /\ u.source = "custom" /\ ParsedCustom(u) # "none"
  <2>1. Refuse(ParsedCustom(u))
    BY <1>5 DEF BodyEnds
  <2>2. ParsedCustom(u) # "validation_failed"
    BY ErrorNames, FirstIsError DEF ParsedCustom
  <2>3. post.byPage => ParsedCustom(u) \in {"duplicate_field_key", "blank_field", "duplicate_field"}
    <3> SUFFICES ASSUME post.byPage
                 PROVE  ParsedCustom(u) \in {"duplicate_field_key", "blank_field", "duplicate_field"}
      OBVIOUS
    <3>1. /\ u = sender.upload /\ sender.running
          /\ Passes(u.file) /\ FilledIn(u)
          /\ u.file \in UserFile /\ Len(u.labels) \in {2, 3}
      BY <1>1 DEF IntakeInv, SenderInv
    <3>2. u.labels \in FieldLists
      BY DEF Upload
    <3> QED
      BY <1>5, <3>1, <3>2, PageCodes
  <2>4. post.byPage => Unforeseen(ParsedCustom(u))
    BY <2>3 DEF Unforeseen, CheckedByPage
  <2> QED
    BY <1>1, <2>1, <2>2, <2>4, RefuseKeeps
<1> QED
    BY <1>2, <1>3, <1>4, <1>5 DEF Upload

\* It is admitted: what is a user's own only to a provider.
LEMMA AdmitKeeps ==
    ASSUME IntakeInv, NEW agrees \in BOOLEAN, Admit(agrees)
    PROVE  IntakeInv'
<1>1. post.at = "parsed" /\ Serve /\ (post.byPage => agrees)
    BY DEF Admit
<1>2. CASE ~ agrees
  <2>1. Refuse("run_preflight_mismatch")
    BY <1>2 DEF Admit
  <2> QED
    BY <1>1, <1>2, <2>1, RefuseKeeps
<1>3. CASE agrees /\ post.upload.source = "custom" /\ ~ available
  <2>1. Refuse("live_disabled") /\ Unforeseen("live_disabled")
    BY <1>3 DEF Admit, Unforeseen, CheckedByPage
  <2> QED
    BY <1>1, <2>1, RefuseKeeps
<1>4. CASE agrees /\ ~ (post.upload.source = "custom" /\ ~ available)
  <2>1. post' = [post EXCEPT !.at = "admitted", !.mode = IF available THEN "live" ELSE "recorded"]
    BY <1>4 DEF Admit
  <2>2. /\ post' = [at |-> post'.at, byPage |-> post'.byPage, bytes |-> post'.bytes,
                    upload |-> post'.upload, preflight |-> post'.preflight,
                    mode |-> post'.mode, code |-> post'.code]
        /\ post'.at = "admitted" /\ post'.byPage = post.byPage /\ post'.bytes = post.bytes
        /\ post'.code = post.code /\ post'.preflight = post.preflight
        /\ post'.upload = post.upload /\ post'.mode = IF available THEN "live" ELSE "recorded"
    BY <2>1 DEF IntakeInv, IntakeShape
  <2>3. post.bytes \in 0..MaxBody
    BY DEF IntakeInv, IntakeShape
  <2>4. Ready(post.upload)
    BY <1>1 DEF IntakeInv, ParsedInv
  <2>5. post'.bytes \in 0..MaxBody
    BY <2>2, <2>3
  <2>7. post'.at # "reading" => Ready(post'.upload)
    BY <2>2, <2>4
  <2>8. /\ post'.at \in {"admitted", "opened", "executed"} /\ post'.upload.source = "custom" =>
               post'.mode = "live"
        /\ post'.at \in {"reading", "parsed", "admitted", "opened", "executed"} /\ post.at # "none"
    BY <1>1, <1>4, <2>2
  <2> QED
    BY <1>1, <2>2, <2>5, <2>7, <2>8, ServeKeeps
<1> QED
    BY <1>2, <1>3, <1>4

\* The claim, the provider or the quota refuse it, or it goes on.
LEMMA OpenKeeps == ASSUME IntakeInv, Open PROVE IntakeInv'
<1>9. /\ post.at = "admitted" /\ Serve
      /\ \/ \E code \in {"duplicate_submission", "run_request_failed"} \cup QuotaCodes : Refuse(code)
         \/ post' = [post EXCEPT !.at = "opened"]
    BY DEF Open
<1>10. CASE \E code \in {"duplicate_submission", "run_request_failed"} \cup QuotaCodes : Refuse(code)
  <2>1. PICK code \in {"duplicate_submission", "run_request_failed"} \cup QuotaCodes : Refuse(code)
    BY <1>10
  <2>2. code \in {"duplicate_submission", "run_request_failed", "live_run_limit", "daily_budget",
                  "recorded_run_limit", "global_recorded_run_limit", "custom_upload_limit",
                  "global_custom_upload_limit"}
    BY DEF QuotaCodes
  <2>3. Unforeseen(code) /\ code # "validation_failed"
    BY <2>2 DEF Unforeseen, CheckedByPage
  <2> QED
    BY <1>9, <2>1, <2>3, RefuseKeeps
<1> SUFFICES ASSUME post' = [post EXCEPT !.at = "opened"]
             PROVE  IntakeInv'
    BY <1>9, <1>10
<1>1. post.at = "admitted" /\ Serve /\ post' = [post EXCEPT !.at = "opened"]
    BY <1>9
<1>2. /\ post' = [at |-> post'.at, byPage |-> post'.byPage, bytes |-> post'.bytes,
                  upload |-> post'.upload, preflight |-> post'.preflight,
                  mode |-> post'.mode, code |-> post'.code]
      /\ post'.at = "opened" /\ post'.byPage = post.byPage /\ post'.bytes = post.bytes
      /\ post'.code = post.code /\ post'.preflight = post.preflight
      /\ post'.upload = post.upload /\ post'.mode = post.mode
    BY <1>1 DEF IntakeInv, IntakeShape
<1>3. post.bytes \in 0..MaxBody
    BY DEF IntakeInv, IntakeShape
<1>4. Ready(post.upload) /\ (post.upload.source = "custom" => post.mode = "live")
    BY <1>1 DEF IntakeInv, ParsedInv
<1>5. post'.bytes \in 0..MaxBody
    BY <1>2, <1>3
<1>7. post'.at # "reading" => Ready(post'.upload)
    BY <1>2, <1>4
<1>8. /\ post'.at \in {"admitted", "opened", "executed"} /\ post'.upload.source = "custom" =>
             post'.mode = "live"
      /\ post'.at \in {"reading", "parsed", "admitted", "opened", "executed"} /\ post.at # "none"
    BY <1>1, <1>2, <1>4
<1> QED
    BY <1>1, <1>2, <1>5, <1>7, <1>8, ServeKeeps

\* It is executed: what was parsed passes the second validation.
LEMMA ExecuteKeeps == ASSUME IntakeInv, Execute PROVE IntakeInv'
<1>1. post.at = "opened" /\ Serve /\ Errors(post.upload) = {}
      /\ post' = [post EXCEPT !.at = "executed"]
    BY DEF Execute, IntakeInv, ParsedInv, Ready
<1>2. /\ post' = [at |-> post'.at, byPage |-> post'.byPage, bytes |-> post'.bytes,
                  upload |-> post'.upload, preflight |-> post'.preflight,
                  mode |-> post'.mode, code |-> post'.code]
      /\ post'.at = "executed" /\ post'.byPage = post.byPage /\ post'.bytes = post.bytes
      /\ post'.code = post.code /\ post'.preflight = post.preflight
      /\ post'.upload = post.upload /\ post'.mode = post.mode
    BY <1>1 DEF IntakeInv, IntakeShape
<1>3. post.bytes \in 0..MaxBody
    BY DEF IntakeInv, IntakeShape
<1>4. Ready(post.upload) /\ (post.upload.source = "custom" => post.mode = "live")
    BY <1>1 DEF IntakeInv, ParsedInv
<1>5. post'.bytes \in 0..MaxBody
    BY <1>2, <1>3
<1>7. post'.at # "reading" => Ready(post'.upload)
    BY <1>2, <1>4
<1>8. /\ post'.at \in {"admitted", "opened", "executed"} /\ post'.upload.source = "custom" =>
             post'.mode = "live"
      /\ post'.at \in {"reading", "parsed", "admitted", "opened", "executed"} /\ post.at # "none"
    BY <1>1, <1>2, <1>4
<1> QED
    BY <1>1, <1>2, <1>5, <1>7, <1>8, ServeKeeps

\* The answer is consumed.  No check of a run was left when the request went.
LEMMA AnsweredKeeps ==
    ASSUME IntakeInv, Answered
    PROVE  IntakeInv'
<1>1. /\ post.at \in {"refused", "executed"} /\ UNCHANGED <<form, checks, available>>
      /\ post' = NoPost /\ sender' = [sender EXCEPT !.running = FALSE]
    BY DEF Answered
<1>2. /\ sender' = [running |-> sender'.running, knows |-> sender'.knows, upload |-> sender'.upload]
      /\ sender'.running = FALSE /\ sender'.knows = sender.knows
    BY <1>1 DEF IntakeInv, IntakeShape
<1>3. /\ post' = [at |-> post'.at, byPage |-> post'.byPage, bytes |-> post'.bytes,
                  upload |-> post'.upload, preflight |-> post'.preflight,
                  mode |-> post'.mode, code |-> post'.code]
      /\ post'.at = "none" /\ post'.byPage = FALSE /\ post'.bytes = 0 /\ post'.code = "none"
    BY <1>1 DEF NoPost
<1>4. \A c \in checks : c.by # "run"
    BY <1>1 DEF IntakeInv, CheckInv
<1>5. 0 \in 0..MaxBody
    BY IntakeAssumption
<1>6. post'.bytes \in 0..MaxBody
    BY <1>3, <1>5
<1>7. post'.at \in {"none", "sent", "reading", "parsed", "admitted", "opened", "refused",
            "executed"}
      /\ post'.byPage \in BOOLEAN
    BY <1>3
<1>8. IntakeShape' /\ FormInv'
    BY <1>1, <1>2, <1>3, <1>6, <1>7 DEF IntakeInv, IntakeShape, FormInv
<1>9. CheckInv'
    BY <1>1, <1>4 DEF CheckInv
<1>10. SenderInv' /\ ParsedInv' /\ PageSubmitsChecked'
    BY <1>2, <1>3 DEF SenderInv, ParsedInv, PageSubmitsChecked
<1> QED
    BY <1>8, <1>9, <1>10 DEF IntakeInv

-----------------------------------------------------------------------------
(* Intake: the theorems                                                     *)

\* A form has two fields at first, and nothing is there to be read.
LEMMA IntakeStarts == ASSUME IntakeInit PROVE IntakeInv
<1> DEFINE two == CHOOSE f \in FieldLists : Len(f) = 2
<1>1. two \in FieldLists /\ Len(two) = 2
    BY IntakeAssumption
<1> HIDE DEF two
<1>2. /\ form = [file |-> NoFile, fields |-> two, consent |-> FALSE, valid |-> FALSE,
                 checking |-> FALSE, selection |-> 0]
      /\ checks = {} /\ available = TRUE
      /\ sender = [running |-> FALSE, knows |-> TRUE, upload |-> NoUpload]
      /\ post = NoPost
    BY DEF IntakeInit, NoForm, two
<1>3. /\ post = [at |-> post.at, byPage |-> post.byPage, bytes |-> post.bytes,
                 upload |-> post.upload, preflight |-> post.preflight, mode |-> post.mode,
                 code |-> post.code]
      /\ post.at = "none" /\ post.byPage = FALSE /\ post.bytes = 0 /\ post.code = "none"
    BY <1>2 DEF NoPost
<1>4. 0 \in 0..MaxBody /\ 0 \in 0..MaxSelections
    BY IntakeAssumption
<1>5. form \in [file : UserFile \cup {NoFile}, fields : FieldLists, consent : BOOLEAN,
                valid : BOOLEAN, checking : BOOLEAN, selection : 0..MaxSelections]
    BY <1>1, <1>2, <1>4
<1>6. post.at \in {"none", "sent", "reading", "parsed", "admitted", "opened", "refused",
            "executed"}
      /\ post.byPage \in BOOLEAN /\ post.bytes \in 0..MaxBody
    BY <1>3, <1>4
<1>7. IntakeShape
    BY <1>2, <1>3, <1>5, <1>6 DEF IntakeShape
<1>8. FormInv /\ CheckInv
    BY <1>1, <1>2 DEF FormInv, CheckInv
<1>9. SenderInv /\ ParsedInv /\ PageSubmitsChecked
    BY <1>2, <1>3 DEF SenderInv, ParsedInv, PageSubmitsChecked
<1> QED
    BY <1>7, <1>8, <1>9 DEF IntakeInv

\* Every step of the intake keeps its invariant.
LEMMA IntakeKeeps ==
    ASSUME IntakeInv, [IntakeNext]_intakeVars
    PROVE  IntakeInv'
<1>1. CASE UNCHANGED intakeVars
  <2>1. UNCHANGED <<form, checks, sender, available, post>>
    BY <1>1 DEF intakeVars
  <2>2. IntakeShape' /\ FormInv'
    BY <2>1 DEF IntakeInv, IntakeShape, FormInv
  <2>3. CheckInv' /\ SenderInv' /\ ParsedInv' /\ PageSubmitsChecked'
    BY <2>1 DEF IntakeInv, CheckInv, SenderInv, ParsedInv, PageSubmitsChecked
  <2> QED
    BY <2>2, <2>3 DEF IntakeInv
<1>2. CASE \E file \in UserFile \cup {NoFile} : Select(file)
    BY <1>2, SelectKeeps
<1>3. CASE \E typed \in FieldLists, consent \in BOOLEAN : Fill(typed, consent)
    BY <1>3, FillKeeps
<1>4. CASE ReplaceFile
    BY <1>4, ReplaceFileKeeps
<1>5. CASE ValidateFile
    BY <1>5, ValidateFileKeeps
<1>6. CASE Run
    BY <1>6, RunFileKeeps
<1>7. CASE CancelRun
    BY <1>7, CancelRunKeeps
<1>8. CASE Hydrate \/ Deploy
    BY <1>8, ProvidersKeep
<1>9. CASE \E check \in checks : CheckEnds(check)
    BY <1>9, CheckEndsKeeps
<1>10. CASE \E preflight \in {"none", "invalid", "given"} : SendOther(preflight)
    BY <1>10, SendOtherKeeps
<1>11. CASE \E allowed, key, multipart, over \in BOOLEAN : Arrive(allowed, key, multipart, over)
    BY <1>11, ArriveKeeps
<1>18. CASE LimiterFails
    BY <1>18, LimiterFailsKeeps
<1>19. CASE Open
    BY <1>19, OpenKeeps
<1>12. CASE \E n \in 1..MaxChunk : ReadChunk(n)
  <2>1. 1..MaxChunk \subseteq Nat
    BY IntakeAssumption
  <2> QED
    BY <1>12, <2>1, ReadChunkKeeps
<1>13. CASE ReadFails
    BY <1>13, ReadFailsKeeps
<1>14. CASE \E u \in Upload, known \in BOOLEAN : BodyEnds(u, known)
    BY <1>14, BodyEndsKeeps
<1>15. CASE \E agrees \in BOOLEAN : Admit(agrees)
    BY <1>15, AdmitKeeps
<1>16. CASE Execute
    BY <1>16, ExecuteKeeps
<1>17. CASE Answered
    BY <1>17, AnsweredKeeps
<1> QED
    BY <1>1, <1>2, <1>3, <1>4, <1>5, <1>6, <1>7, <1>8, <1>9, <1>10, <1>11, <1>12, <1>13, <1>14,
       <1>15, <1>16, <1>17, <1>18, <1>19 DEF IntakeNext

\* The invariant holds throughout.
LEMMA IntakeAlways == IntakeSpec => []IntakeInv
<1>1. IntakeInit => IntakeInv
    BY IntakeStarts
<1>2. IntakeInv /\ [IntakeNext]_intakeVars => IntakeInv'
    BY IntakeKeeps
<1> QED
    BY <1>1, <1>2, PTL DEF IntakeSpec

\* The variables of the form, of its checks and of the request keep their shape,
\* and no more of a body is ever kept than the limit of parseForm.
THEOREM IntakeTypeTheorem == IntakeSpec => []IntakeTypeOK
<1>1. IntakeInv => IntakeTypeOK
    BY DEF IntakeInv, IntakeShape, IntakeTypeOK
<1> QED
    BY <1>1, IntakeAlways, PTL

\* What parseRunMultipart let through never fails the second validation of
\* executeRun, and a user's document is one within the limits, with a key for
\* every field, consented to and sent to a provider.
THEOREM ParsedTheorem == IntakeSpec => []ParsedIsExecutable
<1>1. IntakeInv => ParsedIsExecutable
  <2> SUFFICES ASSUME IntakeInv
               PROVE  ParsedIsExecutable
    OBVIOUS
  <2>1. post.code # "validation_failed"
    BY DEF IntakeInv, ParsedInv
  <2>2. post.at \in {"admitted", "opened", "executed"} /\ post.upload.source = "custom" =>
            Ready(post.upload) /\ post.mode = "live"
    BY DEF IntakeInv, ParsedInv
  <2> QED
    BY <2>1, <2>2 DEF Ready, ParsedIsExecutable
<1> QED
    BY <1>1, IntakeAlways, PTL

\* The page submits only what it checked itself, however the checks of the files
\* selected meanwhile overlap; labels without room for a document are the one
\* reason for which its body is too large.
THEOREM CheckedTheorem == IntakeSpec => []PageSubmitsChecked
<1>1. IntakeInv => PageSubmitsChecked
    BY DEF IntakeInv
<1> QED
    BY <1>1, IntakeAlways, PTL

-----------------------------------------------------------------------------
(* The run, its panel and its workflow routes                               *)

-----------------------------------------------------------------------------
(* Review: what the evaluation makes of a claim                             *)

\* A normalized reading is a record of its own and keeps its currency.
LEMMA NormalizedReading ==
    ASSUME NEW money, NEW r \in Reading
    PROVE  /\ Normalized(money, r) \in Amount
           /\ Normalized(money, r).currency = r.currency
           /\ Normalized(money, r).amount = IF money THEN Cents(r.amount) ELSE r.amount
<1>1. r \in [amount : Nat, currency : STRING] /\ r # Null /\ r # Blank
    BY EvaluationAssumption DEF Amount
<1>2. Cents(r.amount) \in Nat
  <2> DEFINE a == r.amount
  <2>1. a \in Nat
    BY <1>1
  <2> HIDE DEF a
  <2>2. (a + 5) \div 10 \in Nat
    BY <2>1
  <2>3. Cents(a) \in Nat
    BY <2>2 DEF Cents
  <2> QED
    BY <2>3 DEF a
<1>3. Normalized(money, r) = IF money THEN [r EXCEPT !.amount = Cents(r.amount)] ELSE r
    BY <1>1 DEF Normalized
<1> QED
    BY <1>1, <1>2, <1>3 DEF Amount

\* A claim with a verdict that passes has a value, normalized as it should be
\* and supported by its evidence.
LEMMA PassMeans ==
    ASSUME NEW claim, claim.extracted \in Value,
           NEW required, NEW pages,
           Evaluated(claim, required, pages) = "pass"
    PROVE  /\ claim.extracted \in Reading /\ claim.evidence # Null
           /\ required => Grounded(claim, pages)
           /\ claim.normalized # Null =>
                  Match(claim.money, Normalized(claim.money, claim.extracted), claim.normalized)
           /\ Supported(claim.money, Normalized(claim.money, claim.extracted), claim.evidence)
<1> DEFINE value == Normalized(claim.money, claim.extracted)
           candidate == Verdict(claim, FALSE, FALSE, "pass")
<1>1. claim.extracted # Null /\ value # Null
    BY DEF Evaluated, Verdict
<1>2. /\ required => Grounded(claim, pages)
      /\ claim.normalized # Null => Match(claim.money, value, claim.normalized)
      /\ claim.evidence # Null /\ Supported(claim.money, value, claim.evidence)
    BY <1>1 DEF Evaluated, Verdict
<1>3. claim.extracted # Blank
    BY <1>1, <1>2 DEF Normalized, Supported
<1> QED
    BY <1>1, <1>2, <1>3 DEF Value

\* What matches a value contradicts it not.
LEMMA MatchedIsNotContradicted ==
    ASSUME NEW money, NEW left \in Amount, NEW right \in Amount \cup {Blank},
           Match(money, left, right)
    PROVE  right # Blank /\ ~ Contradicts(money, left, right)
<1>1. left # Blank
    BY EvaluationAssumption
<1>2. right # Blank
    BY <1>1 DEF Match
<1> QED
    BY <1>1, <1>2 DEF Match, Contradicts

\* What passes, is in its pages and differs not from its reference is backed.
LEMMA PassIsBacked ==
    ASSUME NEW claim, claim.extracted \in Value,
           claim.normalized \in Value, claim.evidence \subseteq Reading \/ claim.evidence = Null,
           NEW required, NEW pages, NEW reference \in Value,
           Evaluated(claim, required, pages) = "pass", Grounded(claim, pages),
           ~ Compared(claim, Evaluated(claim, required, pages), reference).differs
    PROVE  Backed(claim, pages, reference)
<1> DEFINE v == Normalized(claim.money, claim.extracted)
           shown == IF claim.money THEN Cents(claim.extracted.amount) ELSE claim.extracted.amount
           value == [claim.extracted EXCEPT !.amount = shown]
           expected == Normalized(claim.money, reference)
<1>1. /\ claim.extracted \in Reading /\ claim.evidence # Null
      /\ claim.normalized # Null => Match(claim.money, v, claim.normalized)
      /\ Supported(claim.money, v, claim.evidence)
    BY PassMeans
<1>2. claim.evidence \subseteq Reading
    BY <1>1
<1>3. /\ claim.page \in DOMAIN pages
      /\ \A r \in claim.evidence : \E whole \in pages[claim.page] : PartOf(r, whole)
    BY DEF Grounded
<1>4. claim.extracted \in [amount : Nat, currency : STRING]
    BY <1>1, EvaluationAssumption DEF Amount
<1>5. v \in Amount /\ v.currency = claim.extracted.currency /\ v.amount = shown
    BY <1>1, NormalizedReading
<1>6. v = value
    BY <1>4, <1>5 DEF Amount
<1> HIDE DEF v, shown, value
<1>7. \E r \in claim.evidence :
          /\ r.amount = shown
          /\ v.currency # NoCurrency => r = v
          /\ \E whole \in pages[claim.page] : PartOf(r, whole)
  <2>1. PICK r \in claim.evidence :
            r.amount = v.amount /\ v.currency \in {NoCurrency, r.currency}
    BY <1>1 DEF Supported
  <2>2. r \in [amount : Nat, currency : STRING] /\ v \in [amount : Nat, currency : STRING]
    BY <1>2, <1>5, EvaluationAssumption DEF Amount
  <2>3. v.currency # NoCurrency => r = v
    BY <2>1, <2>2
  <2> QED
    BY <1>3, <1>5, <2>1, <2>3
<1>8. ~ Contradicts(claim.money, v, claim.normalized)
  <2>1. CASE claim.normalized = Null
    BY <2>1, EvaluationAssumption DEF Contradicts
  <2>2. CASE claim.normalized # Null
    <3>1. claim.normalized \in Amount \cup {Blank}
      BY <2>2, EvaluationAssumption DEF Value
    <3> QED
      BY <1>1, <1>5, <2>2, <3>1, MatchedIsNotContradicted
  <2> QED
    BY <2>1, <2>2
<1>9. reference = Null \/ (expected # Null /\ Match(claim.money, v, expected))
    BY DEF Compared, v
<1>10. CASE reference = Null
  <2>1. expected = Null
    BY <1>10 DEF Normalized
  <2>2. ~ Contradicts(claim.money, v, expected) /\ reference # Blank
    BY <1>10, <2>1, EvaluationAssumption DEF Contradicts
  <2> QED
    BY <1>1, <1>3, <1>6, <1>7, <1>8, <2>2 DEF Backed, shown, value
<1>11. CASE reference = Blank
  <2>1. expected = IF claim.money THEN Null ELSE Blank
    BY <1>11, EvaluationAssumption DEF Normalized
  <2>2. expected = Blank /\ Match(claim.money, v, expected)
    BY <1>9, <1>11, <2>1, EvaluationAssumption
  <2> QED
    BY <1>5, <2>2, MatchedIsNotContradicted
<1>12. CASE reference \in Reading
  <2>1. expected \in Amount /\ Match(claim.money, v, expected) /\ reference # Blank
    BY <1>9, <1>12, NormalizedReading, EvaluationAssumption
  <2>2. ~ Contradicts(claim.money, v, expected)
    BY <1>5, <2>1, MatchedIsNotContradicted
  <2> QED
    BY <1>1, <1>3, <1>6, <1>7, <1>8, <2>1, <2>2 DEF Backed, shown, value
<1> QED
    BY <1>10, <1>11, <1>12 DEF Value

\* A comparison makes a conflict of a difference, unless nothing was found.
LEMMA ComparedStatus ==
    ASSUME NEW claim, claim.extracted \in Value,
           NEW required, NEW pages, NEW reference,
           NEW verdict, verdict = Evaluated(claim, required, pages),
           NEW field, field = Compared(claim, verdict, reference)
    PROVE  /\ field.missing \in BOOLEAN /\ field.differs \in BOOLEAN
           /\ field.missing <=> claim.extracted = Null
           /\ verdict \in {"pass", "conflict", "not_found"}
           /\ field.status = IF verdict = "not_found" \/ ~ field.differs THEN verdict
                             ELSE "conflict"
<1>1. verdict \in {"pass", "conflict", "not_found"}
    BY DEF Evaluated, Verdict
<1>2. /\ field.missing \in BOOLEAN /\ field.differs \in BOOLEAN
      /\ field.missing <=> claim.extracted = Null
      /\ field.status = IF verdict = "not_found" \/ ~ field.differs THEN verdict ELSE "conflict"
    BY DEF Compared
<1> QED
    BY <1>1, <1>2

\* The other fields are what their verdict makes of them.
LEMMA OthersAre ==
    ASSUME NEW others \in OtherFields, NEW f \in others
    PROVE  /\ f.status \in {"pass", "conflict", "not_found"}
           /\ f.missing <=> f.status = "not_found"
           /\ f.differs <=> f.status = "conflict"
<1>1. PICK s \in {"pass", "conflict", "not_found"} :
          f = [missing |-> s = "not_found", differs |-> s = "conflict", status |-> s]
    BY DEF OtherFields
<1> QED
    BY <1>1

\* A positive outcome of a live run is borne out: the field by its page, the
\* others by their verdict.
LEMMA DecidedEarns ==
    ASSUME NEW source \in {"synthetic", "custom"},
           NEW claim \in Claim, NEW shown \in Shown, NEW reference \in Value,
           NEW others \in OtherFields,
           DecideOutcome(source, others \cup
               {Compared(claim, Evaluated(claim, TRUE, <<shown>>), reference)}) \in Positive
    PROVE  Backed(claim, <<shown>>, reference) /\ \A f \in others : f.status = "pass"
<1> DEFINE pages == <<shown>>
           required == TRUE
           verdict == Evaluated(claim, required, pages)
           field == Compared(claim, verdict, reference)
           all == others \cup {field}
<1>1. /\ claim.extracted \in Value /\ claim.normalized \in Value
      /\ claim.evidence \subseteq Reading \/ claim.evidence = Null
    BY ReviewAssumption DEF Claim, Value, Tokens
<1>2. /\ field.missing \in BOOLEAN /\ field.differs \in BOOLEAN
      /\ verdict \in {"pass", "conflict", "not_found"}
      /\ field.status = IF verdict = "not_found" \/ ~ field.differs THEN verdict ELSE "conflict"
      /\ verdict = "not_found" => field.missing
  <2> HIDE DEF verdict, field
  <2>1. verdict = Evaluated(claim, required, pages) /\ field = Compared(claim, verdict, reference)
    BY DEF verdict, field, required
  <2>2. verdict = "not_found" => claim.extracted = Null
    BY <2>1 DEF Evaluated, Verdict, required
  <2> HIDE DEF required, pages
  <2>3. /\ field.missing \in BOOLEAN /\ field.differs \in BOOLEAN
        /\ verdict \in {"pass", "conflict", "not_found"}
        /\ field.status = IF verdict = "not_found" \/ ~ field.differs THEN verdict ELSE "conflict"
    BY <1>1, <2>1, ComparedStatus
  <2>4. field.missing <=> claim.extracted = Null
    BY <1>1, <2>1, ComparedStatus
  <2> QED
    BY <2>2, <2>3, <2>4
<1> HIDE DEF verdict, field, pages
<1>3. DecideOutcome(source, all) \in {"clear", "evidence_consistent"}
    BY DEF Positive, verdict, field, pages
<1>4. \/ source = "synthetic" /\ \A f \in all : ~ f.missing /\ f.status # "conflict" /\ ~ f.differs
      \/ source = "custom" /\ \A f \in all : f.status = "pass"
  <2> HIDE DEF all
  <2>1. CASE source = "synthetic"
    BY <1>3, <2>1 DEF DecideOutcome
  <2>2. CASE source = "custom"
    BY <1>3, <2>2 DEF DecideOutcome
  <2> QED
    BY <2>1, <2>2
<1>5. \A f \in others : f.status = "pass"
    BY <1>4, OthersAre
<1>6. \/ ~ field.missing /\ field.status # "conflict"
      \/ field.status = "pass"
    BY <1>4
<1>7. verdict = "pass" /\ ~ field.differs
    BY <1>2, <1>6
<1>8. Evaluated(claim, required, pages) = "pass" /\ required
    BY <1>7 DEF verdict
<1>9. ~ Compared(claim, Evaluated(claim, required, pages), reference).differs
    BY <1>7 DEF verdict, field
<1> HIDE DEF required
<1>10. Grounded(claim, pages)
    BY <1>1, <1>8, PassMeans
<1>11. Backed(claim, pages, reference)
    BY <1>1, <1>8, <1>9, <1>10, PassIsBacked
<1> QED
    BY <1>5, <1>11 DEF pages

-----------------------------------------------------------------------------
(* Review: what comes of a sample that is replayed                          *)

\* The values of a sample are their own normalizations.
LEMMA WordIs ==
    ASSUME NEW words \in Words, NEW key, NEW money, money = (key = "invoice_total"),
           NEW r, r = Word(words, key)
    PROVE  /\ r \in Reading /\ r \in Value /\ r # Null /\ r # Blank
           /\ (r.currency = NoCurrency <=> ~ money)
           /\ r \in [amount : Nat, currency : STRING]
           /\ Normalized(money, r) = r
<1>1. /\ r \in Reading /\ (r.currency = NoCurrency <=> ~ money)
      /\ (money => Cents(r.amount) = r.amount)
    BY DEF Words, Word, Totals, Tokens
<1>2. r \in [amount : Nat, currency : STRING] /\ r # Null /\ r # Blank
    BY <1>1, EvaluationAssumption DEF Amount
<1>3. Normalized(money, r) = IF money THEN [r EXCEPT !.amount = Cents(r.amount)] ELSE r
    BY <1>2 DEF Normalized
<1> QED
    BY <1>1, <1>2, <1>3 DEF Value

\* Two values of one field that differ, be it in the currency alone, do not match.
LEMMA WordMatch ==
    ASSUME NEW words \in Words, NEW others \in Words,
           NEW key, NEW money, money = (key = "invoice_total"),
           NEW r, r = Word(words, key), NEW s, s = Word(others, key)
    PROVE  Match(money, r, s) <=> r = s
<1>1. /\ r # Blank /\ s # Blank /\ (r.currency = NoCurrency <=> s.currency = NoCurrency)
      /\ r \in [amount : Nat, currency : STRING] /\ s \in [amount : Nat, currency : STRING]
    BY WordIs
<1> QED
    BY <1>1 DEF Match

\* Of a replayed field: it is missing, it passes, or it differs, as its sample
\* says, and what passes is backed.
LEMMA ReplayedField ==
    ASSUME NEW fixture, NEW key,
           NEW words \in Words, NEW others \in Words,
           words.total # others.total, words.text # others.text,
           NEW claim, claim = ReplayedClaim(key, fixture, words),
           NEW reference, reference = ReferenceOf(key, fixture, words, others),
           NEW required, NEW pages, pages = PagesOf(words),
           NEW field, field = Compared(claim, Evaluated(claim, required, pages), reference)
    PROVE  /\ key \in fixture.missing => field.missing
           /\ key \notin fixture.missing =>
                  ~ field.missing /\ (field.differs <=> key \in fixture.differing)
           /\ ~ field.missing /\ ~ field.differs =>
                  field.status = "pass" /\ Backed(claim, pages, reference)
<1> DEFINE verdict == Evaluated(claim, required, pages)
           money == (key = "invoice_total")
           value == Word(words, key)
           other == Word(others, key)
<1>1. /\ value \in Reading /\ value \in Value /\ value # Null /\ value # Blank
      /\ Normalized(money, value) = value
    BY WordIs
<1>13. /\ value # other /\ reference = (IF key \in fixture.missing \cup fixture.differing
                                          THEN other ELSE value)
       /\ value \in {words.total, words.text}
    BY DEF Word, ReferenceOf
<1>14. Match(money, value, reference) <=> value = reference
    BY <1>13, WordMatch
<1>2. /\ reference # Null /\ Normalized(money, reference) = reference
      /\ reference \in Value
    BY <1>13, WordIs
<1>3. /\ claim.money = money /\ claim.page = 1
      /\ claim.extracted = IF key \in fixture.missing THEN Null ELSE value
      /\ claim.normalized = claim.extracted
      /\ claim.evidence = IF claim.extracted = Null THEN Null ELSE {value}
    BY DEF ReplayedClaim
<1>4. Null \in Value
    BY DEF Value
<1>5. /\ claim.extracted \in Value /\ claim.normalized \in Value
      /\ claim.evidence \subseteq Reading \/ claim.evidence = Null
    BY <1>1, <1>3, <1>4
<1>6. /\ field.missing <=> claim.extracted = Null
      /\ verdict \in {"pass", "conflict", "not_found"}
      /\ field.status = IF verdict = "not_found" \/ ~ field.differs THEN verdict ELSE "conflict"
  <2> HIDE DEF verdict
  <2>1. verdict = Evaluated(claim, required, pages) /\ field = Compared(claim, verdict, reference)
    BY DEF verdict
  <2> QED
    BY <1>5, <2>1, ComparedStatus
<1>7. CASE key \in fixture.missing
    BY <1>3, <1>6, <1>7
<1>8. CASE key \notin fixture.missing
  <2>1. claim.extracted = value /\ claim.normalized = value
    BY <1>3, <1>8
  <2>2. Normalized(claim.money, claim.extracted) = value
    BY <1>1, <1>3, <2>1
  <2>3. claim.evidence = {value} /\ claim.evidence # Null
    BY <1>1, <1>3, <2>1, ReviewAssumption
  <2>4. Match(money, value, value)
    BY WordMatch
  <2>5. Supported(claim.money, value, claim.evidence)
    BY <1>1, <2>3 DEF Supported
  <2>6. field.differs <=> reference # value
    <3>1. field.differs <=> ~ (/\ value # Null /\ reference # Null
                               /\ Match(money, value, reference))
      BY <1>2, <1>3, <2>2 DEF Compared
    <3> QED
      BY <1>1, <1>2, <1>14, <3>1
  <2>7. reference # value <=> key \in fixture.differing
    BY <1>8, <1>13
  <2>12. Grounded(claim, pages)
    <3>1. 1 \in DOMAIN pages /\ value \in pages[1]
      BY <1>13 DEF PagesOf
    <3>2. claim.page \in DOMAIN pages /\ value \in pages[claim.page]
      BY <1>3, <3>1
    <3> QED
      BY <2>3, <3>2 DEF Grounded, PartOf
  <2>8. verdict = "pass"
    BY <1>1, <1>3, <2>1, <2>2, <2>3, <2>4, <2>5, <2>12 DEF Evaluated, Verdict
  <2>9. field.missing <=> claim.extracted = Null
    BY <1>6
  <2>10. ~ field.missing
    BY <1>1, <2>1, <2>9
  <2>11. ~ field.differs => field.status = "pass" /\ Backed(claim, pages, reference)
    <3>2. ~ field.differs => Backed(claim, pages, reference)
      <4> QED
        BY <1>2, <1>5, <2>8, <2>12, PassIsBacked
    <3> QED
      BY <1>6, <2>8, <3>2
  <2> QED
    BY <1>8, <2>6, <2>7, <2>10, <2>11
<1> QED
    BY <1>7, <1>8

\* The samples: what is expected of one follows from its fields.
LEMMA SampleTable ==
    ASSUME NEW fixture \in Invoices \cup Receipts
    PROVE  /\ fixture.missing \subseteq fixture.fields /\ fixture.differing \subseteq fixture.fields
           /\ fixture.missing \cap fixture.differing = {}
           /\ fixture.expected = IF fixture.missing # {} THEN "incomplete"
                                 ELSE IF fixture.differing # {} THEN "needs_review" ELSE "clear"
<1>1. CASE fixture \in Invoices
  <2>1. PICK m, d, x : /\ fixture = Fixture(InvoiceFields, m, d, x)
                       /\ \/ m = {} /\ d = {} /\ x = "clear"
                          \/ m = {} /\ d = {"reviewer_comments"} /\ x = "needs_review"
                          \/ m = {"reviewer_comments"} /\ d = {} /\ x = "incomplete"
                          \/ m = {} /\ d = {"invoice_total"} /\ x = "needs_review"
                          \/ /\ m = {} /\ d = {"purchase_order_number", "currency"}
                             /\ x = "needs_review"
    BY <1>1 DEF Invoices
  <2>2. /\ fixture.fields = InvoiceFields /\ fixture.missing = m /\ fixture.differing = d
        /\ fixture.expected = x
    BY <2>1 DEF Fixture
  <2>3. m \subseteq InvoiceFields /\ d \subseteq InvoiceFields
    BY <2>1 DEF InvoiceFields
  <2> QED
    BY <2>1, <2>2, <2>3
<1>2. CASE fixture \in Receipts
  <2>1. PICK m, d, x : /\ fixture = Fixture(WarehouseFields, m, d, x)
                       /\ \/ m = {} /\ d = {} /\ x = "clear"
                          \/ m = {} /\ d = {"received_quantity"} /\ x = "needs_review"
                          \/ m = {"receiver_comments"} /\ d = {} /\ x = "incomplete"
                          \/ m = {} /\ d = {"item_code", "lot_number"} /\ x = "needs_review"
    BY <1>2 DEF Receipts
  <2>2. /\ fixture.fields = WarehouseFields /\ fixture.missing = m /\ fixture.differing = d
        /\ fixture.expected = x
    BY <2>1 DEF Fixture
  <2>3. m \subseteq WarehouseFields /\ d \subseteq WarehouseFields
    BY <2>1 DEF WarehouseFields
  <2> QED
    BY <2>1, <2>2, <2>3
<1> QED
    BY <1>1, <1>2

\* The claims of a replay with their references, and the fields they come to.
Replayed(fixture, words, others, claim, reference) ==
    \A key \in fixture.fields :
        /\ claim[key] = ReplayedClaim(key, fixture, words)
        /\ reference[key] = ReferenceOf(key, fixture, words, others)

FieldsOf(F, K, claim, required, pages, reference) ==
    /\ \A key \in K :
           Compared(claim[key], Evaluated(claim[key], required, pages), reference[key]) \in F
    /\ \A f \in F : \E key \in K :
           f = Compared(claim[key], Evaluated(claim[key], required, pages), reference[key])

\* A replay comes out as expected, and clear only if every field is backed.
LEMMA ReplayedOutcome ==
    ASSUME NEW fixture \in Invoices \cup Receipts,
           NEW words \in Words, NEW others \in Words,
           words.total # others.total, words.text # others.text,
           NEW claim, NEW reference, Replayed(fixture, words, others, claim, reference),
           NEW required, NEW pages, pages = PagesOf(words),
           NEW F, FieldsOf(F, fixture.fields, claim, required, pages, reference)
    PROVE  /\ DecideOutcome("synthetic", F) = fixture.expected
           /\ fixture.expected \in Positive =>
                  \A key \in fixture.fields : Backed(claim[key], pages, reference[key])
<1> DEFINE field(key) ==
               Compared(claim[key], Evaluated(claim[key], required, pages), reference[key])
           G == [key \in fixture.fields |-> field(key)]
<1>1. \A key \in fixture.fields :
          /\ key \in fixture.missing => G[key].missing
          /\ key \notin fixture.missing =>
                 ~ G[key].missing /\ (G[key].differs <=> key \in fixture.differing)
          /\ ~ G[key].missing /\ ~ G[key].differs =>
                 G[key].status = "pass" /\ Backed(claim[key], pages, reference[key])
  <2> SUFFICES ASSUME NEW key \in fixture.fields
               PROVE  /\ key \in fixture.missing => G[key].missing
                      /\ key \notin fixture.missing =>
                             ~ G[key].missing /\ (G[key].differs <=> key \in fixture.differing)
                      /\ ~ G[key].missing /\ ~ G[key].differs =>
                             G[key].status = "pass" /\ Backed(claim[key], pages, reference[key])
    OBVIOUS
  <2> DEFINE c == claim[key]
             r == reference[key]
             g == G[key]
  <2>1. /\ c = ReplayedClaim(key, fixture, words)
        /\ r = ReferenceOf(key, fixture, words, others)
        /\ g = Compared(c, Evaluated(c, required, pages), r)
    BY DEF Replayed
  <2> HIDE DEF c, r, g
  <2>2. /\ key \in fixture.missing => g.missing
        /\ key \notin fixture.missing => ~ g.missing /\ (g.differs <=> key \in fixture.differing)
        /\ ~ g.missing /\ ~ g.differs => g.status = "pass" /\ Backed(c, pages, r)
    BY <2>1, ReplayedField
  <2> QED
    BY <2>2 DEF c, r, g
<1>2. /\ \A key \in fixture.fields : G[key] \in F
      /\ \A f \in F : \E key \in fixture.fields : f = G[key]
    BY DEF FieldsOf
<1> HIDE DEF G
<1>3. /\ fixture.missing \subseteq fixture.fields /\ fixture.differing \subseteq fixture.fields
      /\ fixture.missing \cap fixture.differing = {}
      /\ fixture.expected = IF fixture.missing # {} THEN "incomplete"
                            ELSE IF fixture.differing # {} THEN "needs_review" ELSE "clear"
    BY SampleTable
<1>6. \A key \in fixture.fields :
          /\ key \in fixture.missing => G[key].missing
          /\ key \notin fixture.missing =>
                 ~ G[key].missing /\ (G[key].differs <=> key \in fixture.differing)
          /\ ~ G[key].missing /\ ~ G[key].differs => G[key].status = "pass"
    BY <1>1
<1>4. DecideOutcome("synthetic", F) = fixture.expected
  <2>3. CASE fixture.missing # {}
    <3>1. PICK key \in fixture.fields : key \in fixture.missing
      BY <1>3, <2>3
    <3>2. G[key] \in F /\ G[key].missing
      BY <1>2, <1>6, <3>1
    <3>3. \E f \in F : f.missing
      BY <3>2
    <3>4. DecideOutcome("synthetic", F) = "incomplete"
      BY <3>3 DEF DecideOutcome
    <3> QED
      BY <1>3, <2>3, <3>4
  <2>4. CASE fixture.missing = {} /\ fixture.differing # {}
    <3>1. PICK key \in fixture.fields : key \in fixture.differing
      BY <1>3, <2>4
    <3>2. G[key] \in F /\ G[key].differs
      BY <1>2, <1>6, <2>4, <3>1
    <3>3. \A f \in F : ~ f.missing
      BY <1>2, <1>6, <2>4
    <3>4. DecideOutcome("synthetic", F) = "needs_review"
      BY <3>2, <3>3 DEF DecideOutcome
    <3> QED
      BY <1>3, <2>4, <3>4
  <2>5. CASE fixture.missing = {} /\ fixture.differing = {}
    <3>1. \A f \in F : ~ f.missing /\ f.status # "conflict" /\ ~ f.differs
      BY <1>2, <1>6, <2>5
    <3>2. DecideOutcome("synthetic", F) = "clear"
      BY <3>1 DEF DecideOutcome
    <3> QED
      BY <1>3, <2>5, <3>2
  <2> QED
    BY <2>3, <2>4, <2>5
<1>5. fixture.expected \in Positive => fixture.missing = {} /\ fixture.differing = {}
    BY <1>3 DEF Positive
<1> QED
    BY <1>1, <1>4, <1>5

\* Where documents come from.
LEMMA DocumentIs ==
    ASSUME NEW d \in Document
    PROVE  /\ d.source \in {"synthetic", "custom"} /\ d.live \in BOOLEAN
           /\ d.source = "synthetic" =>
                  d.origin = "server_original" /\ d.fixture \in Invoices \cup Receipts
           /\ d.source = "custom" => d.live /\ d.fixture = NoFixture
BY DEF Document

\* An outcome is one of six, and an action has one of three states.
LEMMA OutcomeIs ==
    ASSUME NEW source, NEW F
    PROVE  DecideOutcome(source, F) \in Outcome
BY DEF DecideOutcome, Outcome

LEMMA ActionIs ==
    ASSUME NEW outcome, NEW expected, NEW guarded, NEW origin
    PROVE  ActionStatus(outcome, expected, guarded, origin) \in {"ready", "needs_review", "blocked"}
BY DEF ActionStatus, FixtureStatus, OriginReview, Positive, Negative

\* The action of a sample that comes out as expected is its own.
LEMMA SampleAction ==
    ASSUME NEW x \in {"clear", "incomplete", "needs_review"}
    PROVE  ActionStatus(x, x, FALSE, "server_original") = FixtureStatus(x)
BY EvaluationAssumption DEF ActionStatus, FixtureStatus, OriginReview, Positive, Negative,
   Outcome

-----------------------------------------------------------------------------
(* Review: the inductive invariant                                          *)

RunType ==
    run \in [document : Document, saved : BOOLEAN, told : BOOLEAN, guarded : BOOLEAN,
             status : {"deciding", "publishing", "completed", "failed", "gone"},
             outcome : Outcome \cup {Null}, earned : BOOLEAN,
             action : {"none", "ready", "needs_review", "blocked"}]

\* What is known of a run at each point of its life: nobody is told before the
\* executor is done, and what is stored was decided.
RunInv ==
    /\ RunType
    /\ run.status \in {"deciding", "publishing"} => ~ run.told /\ ~ run.saved
    /\ run.status = "completed" => run.saved
    /\ run.status = "gone" => run.told
    /\ run.status = "deciding" => run.outcome = Null /\ run.guarded = FALSE
    /\ run.saved \/ run.status = "publishing" =>
           /\ run.outcome \in Outcome
           /\ run.action = ActionStatus(run.outcome, run.document.fixture.expected, run.guarded,
                                          run.document.origin)
    /\ run.outcome \in Positive => run.earned
    /\ ReplayIsExpected

\* A handoff may be posted for the run once it is completed.
Postable ==
    run.outcome \in Positive /\ ~ run.guarded /\ run.document.origin # "unverified"

RoleOf(act, role) ==
    IF NeedsRole(act) THEN role \in Roles(run.document.family) ELSE role = NoRole

\* What the page and the handlers hold of a run: a request that was checked may
\* be stored, and a handoff that was stored is earned.
PageInv ==
    /\ view.outcome \in Outcome \cup {Null}
    /\ request \in [at : {"none", "read", "insert"}, action : ActionType,
                    role : {NoRole, "business", "generic"}, route : {"actions", "stage"}]
    /\ answer \in {"none", "denied", "gone", "unavailable", "not_allowed", "role_not_allowed",
                   "blocked", "already_created", "created"}
    /\ request.at # "none" \/ view.status # "none" \/ events # {} => run.told
    /\ request.at = "read" /\ request.route = "stage" =>
           request.action = Approve /\ request.role = NoRole
    /\ request.at = "insert" =>
           /\ RoleOf(request.action, request.role)
           /\ request.action = Approve => Postable
    /\ \A e \in events : e.action \in ActionType /\ RoleOf(e.action, e.role)
    /\ HandoffIsEarned

ReviewInv == RunInv /\ PageInv

\* Nobody holds anything of a run nobody was told of.
LEMMA Untold ==
    ASSUME PageInv, ~ run.told, UNCHANGED <<view, request, events, answer>>
    PROVE  PageInv'
<1>1. request.at = "none" /\ view.status = "none" /\ events = {}
    BY DEF PageInv
<1> QED
    BY <1>1 DEF PageInv, HandoffIsEarned

\* The page and the handlers leave the run alone.
LEMMA RunStays == ASSUME RunInv, UNCHANGED run PROVE RunInv'
BY DEF RunInv, RunType, ReplayIsExpected

\* At first nothing is decided.
LEMMA ReviewStarts == ASSUME ReviewInit PROVE ReviewInv
<1>1. PICK document \in Document :
          run = [document |-> document, status |-> "deciding", saved |-> FALSE, told |-> FALSE,
                 outcome |-> Null, guarded |-> FALSE, action |-> "none", earned |-> FALSE]
    BY DEF ReviewInit
<1>2. Null \notin Positive
    BY EvaluationAssumption DEF Positive, Outcome
<1>3. RunInv
    BY <1>1, <1>2 DEF RunInv, RunType, ReplayIsExpected
<1>4. /\ view = [status |-> "none", outcome |-> Null, guarded |-> FALSE, origin |-> "none"]
      /\ request = [at |-> "none", action |-> Approve, role |-> NoRole, route |-> "actions"]
      /\ events = {} /\ answer = "none"
    BY DEF ReviewInit, NoRequest
<1>5. Approve \in ActionType
    BY DEF ActionType
<1>6. PageInv
    BY <1>4, <1>5 DEF PageInv, HandoffIsEarned
<1> QED
    BY <1>3, <1>6 DEF ReviewInv

-----------------------------------------------------------------------------
(* Review: the executor                                                     *)

\* A live run is decided.
LEMMA DecideKeeps ==
    ASSUME ReviewInv, Decide
    PROVE  ReviewInv'
<1>1. /\ run.status = "deciding" /\ run.document.live /\ UNCHANGED <<view, request, events, answer>>
      /\ run \in [document : Document, saved : BOOLEAN, told : BOOLEAN, guarded : BOOLEAN,
                  status : {"deciding", "publishing", "completed", "failed", "gone"},
                  outcome : Outcome \cup {Null}, earned : BOOLEAN,
                  action : {"none", "ready", "needs_review", "blocked"}]
      /\ ~ run.told /\ ~ run.saved
    BY DEF Decide, ReviewInv, RunInv, RunType
<1>2. PICK claim \in Claim, shown \in Shown,
           reference \in IF run.document.source = "custom" THEN {Null} ELSE Value,
           others \in OtherFields, guarded \in BOOLEAN :
               run' = Decided(claim, shown, reference, others, guarded)
    BY DEF Decide
<1> DEFINE source == run.document.source
           required == TRUE
           results == others \cup {Compared(claim, Evaluated(claim, required, <<shown>>), reference)}
           outcome == IF guarded /\ source = "custom" THEN "not_found"
                      ELSE DecideOutcome(source, results)
           status == ActionStatus(outcome, run.document.fixture.expected, guarded,
                                    run.document.origin)
           earned == Backed(claim, <<shown>>, reference) /\ \A f \in others : f.status = "pass"
<1>3. source \in {"synthetic", "custom"} /\ run.document.live = TRUE
    BY <1>1, DocumentIs
<1>4. reference \in Value
    BY <1>2 DEF Value
<1>5. run' = [run EXCEPT !.status = "publishing", !.outcome = outcome, !.guarded = guarded,
                         !.action = status, !.earned = earned]
    BY <1>2, <1>3 DEF Decided
<1>6. outcome \in Outcome
    BY OutcomeIs DEF Outcome
<1>7. status \in {"ready", "needs_review", "blocked"} /\ earned \in BOOLEAN
    BY ActionIs
<1>8. outcome \in Positive => earned
  <2> SUFFICES ASSUME outcome \in Positive
               PROVE  earned
    OBVIOUS
  <2>1. outcome = DecideOutcome(source, results)
    BY DEF Positive
  <2> HIDE DEF source, outcome
  <2> QED
    BY <1>3, <1>4, <2>1, DecidedEarns
<1> HIDE DEF outcome, status, earned
<1>9. /\ run' \in [document : Document, saved : BOOLEAN, told : BOOLEAN, guarded : BOOLEAN,
                   status : {"deciding", "publishing", "completed", "failed", "gone"},
                   outcome : Outcome \cup {Null}, earned : BOOLEAN,
                   action : {"none", "ready", "needs_review", "blocked"}]
      /\ run'.document = run.document /\ run'.status = "publishing" /\ run'.outcome = outcome
      /\ run'.guarded = guarded /\ run'.action = status /\ run'.earned = earned
      /\ run'.told = run.told /\ run'.saved = run.saved
    BY <1>1, <1>5, <1>6, <1>7
<1>10. run'.action = ActionStatus(run'.outcome, run'.document.fixture.expected, run'.guarded,
                                    run'.document.origin)
    BY <1>9 DEF status
<1>11. ReplayIsExpected'
    BY <1>3, <1>9 DEF ReplayIsExpected
<1>12. RunInv'
    BY <1>1, <1>6, <1>8, <1>9, <1>10, <1>11 DEF RunInv, RunType
<1>13. PageInv'
    BY <1>1, Untold DEF ReviewInv
<1> QED
    BY <1>12, <1>13 DEF ReviewInv

\* A sample is replayed.
LEMMA ReplayKeeps ==
    ASSUME ReviewInv, Replay
    PROVE  ReviewInv'
<1>1. /\ run.status = "deciding" /\ ~ run.document.live /\ UNCHANGED <<view, request, events, answer>>
      /\ run \in [document : Document, saved : BOOLEAN, told : BOOLEAN, guarded : BOOLEAN,
                  status : {"deciding", "publishing", "completed", "failed", "gone"},
                  outcome : Outcome \cup {Null}, earned : BOOLEAN,
                  action : {"none", "ready", "needs_review", "blocked"}]
      /\ ~ run.told /\ ~ run.saved
    BY DEF Replay, ReviewInv, RunInv, RunType
<1> DEFINE fixture == run.document.fixture
<1>2. fixture \in Invoices \cup Receipts /\ run.document.origin = "server_original"
    BY <1>1, DocumentIs
<1>3. PICK words \in Words, others \in Words :
          /\ words.total # others.total /\ words.text # others.text
          /\ run' = [run EXCEPT
                !.status = "publishing",
                !.outcome = DecideOutcome("synthetic",
                    {Compared(ReplayedClaim(key, fixture, words),
                                Evaluated(ReplayedClaim(key, fixture, words), FALSE, PagesOf(words)),
                                ReferenceOf(key, fixture, words, others)) : key \in fixture.fields}),
                !.action = ActionStatus(DecideOutcome("synthetic",
                    {Compared(ReplayedClaim(key, fixture, words),
                                Evaluated(ReplayedClaim(key, fixture, words), FALSE, PagesOf(words)),
                                ReferenceOf(key, fixture, words, others)) : key \in fixture.fields}),
                    fixture.expected, FALSE, run.document.origin),
                !.earned = \A key \in fixture.fields :
                               Backed(ReplayedClaim(key, fixture, words), PagesOf(words),
                                        ReferenceOf(key, fixture, words, others))]
    BY DEF Replay
<1> DEFINE claim == [key \in fixture.fields |-> ReplayedClaim(key, fixture, words)]
           reference == [key \in fixture.fields |->
                            ReferenceOf(key, fixture, words, others)]
           outcome == DecideOutcome("synthetic",
                          {Compared(claim[key], Evaluated(claim[key], FALSE, PagesOf(words)),
                                      reference[key]) : key \in fixture.fields})
           earned == \A key \in fixture.fields : Backed(claim[key], PagesOf(words), reference[key])
           status == ActionStatus(outcome, fixture.expected, FALSE, run.document.origin)
<1>4. {Compared(ReplayedClaim(key, fixture, words),
                  Evaluated(ReplayedClaim(key, fixture, words), FALSE, PagesOf(words)),
                  ReferenceOf(key, fixture, words, others)) : key \in fixture.fields}
      = {Compared(claim[key], Evaluated(claim[key], FALSE, PagesOf(words)), reference[key]) :
            key \in fixture.fields}
    OBVIOUS
<1>5. (\A key \in fixture.fields :
           Backed(ReplayedClaim(key, fixture, words), PagesOf(words),
                    ReferenceOf(key, fixture, words, others)))
      = earned
    OBVIOUS
<1>6. run' = [run EXCEPT !.status = "publishing", !.outcome = outcome, !.action = status,
                         !.earned = earned]
    BY <1>3, <1>4, <1>5
<1>7. /\ outcome = fixture.expected
      /\ fixture.expected \in Positive => earned
  <2> HIDE DEF fixture
  <2>1. Replayed(fixture, words, others, claim, reference)
    BY DEF Replayed
  <2> HIDE DEF claim, reference
  <2> DEFINE required == FALSE
             pages == PagesOf(words)
             F == {Compared(claim[key], Evaluated(claim[key], required, pages), reference[key]) :
                      key \in fixture.fields}
  <2>2. FieldsOf(F, fixture.fields, claim, required, pages, reference)
    BY DEF FieldsOf
  <2>3. pages = PagesOf(words) /\ outcome = DecideOutcome("synthetic", F)
        /\ earned = \A key \in fixture.fields : Backed(claim[key], pages, reference[key])
    OBVIOUS
  <2> HIDE DEF required, pages, F, outcome, earned
  <2>4. /\ DecideOutcome("synthetic", F) = fixture.expected
        /\ fixture.expected \in Positive =>
               \A key \in fixture.fields : Backed(claim[key], pages, reference[key])
    <3>1. fixture \in Invoices \cup Receipts
      BY <1>2
    <3>2. /\ words \in Words /\ others \in Words
          /\ words.total # others.total /\ words.text # others.text
      BY <1>3
    <3>3. pages = PagesOf(words)
      BY <2>3
    <3> QED
      BY <3>1, <3>2, <3>3, <2>1, <2>2, ReplayedOutcome
  <2> QED
    BY <2>3, <2>4
<1>8. fixture.expected \in {"clear", "incomplete", "needs_review"}
    BY <1>2, SampleTable
<1>9. status \in {"ready", "needs_review", "blocked"} /\ earned \in BOOLEAN
    BY ActionIs
<1>10. status = FixtureStatus(outcome)
  <2> HIDE DEF outcome, fixture
  <2>1. status = ActionStatus(fixture.expected, fixture.expected, FALSE, "server_original")
    BY <1>2, <1>7
  <2> QED
    BY <1>7, <1>8, <2>1, SampleAction
<1>11. status = ActionStatus(outcome, fixture.expected, FALSE, run.document.origin)
    OBVIOUS
<1>12. outcome \in Outcome /\ run.guarded = FALSE
    BY <1>1, OutcomeIs DEF ReviewInv, RunInv
<1> HIDE DEF outcome, status, earned, claim, reference
<1>13. /\ run' \in [document : Document, saved : BOOLEAN, told : BOOLEAN, guarded : BOOLEAN,
                    status : {"deciding", "publishing", "completed", "failed", "gone"},
                    outcome : Outcome \cup {Null}, earned : BOOLEAN,
                    action : {"none", "ready", "needs_review", "blocked"}]
       /\ run'.document = run.document /\ run'.status = "publishing" /\ run'.outcome = outcome
       /\ run'.guarded = FALSE /\ run'.action = status /\ run'.earned = earned
       /\ run'.told = run.told /\ run'.saved = run.saved
    BY <1>1, <1>6, <1>9, <1>12
<1>14. run'.action = ActionStatus(run'.outcome, run'.document.fixture.expected, run'.guarded,
                                    run'.document.origin)
    BY <1>11, <1>13
<1>15. ReplayIsExpected'
    BY <1>7, <1>10, <1>13 DEF ReplayIsExpected
<1>16. RunInv'
    BY <1>1, <1>7, <1>12, <1>13, <1>14, <1>15 DEF RunInv, RunType
<1>17. PageInv'
    BY <1>1, Untold DEF ReviewInv
<1> QED
    BY <1>16, <1>17 DEF ReviewInv

\* What is decided is stored, or the executor fails, or the run goes.
LEMMA SaveKeeps == ASSUME ReviewInv, Save PROVE ReviewInv'
<1>1. /\ run.status = "publishing" /\ UNCHANGED <<view, request, events, answer>>
      /\ run \in [document : Document, saved : BOOLEAN, told : BOOLEAN, guarded : BOOLEAN,
                  status : {"deciding", "publishing", "completed", "failed", "gone"},
                  outcome : Outcome \cup {Null}, earned : BOOLEAN,
                  action : {"none", "ready", "needs_review", "blocked"}]
      /\ ~ run.told
    BY DEF Save, ReviewInv, RunInv, RunType
<1>2. PICK lost \in BOOLEAN :
          run' = [run EXCEPT !.status = "completed", !.saved = TRUE, !.told = ~ lost]
    BY DEF Save
<1>3. (~ lost) \in BOOLEAN
    OBVIOUS
<1>4. /\ run' \in [document : Document, saved : BOOLEAN, told : BOOLEAN, guarded : BOOLEAN,
                   status : {"deciding", "publishing", "completed", "failed", "gone"},
                   outcome : Outcome \cup {Null}, earned : BOOLEAN,
                   action : {"none", "ready", "needs_review", "blocked"}]
      /\ run'.document = run.document /\ run'.status = "completed" /\ run'.outcome = run.outcome
      /\ run'.guarded = run.guarded /\ run'.action = run.action /\ run'.earned = run.earned
      /\ run'.saved = TRUE
    BY <1>1, <1>2, <1>3
<1>5. RunInv'
    BY <1>1, <1>4 DEF ReviewInv, RunInv, RunType, ReplayIsExpected
<1>6. PageInv'
    BY <1>1, Untold DEF ReviewInv
<1> QED
    BY <1>5, <1>6 DEF ReviewInv

LEMMA MarkFailedKeeps == ASSUME ReviewInv, MarkFailed PROVE ReviewInv'
<1>1. /\ ~ run.told /\ UNCHANGED <<view, request, events, answer>>
      /\ run \in [document : Document, saved : BOOLEAN, told : BOOLEAN, guarded : BOOLEAN,
                  status : {"deciding", "publishing", "completed", "failed", "gone"},
                  outcome : Outcome \cup {Null}, earned : BOOLEAN,
                  action : {"none", "ready", "needs_review", "blocked"}]
      /\ run' = [run EXCEPT !.status = "failed", !.told = TRUE]
    BY DEF MarkFailed, ReviewInv, RunInv, RunType
<1>2. /\ run' \in [document : Document, saved : BOOLEAN, told : BOOLEAN, guarded : BOOLEAN,
                   status : {"deciding", "publishing", "completed", "failed", "gone"},
                   outcome : Outcome \cup {Null}, earned : BOOLEAN,
                   action : {"none", "ready", "needs_review", "blocked"}]
      /\ run'.document = run.document /\ run'.status = "failed" /\ run'.outcome = run.outcome
      /\ run'.guarded = run.guarded /\ run'.action = run.action /\ run'.earned = run.earned
      /\ run'.saved = run.saved
    BY <1>1
<1>3. RunInv'
    BY <1>1, <1>2 DEF ReviewInv, RunInv, RunType, ReplayIsExpected
<1>4. PageInv'
    BY <1>1, Untold DEF ReviewInv
<1> QED
    BY <1>3, <1>4 DEF ReviewInv

LEMMA VanishKeeps == ASSUME ReviewInv, Vanish PROVE ReviewInv'
<1>1. /\ run.told /\ UNCHANGED <<view, request, answer>> /\ events' = {}
      /\ run \in [document : Document, saved : BOOLEAN, told : BOOLEAN, guarded : BOOLEAN,
                  status : {"deciding", "publishing", "completed", "failed", "gone"},
                  outcome : Outcome \cup {Null}, earned : BOOLEAN,
                  action : {"none", "ready", "needs_review", "blocked"}]
      /\ run' = [run EXCEPT !.status = "gone"]
    BY DEF Vanish, ReviewInv, RunInv, RunType
<1>2. /\ run' \in [document : Document, saved : BOOLEAN, told : BOOLEAN, guarded : BOOLEAN,
                   status : {"deciding", "publishing", "completed", "failed", "gone"},
                   outcome : Outcome \cup {Null}, earned : BOOLEAN,
                   action : {"none", "ready", "needs_review", "blocked"}]
      /\ run'.document = run.document /\ run'.status = "gone" /\ run'.outcome = run.outcome
      /\ run'.guarded = run.guarded /\ run'.action = run.action /\ run'.earned = run.earned
      /\ run'.saved = run.saved /\ run'.told = run.told
    BY <1>1
<1>3. RunInv'
    BY <1>1, <1>2 DEF ReviewInv, RunInv, RunType, ReplayIsExpected
<1>4. PageInv'
    BY <1>1, <1>2 DEF ReviewInv, PageInv, Postable, RoleOf, HandoffIsEarned
<1> QED
    BY <1>3, <1>4 DEF ReviewInv

-----------------------------------------------------------------------------
(* Review: the page and the handlers                                        *)

\* The page learns what is public.
LEMMA LoadKeeps == ASSUME ReviewInv, LoadRun PROVE ReviewInv'
<1>1. run.told /\ view' = Public /\ UNCHANGED <<run, request, events, answer>>
    BY DEF LoadRun
<1>2. view'.outcome \in Outcome \cup {Null}
    BY <1>1 DEF Public, ReviewInv, RunInv, RunType
<1>3. RunInv'
    BY <1>1, RunStays DEF ReviewInv
<1>4. PageInv'
    BY <1>1, <1>2 DEF ReviewInv, PageInv, Postable, RoleOf, HandoffIsEarned
<1> QED
    BY <1>3, <1>4 DEF ReviewInv

\* A request is made.
LEMMA RequestKeeps ==
    ASSUME ReviewInv, UNCHANGED <<run, view, events>>, run.told, answer' = "none",
           NEW a \in ActionType, NEW role \in {NoRole, "business", "generic"},
           NEW route \in {"actions", "stage"},
           route = "stage" => a = Approve /\ role = NoRole,
           request' = [at |-> "read", action |-> a, role |-> role, route |-> route]
    PROVE  ReviewInv'
<1>1. RunInv'
    BY RunStays DEF ReviewInv
<1>2. /\ request' \in [at : {"none", "read", "insert"}, action : ActionType,
                       role : {NoRole, "business", "generic"}, route : {"actions", "stage"}]
      /\ request'.at = "read" /\ request'.action = a /\ request'.role = role
      /\ request'.route = route
    OBVIOUS
<1>3. PageInv'
    BY <1>2 DEF ReviewInv, PageInv, Postable, RoleOf, HandoffIsEarned
<1> QED
    BY <1>1, <1>3 DEF ReviewInv

\* What may be done is an action.
LEMMA AllowedAre ==
    ASSUME NEW status, NEW outcome, NEW guarded, NEW origin
    PROVE  Allowed(status, outcome, guarded, origin) \subseteq ActionType
BY DEF Allowed, ForOutcome, ActionType, Approve

LEMMA ClickKeeps == ASSUME ReviewInv, Click PROVE ReviewInv'
<1>1. /\ view.status # "none" /\ answer' = "none" /\ UNCHANGED <<run, view, events>>
    BY DEF Click
<1>2. PICK a \in Controls(view) :
          \E role \in IF NeedsRole(a) THEN Roles(run.document.family) ELSE {NoRole} :
              request' = [NoRequest EXCEPT !.at = "read", !.action = a, !.role = role]
    BY DEF Click
<1>3. PICK role \in IF NeedsRole(a) THEN Roles(run.document.family) ELSE {NoRole} :
          request' = [NoRequest EXCEPT !.at = "read", !.action = a, !.role = role]
    BY <1>2
<1>4. a \in ActionType
    BY <1>2, AllowedAre DEF Controls
<1>5. role \in {NoRole, "business", "generic"}
    BY <1>3 DEF Roles
<1>6. request' = [at |-> "read", action |-> a, role |-> role, route |-> "actions"]
    BY <1>3 DEF NoRequest
<1>7. run.told
    BY <1>1 DEF ReviewInv, PageInv
<1> QED
    BY <1>1, <1>4, <1>5, <1>6, <1>7, RequestKeeps

LEMMA SendKeeps ==
    ASSUME ReviewInv, NEW a \in ActionType, NEW role \in {NoRole, "business", "generic"},
           NEW route \in {"actions", "stage"}, Send(a, role, route)
    PROVE  ReviewInv'
BY RequestKeeps DEF Send

\* A request is answered without an event.
LEMMA AnswerKeeps ==
    ASSUME ReviewInv, UNCHANGED <<run, view, events>>,
           NEW text \in {"none", "denied", "gone", "unavailable", "not_allowed", "role_not_allowed",
                         "blocked", "already_created", "created"}, Answer(text)
    PROVE  ReviewInv'
<1>1. RunInv'
    BY RunStays DEF ReviewInv
<1>2. /\ answer' = text
      /\ request' = [at |-> "none", action |-> Approve, role |-> NoRole, route |-> "actions"]
    BY DEF Answer, NoRequest
<1>3. Approve \in ActionType
    BY DEF ActionType
<1>4. /\ request' \in [at : {"none", "read", "insert"}, action : ActionType,
                       role : {NoRole, "business", "generic"}, route : {"actions", "stage"}]
      /\ request'.at = "none"
    BY <1>2, <1>3
<1>5. PageInv'
    BY <1>2, <1>4 DEF ReviewInv, PageInv, Postable, RoleOf, HandoffIsEarned
<1> QED
    BY <1>1, <1>5 DEF ReviewInv

\* What a handler lets through: a handoff only of a run that may be posted.
LEMMA ApprovedIsPostable ==
    ASSUME ReviewInv, NEW v, v = Public,
           Approve \in Allowed(v.status, v.outcome, v.guarded, v.origin)
    PROVE  Postable
<1>1. v = [status |-> run.status, outcome |-> IF run.saved THEN run.outcome ELSE Null,
           guarded |-> run.saved /\ run.guarded, origin |-> run.document.origin]
    BY DEF Public
<1>2. ~ v.guarded /\ v.status = "completed" /\ v.outcome # Null
    BY DEF Allowed, Approve
<1>3. ~ OriginReview(v.outcome, v.origin) /\ Approve \in ForOutcome(v.outcome)
    BY <1>2 DEF Allowed, Approve
<1>4. v.outcome \in Positive
    BY <1>3 DEF ForOutcome, Approve
<1>5. run.saved /\ v.outcome = run.outcome /\ v.origin = run.document.origin
    BY <1>1, <1>2
<1>6. ~ run.guarded
  <2>1. v.guarded = (run.saved /\ run.guarded)
    BY <1>1
  <2>2. run.guarded \in BOOLEAN
    BY DEF ReviewInv, RunInv, RunType
  <2> QED
    BY <1>2, <1>5, <2>1, <2>2
<1> QED
    BY <1>3, <1>4, <1>5, <1>6 DEF Postable, OriginReview

LEMMA ReadKeeps ==
    ASSUME ReviewInv, Read
    PROVE  ReviewInv'
<1> DEFINE refused == Refused(request.action, request.role, request.route, Public)
<1>1. /\ request.at = "read" /\ UNCHANGED <<run, view, events>>
      /\ \/ Answer("denied")
         \/ refused # "none" /\ Answer(refused)
         \/ refused = "none" /\ request' = [request EXCEPT !.at = "insert"] /\ UNCHANGED answer
    BY DEF Read
<1>2. CASE Answer("denied")
    BY <1>1, <1>2, AnswerKeeps
<1>3. CASE refused # "none" /\ Answer(refused)
  <2>1. refused \in {"none", "denied", "gone", "unavailable", "not_allowed", "role_not_allowed",
                     "blocked", "already_created", "created"}
    <3>1. RefusedStage(Public) \in {"none", "gone", "unavailable", "blocked"}
      BY DEF RefusedStage
    <3>2. RefusedAction(request.action, request.role, Public) \in
              {"none", "gone", "unavailable", "not_allowed", "role_not_allowed"}
      <4>1. Public.status \in {"deciding", "publishing", "completed", "failed", "gone"}
        BY DEF Public, ReviewInv, RunInv, RunType
      <4> QED
        BY <4>1 DEF RefusedAction
    <3> QED
      BY <3>1, <3>2 DEF Refused
  <2> HIDE DEF refused
  <2> QED
    BY <1>1, <1>3, <2>1, AnswerKeeps
<1>4. CASE refused = "none" /\ request' = [request EXCEPT !.at = "insert"] /\ UNCHANGED answer
  <2> DEFINE v == Public
  <2>1. v.status \in {"deciding", "publishing", "completed", "failed", "gone"}
    BY DEF Public, ReviewInv, RunInv, RunType
  <2>2. request \in [at : {"none", "read", "insert"}, action : ActionType,
                     role : {NoRole, "business", "generic"}, route : {"actions", "stage"}]
        /\ (request.route = "stage" => request.action = Approve /\ request.role = NoRole)
    BY <1>1 DEF ReviewInv, PageInv
  <2>3. request.action \in Allowed(v.status, v.outcome, v.guarded, v.origin)
        /\ RoleOf(request.action, request.role)
    <3> HIDE DEF v
    <3>1. CASE request.route = "stage"
      <4>1. RefusedStage(v) = "none"
        BY <1>4, <3>1 DEF Refused, v
      <4>2. Approve \in Allowed(v.status, v.outcome, v.guarded, v.origin)
        BY <4>1 DEF RefusedStage
      <4>3. ~ NeedsRole(Approve)
        BY DEF NeedsRole, Approve
      <4> QED
        BY <2>2, <3>1, <4>2, <4>3 DEF RoleOf
    <3>2. CASE request.route # "stage"
      <4>1. RefusedAction(request.action, request.role, v) = "none"
        BY <1>4, <3>2 DEF Refused, v
      <4>2. /\ request.action \in Allowed(v.status, v.outcome, v.guarded, v.origin)
            /\ RoleAllowed(request.action, run.document.family, request.role)
        BY <2>1, <4>1 DEF RefusedAction
      <4> QED
        BY <4>2 DEF RoleAllowed, RoleOf
    <3> QED
      BY <3>1, <3>2
  <2>4. request.action = Approve => Postable
    BY <2>3, ApprovedIsPostable
  <2>5. /\ request' \in [at : {"none", "read", "insert"}, action : ActionType,
                         role : {NoRole, "business", "generic"}, route : {"actions", "stage"}]
        /\ request'.at = "insert" /\ request'.action = request.action
        /\ request'.role = request.role
    BY <1>4, <2>2
  <2>6. RunInv'
    BY <1>1, RunStays DEF ReviewInv
  <2>7. run.told
    BY <1>1 DEF ReviewInv, PageInv
  <2>8. PageInv'
    BY <1>1, <1>4, <2>3, <2>4, <2>5, <2>7 DEF ReviewInv, PageInv, Postable, RoleOf, HandoffIsEarned
  <2> QED
    BY <2>6, <2>8 DEF ReviewInv
<1> QED
    BY <1>1, <1>2, <1>3, <1>4

\* The repository stores an event, or refuses one.
LEMMA InsertKeeps ==
    ASSUME ReviewInv, Insert
    PROVE  ReviewInv'
<1> DEFINE refused == Insertable(request.action)
           event == [action |-> request.action, role |-> request.role]
<1>1. /\ request.at = "insert" /\ UNCHANGED <<run, view>>
      /\ \/ refused # "none" /\ Answer(refused) /\ UNCHANGED events
         \/ /\ refused = "none" /\ events' = events \cup {event}
            /\ Answer(IF event \in events THEN "already_created" ELSE "created")
    BY DEF Insert
<1>2. refused \in {"none", "gone", "unavailable"}
    BY DEF Insertable
<1>3. refused = "none" /\ request.action # "retry_processing" => run.status = "completed"
    BY DEF Insertable, ReviewInv, RunInv, RunType
<1>4. CASE refused # "none" /\ Answer(refused) /\ UNCHANGED events
  <2> HIDE DEF refused
  <2> QED
    BY <1>1, <1>2, <1>4, AnswerKeeps
<1>5. CASE /\ refused = "none" /\ events' = events \cup {event}
           /\ Answer(IF event \in events THEN "already_created" ELSE "created")
  <2>1. /\ answer' \in {"already_created", "created"}
        /\ request' = [at |-> "none", action |-> Approve, role |-> NoRole, route |-> "actions"]
    BY <1>5 DEF Answer, NoRequest
  <2>2. Approve \in ActionType /\ Approve # "retry_processing"
    BY DEF ActionType, Approve
  <2>3. /\ request' \in [at : {"none", "read", "insert"}, action : ActionType,
                         role : {NoRole, "business", "generic"}, route : {"actions", "stage"}]
        /\ request'.at = "none"
    BY <2>1, <2>2
  <2>4. /\ request.action \in ActionType /\ RoleOf(request.action, request.role) /\ run.told
        /\ request.action = Approve => Postable
    BY <1>1 DEF ReviewInv, PageInv
  <2>5. event.action = request.action /\ event.role = request.role
    OBVIOUS
  <2>6. request.action = Approve =>
            /\ run.status = "completed" /\ run.earned /\ ~ run.guarded
            /\ run.document.origin # "unverified"
    BY <1>3, <1>5, <2>2, <2>4 DEF ReviewInv, RunInv, Postable
  <2> HIDE DEF event, refused
  <2>7. HandoffIsEarned'
    BY <1>1, <1>5, <2>5, <2>6 DEF ReviewInv, PageInv, HandoffIsEarned
  <2>8. \A e \in events' : e.action \in ActionType /\ RoleOf(e.action, e.role)
    BY <1>5, <2>4, <2>5 DEF ReviewInv, PageInv
  <2>9. PageInv'
    BY <1>1, <2>1, <2>3, <2>4, <2>7, <2>8 DEF ReviewInv, PageInv, Postable, RoleOf
  <2>10. RunInv'
    BY <1>1, RunStays DEF ReviewInv
  <2> QED
    BY <2>9, <2>10 DEF ReviewInv
<1> QED
    BY <1>1, <1>4, <1>5

-----------------------------------------------------------------------------
(* Review: the theorems                                                     *)

LEMMA ReviewKeeps ==
    ASSUME ReviewInv, [ReviewNext]_reviewVars
    PROVE  ReviewInv'
<1>1. CASE UNCHANGED reviewVars
  <2>1. UNCHANGED <<run, view, request, events, answer>>
    BY <1>1 DEF reviewVars
  <2>2. RunInv'
    BY <2>1, RunStays DEF ReviewInv
  <2>3. PageInv'
    BY <2>1 DEF ReviewInv, PageInv, Postable, RoleOf, HandoffIsEarned
  <2> QED
    BY <2>2, <2>3 DEF ReviewInv
<1>2. CASE Decide
    BY <1>2, DecideKeeps
<1>3. CASE Replay
    BY <1>3, ReplayKeeps
<1>4. CASE Save \/ MarkFailed \/ Vanish
    BY <1>4, SaveKeeps, MarkFailedKeeps, VanishKeeps
<1>5. CASE LoadRun \/ Click
    BY <1>5, LoadKeeps, ClickKeeps
<1>6. CASE \E a \in ActionType, role \in {NoRole, "business", "generic"},
              route \in {"actions", "stage"} : Send(a, role, route)
    BY <1>6, SendKeeps
<1>7. CASE Read \/ Insert
    BY <1>7, ReadKeeps, InsertKeeps
<1> QED
    BY <1>1, <1>2, <1>3, <1>4, <1>5, <1>6, <1>7 DEF ReviewNext

LEMMA ReviewAlways ==
    ReviewSpec => []ReviewInv
<1>1. ReviewInit => ReviewInv
    BY ReviewStarts
<1>2. ReviewInv /\ [ReviewNext]_reviewVars => ReviewInv'
    BY ReviewKeeps
<1> QED
    BY <1>1, <1>2, PTL DEF ReviewSpec

\* Every variable keeps its shape, and every stored event names a role its
\* document has, where its action needs one.
THEOREM ReviewTypeTheorem ==
    ReviewSpec => []ReviewTypeOK
<1>1. ReviewInv => ReviewTypeOK
    BY DEF ReviewInv, RunInv, RunType, PageInv, RoleOf, ReviewTypeOK
<1> QED
    BY <1>1, ReviewAlways, PTL

\* Whatever the provider claims and whichever route is asked, the event of a
\* posting handoff is stored only for a run every field of which its document
\* bears out, of a known origin and kind.
THEOREM HandoffTheorem ==
    ReviewSpec => []HandoffIsEarned
<1>1. ReviewInv => HandoffIsEarned
    BY DEF ReviewInv, PageInv
<1> QED
    BY <1>1, ReviewAlways, PTL

\* The samples come out as their table says, whatever the totals and the tokens
\* in them are, with the currency of every total.
THEOREM ReplayTheorem ==
    ReviewSpec => []ReplayIsExpected
<1>1. ReviewInv => ReplayIsExpected
    BY DEF ReviewInv, RunInv
<1> QED
    BY <1>1, ReviewAlways, PTL

\* What a page is told of a run that somebody was told of.
LEMMA PublicIs ==
    ASSUME ReviewInv
    PROVE  /\ Public.status = run.status /\ Public.origin = run.document.origin
           /\ run.saved => Public.outcome = run.outcome /\ Public.guarded = run.guarded
           /\ ~ run.saved => Public.outcome = Null /\ Public.guarded = FALSE
           /\ run.guarded \in BOOLEAN /\ run.saved \in BOOLEAN
           /\ run.saved => run.outcome \in Outcome
           /\ run.status = "completed" => run.saved
           /\ run.told => run.status \in {"completed", "failed", "gone"}
<1>1. run.guarded \in BOOLEAN /\ run.saved \in BOOLEAN
    BY DEF ReviewInv, RunInv, RunType
<1> QED
    BY <1>1 DEF Public, ReviewInv, RunInv, RunType

\* An action that is offered is served: it is allowed, a role can be chosen for
\* it, and the repository takes it.
LEMMA ServedIf ==
    ASSUME ReviewInv, NEW v, v = Public, run.status \in {"completed", "failed"},
           NEW a \in Allowed(v.status, v.outcome, v.guarded, v.origin),
           run.status = "completed" \/ a = "retry_processing",
           a = "prepare_email" => Previewable(v)
    PROVE  \E role \in {NoRole} \cup Roles(run.document.family) :
               RefusedAction(a, role, v) = "none" /\ Insertable(a) = "none"
<1>1. v.status = run.status
    BY PublicIs
<1>2. Insertable(a) = "none"
    BY DEF Insertable
<1>3. PICK role \in {NoRole} \cup Roles(run.document.family) :
          RoleAllowed(a, run.document.family, role)
    BY DEF RoleAllowed, Roles
<1>4. RefusedAction(a, role, v) = "none"
    BY <1>1, <1>3 DEF RefusedAction
<1> QED
    BY <1>2, <1>3, <1>4

\* What the page offers, by the state of the run.
LEMMA OfferedServed == ASSUME ReviewInv PROVE OfferedIsServed
<1> DEFINE v == Public
<1> SUFFICES ASSUME run.told, run.status # "gone",
                    ~ (run.status = "failed" /\ run.saved /\ run.guarded)
             PROVE  /\ \A a \in Controls(v) :
                           \E role \in {NoRole} \cup Roles(run.document.family) :
                               RefusedAction(a, role, v) = "none" /\ Insertable(a) = "none"
                    /\ Controls(v) = {} =>
                           run.status = "completed"
                           /\ OriginReview(run.outcome, run.document.origin)
    BY DEF OfferedIsServed
<1>1. /\ v.status = run.status /\ v.origin = run.document.origin
      /\ run.saved => v.outcome = run.outcome /\ v.guarded = run.guarded
      /\ ~ run.saved => v.outcome = Null /\ v.guarded = FALSE
      /\ run.guarded \in BOOLEAN /\ run.saved \in BOOLEAN
      /\ run.saved => run.outcome \in Outcome
      /\ run.status = "completed" => run.saved
      /\ run.status \in {"completed", "failed"}
    BY PublicIs
<1>2. Controls(v) \subseteq Allowed(v.status, v.outcome, v.guarded, v.origin)
    BY DEF Controls
<1>3. v = Public
    OBVIOUS
<1> HIDE DEF v
<1>4. CASE run.status = "failed"
  <2>1. ~ v.guarded /\ v.status = "failed"
    BY <1>1, <1>4
  <2>2. Controls(v) = {"retry_processing"}
    BY <2>1 DEF Controls, Allowed
  <2> QED
    BY <1>2, <1>3, <1>4, <2>2, ServedIf
<1>5. CASE run.status = "completed" /\ run.guarded
  <2>1. v.guarded /\ v.status = "completed"
    BY <1>1, <1>5
  <2>2. Controls(v) = {"replace_document"}
    BY <2>1 DEF Controls, Allowed
  <2> QED
    BY <1>2, <1>3, <1>5, <2>2, ServedIf
<1>6. CASE run.status = "completed" /\ ~ run.guarded
  <2>1. /\ ~ v.guarded /\ v.status = "completed" /\ v.outcome = run.outcome
        /\ run.saved /\ v.outcome # Null
    BY <1>1, <1>6, EvaluationAssumption
  <2>2. Previewable(v)
    BY <2>1 DEF Previewable
  <2>3. \A a \in Controls(v) :
            \E role \in {NoRole} \cup Roles(run.document.family) :
                RefusedAction(a, role, v) = "none" /\ Insertable(a) = "none"
    BY <1>2, <1>3, <1>6, <2>2, ServedIf
  <2>4. ~ OriginReview(v.outcome, v.origin) => Controls(v) # {}
    <3>1. ~ OriginReview(v.outcome, v.origin) => Controls(v) = ForOutcome(v.outcome)
      BY <2>1 DEF Controls, Allowed
    <3>2. ForOutcome(v.outcome) # {}
      BY DEF ForOutcome
    <3> QED
      BY <3>1, <3>2
  <2> QED
    BY <1>1, <1>6, <2>1, <2>3, <2>4
<1> QED
    BY <1>1, <1>4, <1>5, <1>6

\* A completed run is reviewed or ready.
LEMMA ReviewedReady == ASSUME ReviewInv PROVE ReviewedOrReady
<1> DEFINE v == Public
           open == Refused(Approve, NoRole, "actions", v) = "none"
           positive == /\ run.outcome \in Positive /\ ~ run.guarded
                       /\ ~ OriginReview(run.outcome, run.document.origin)
<1> SUFFICES ASSUME run.status = "completed"
             PROVE  /\ open <=> Refused(Approve, NoRole, "stage", v) = "none"
                    /\ open <=> /\ ~ run.guarded
                                /\ ~ HumanReview(run.outcome, run.document.origin)
                    /\ open => run.action # "blocked"
                    /\ run.guarded => run.action = "blocked"
    BY DEF ReviewedOrReady
<1>1. /\ v.status = "completed" /\ v.origin = run.document.origin /\ run.saved
      /\ v.outcome = run.outcome /\ v.guarded = run.guarded
      /\ run.guarded \in BOOLEAN /\ run.outcome \in Outcome
    BY PublicIs
<1>2. run.action = ActionStatus(run.outcome, run.document.fixture.expected, run.guarded,
                                  run.document.origin)
    BY <1>1 DEF ReviewInv, RunInv
<1>3. v = Public
    OBVIOUS
<1> HIDE DEF v
<1>4. Approve \in Allowed(v.status, v.outcome, v.guarded, v.origin) <=> positive
  <2>1. run.outcome # Null
    BY <1>1, EvaluationAssumption
  <2>2. Approve \in ForOutcome(run.outcome) <=> run.outcome \in Positive
    BY DEF ForOutcome, Approve, Positive, Negative
  <2> QED
    BY <1>1, <2>1, <2>2 DEF Allowed, Approve
<1>5. open <=> positive
  <2>1. RoleAllowed(Approve, run.document.family, NoRole)
    BY DEF RoleAllowed, NeedsRole, Approve
  <2>2. RefusedAction(Approve, NoRole, v) = "none" <=>
            Approve \in Allowed(v.status, v.outcome, v.guarded, v.origin)
    BY <1>1, <2>1 DEF RefusedAction, Approve
  <2> QED
    BY <1>4, <2>2 DEF Refused
<1>6. positive => run.action # "blocked"
  <2> SUFFICES ASSUME positive
               PROVE  run.action # "blocked"
    OBVIOUS
  <2>1. run.outcome \in {"clear", "evidence_consistent"}
    BY DEF Positive
  <2> QED
    BY <1>2, <2>1 DEF ActionStatus, FixtureStatus, Negative
<1>7. Refused(Approve, NoRole, "stage", v) = "none" <=> positive
  <2>1. RefusedStage(v) = "none" <=>
            /\ run.action # "blocked"
            /\ Approve \in Allowed(v.status, v.outcome, v.guarded, v.origin)
    BY <1>1 DEF RefusedStage
  <2> QED
    BY <1>4, <1>6, <2>1 DEF Refused
<1>8. positive <=> ~ run.guarded /\ ~ HumanReview(run.outcome, run.document.origin)
    BY DEF HumanReview
<1>9. run.guarded => run.action = "blocked"
    BY <1>2 DEF ActionStatus
<1> QED
    BY <1>5, <1>6, <1>7, <1>8, <1>9

\* The controls of the page, the table of the handlers and the check of the
\* repository agree: what is offered for a run as it is, is served, unless the
\* run is a guarded one that failed after its results were stored.
THEOREM OfferedTheorem ==
    ReviewSpec => []OfferedIsServed
<1>1. ReviewInv => OfferedIsServed
    BY OfferedServed
<1> QED
    BY <1>1, ReviewAlways, PTL

\* A completed run is counted for human review or open to a handoff, by both
\* routes alike, and a guarded one is blocked.
THEOREM ReviewedTheorem ==
    ReviewSpec => []ReviewedOrReady
<1>1. ReviewInv => ReviewedOrReady
    BY ReviewedReady
<1> QED
    BY <1>1, ReviewAlways, PTL

=============================================================================
