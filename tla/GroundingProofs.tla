--------------------------- MODULE GroundingProofs ---------------------------
(* What groundDocument releases, and whom it tells of an abort, for        *)
(* documents of every number of pages.                                     *)
EXTENDS Grounding, FiniteSetTheorems, WellFoundedInduction, TLAPS

-----------------------------------------------------------------------------
(* The inductive invariant: where the extraction is, and what is open then.  *)

Failure == {"none", "AbortError", "error"}

\* A record with the fields of op.
IsOp(o) ==
    o = [at |-> o.at, failure |-> o.failure, rendered |-> o.rendered,
         read |-> o.read, pages |-> o.pages]

WorkerType ==
    [life : {"none", "starting", "doomed", "ready", "ended"}, late : BOOLEAN]

\* The variables that the release depends on.
Shape ==
    /\ IsOp(op) /\ op.failure \in Failure
    /\ call \in {"open", "AbortError", "timeout", "pages", "error"}
    /\ pdf \in {"none", "open", "destroyed"}
    /\ worker \in WorkerType

\* A call whose outcome is that of its extraction ended with it; a PDF that is
\* open belongs to an open call that the extraction has not left; an image has none.
PdfInv ==
    /\ call \in {"pages", "error"} => op.at = "done"
    /\ pdf = "open" => call = "open" /\ op.at # "done" /\ doc.kind = "pdf"
    /\ op.at = "import" => pdf = "none"
    /\ doc.kind # "pdf" => op.at \in {"start", "recognise", "terminate", "done"}

\* A worker that was started in time is waited for, at work, or will be ended.
WorkerInv ==
    /\ op.at \in {"import", "load", "extract", "render"} => worker.life = "none"
    /\ op.at = "recognise" => worker.life = "ready"
    /\ op.at = "terminate" => worker.life \in {"ready", "ended"}
    /\ op.at = "start" => worker.life \in {"none", "starting"}
    /\ op.at \in {"cleanup", "done"} /\ ~ worker.late =>
           worker.life \in {"none", "doomed", "ended"}

IInv == Shape /\ PdfInv /\ WorkerInv

\* Nothing is open initially but the worker of an image, which is waited for.
LEMMA InitHolds == Init => IInv
<1> SUFFICES ASSUME Init PROVE IInv
    OBVIOUS
<1>1. Shape
    BY DEF Init, Shape, IsOp, Failure, WorkerType
<1>2. PdfInv /\ WorkerInv
    BY DEF Init, PdfInv, WorkerInv
<1> QED
    BY <1>1, <1>2 DEF IInv

\* The invariant says what is released.
LEMMA Released == IInv => NothingIsHeld
BY DEF IInv, Shape, PdfInv, WorkerInv, WorkerType, NothingIsHeld

-----------------------------------------------------------------------------
(* Leaving the extraction.                                                  *)

\* Where the finally blocks lead, and how the call ends if they are over.
LEMMA LeaveGoes ==
    ASSUME Shape, PdfInv, NEW o, IsOp(o), NEW failure \in Failure, NEW owned \in BOOLEAN,
           Leave(o, failure, owned), op.at # "done"
    PROVE  /\ IsOp(op') /\ op'.failure \in Failure
           /\ call' \in {"open", "AbortError", "timeout", "pages", "error"}
           /\ op'.at = IF owned THEN "terminate" ELSE IF doc.kind = "pdf" THEN "cleanup" ELSE "done"
           /\ op'.at # "done" => call' = call
           /\ call' \in {"pages", "error"} => op'.at = "done"
           /\ call # "open" => call' = call
<1>1. op' = [o EXCEPT !.at = IF owned THEN "terminate"
                             ELSE IF doc.kind = "pdf" THEN "cleanup" ELSE "done",
                      !.failure = failure]
    BY DEF Leave
<1>2. /\ IsOp(op') /\ op'.failure = failure
      /\ op'.at = IF owned THEN "terminate" ELSE IF doc.kind = "pdf" THEN "cleanup" ELSE "done"
    BY <1>1 DEF IsOp
<1>3. call' = IF op'.at = "done" THEN Settled(failure) ELSE call
    BY <1>2 DEF Leave
<1>4. Settled(failure) \in {"open", "AbortError", "timeout", "pages", "error"}
      /\ (call # "open" => Settled(failure) = call)
    BY DEF Settled, Shape, Failure
<1> QED
    BY <1>2, <1>3, <1>4 DEF Shape, PdfInv

\* The two steps an extraction takes: it awaits the next call, or it leaves.
LEMMA AwaitGoes ==
    ASSUME NEW o, IsOp(o), o.failure \in Failure, NEW at, Await(o, at)
    PROVE  IsOp(op') /\ op'.failure \in Failure /\ op'.at = at /\ call' = call
BY DEF Await, Stay, IsOp

\* Leaving keeps the invariant if the worker is left to the finally block that
\* owns it, or is nobody's concern any more.
LEMMA LeaveKeeps ==
    ASSUME IInv, NEW o, IsOp(o), NEW failure \in Failure, NEW owned \in BOOLEAN,
           Leave(o, failure, owned), op.at # "done", op.at # "import", UNCHANGED <<doc, pdf>>,
           worker' \in WorkerType,
           owned => worker'.life \in {"ready", "ended"},
           ~ owned => worker'.late \/ worker'.life \in {"none", "doomed", "ended"}
    PROVE  IInv'
<1>1. /\ IsOp(op') /\ op'.failure \in Failure
      /\ call' \in {"open", "AbortError", "timeout", "pages", "error"}
      /\ op'.at = IF owned THEN "terminate" ELSE IF doc.kind = "pdf" THEN "cleanup" ELSE "done"
      /\ op'.at # "done" => call' = call
      /\ call' \in {"pages", "error"} => op'.at = "done"
    BY LeaveGoes DEF IInv
<1>2. Shape'
    BY <1>1 DEF IInv, Shape, WorkerType
<1>3. PdfInv'
    BY <1>1 DEF IInv, PdfInv
<1>4. WorkerInv'
    BY <1>1 DEF IInv, WorkerInv
<1> QED
    BY <1>2, <1>3, <1>4 DEF IInv

\* So does awaiting the next call with the worker that belongs to it.
LEMMA AwaitKeeps ==
    ASSUME IInv, NEW o, IsOp(o), o.failure \in Failure,
           NEW at \in {"extract", "render", "start", "recognise"},
           Await(o, at), op.at # "done", op.at # "import", UNCHANGED <<doc, pdf>>,
           worker' \in WorkerType,
           at \in {"extract", "render"} => worker'.life = "none" /\ doc.kind = "pdf",
           at = "start" => worker'.life \in {"none", "starting"},
           at = "recognise" => worker'.life = "ready"
    PROVE  IInv'
<1>1. IsOp(op') /\ op'.failure \in Failure /\ op'.at = at /\ call' = call
    BY AwaitGoes
<1>2. call \notin {"pages", "error"}
    BY DEF IInv, PdfInv
<1>3. Shape'
    BY <1>1 DEF IInv, Shape, WorkerType
<1>4. PdfInv'
    BY <1>1, <1>2 DEF IInv, PdfInv
<1>5. WorkerInv'
    BY <1>1 DEF IInv, WorkerInv
<1> QED
    BY <1>3, <1>4, <1>5 DEF IInv

\* Appending to a list of op, or setting its pages, leaves it what it is.
LEMMA OpUpdates ==
    ASSUME NEW o, IsOp(o), o.failure \in Failure, NEW x
    PROVE  /\ IsOp([o EXCEPT !.rendered = x]) /\ [o EXCEPT !.rendered = x].failure \in Failure
           /\ IsOp([o EXCEPT !.read = x]) /\ [o EXCEPT !.read = x].failure \in Failure
           /\ IsOp([o EXCEPT !.pages = x]) /\ [o EXCEPT !.pages = x].failure \in Failure
BY DEF IsOp

-----------------------------------------------------------------------------
(* The steps of the extraction.                                             *)

\* Before the loading task exists nothing is open.
LEMMA ImportKeeps == IInv /\ Import => IInv'
<1> SUFFICES ASSUME IInv, Import PROVE IInv'
    OBVIOUS
<1>1. pdf = "none" /\ worker.life = "none" /\ doc.kind = "pdf" /\ worker' = worker /\ doc' = doc
    BY DEF Import, IInv, PdfInv, WorkerInv
<1>2. ASSUME NEW failure \in Failure, pdf' = pdf, call' = Settled(failure),
             op' = [op EXCEPT !.at = "done", !.failure = failure]
      PROVE  IInv'
  <2>1. IsOp(op') /\ op'.at = "done" /\ op'.failure \in Failure
    BY <1>2 DEF IInv, Shape, IsOp
  <2>2. call' \in {"open", "AbortError", "timeout", "pages", "error"}
    BY <1>2 DEF IInv, Shape, Settled, Failure
  <2> QED
    BY <1>1, <1>2, <2>1, <2>2 DEF IInv, Shape, PdfInv, WorkerInv
<1>3. ASSUME ~ Aborted, Await(op, "load"), pdf' = "open"
      PROVE  IInv'
  <2>1. IsOp(op') /\ op'.at = "load" /\ op'.failure \in Failure /\ call' = call
    BY <1>3, AwaitGoes DEF IInv, Shape
  <2>2. call = "open"
    BY <1>3 DEF Aborted, IInv, Shape, PdfInv, Import
  <2> QED
    BY <1>1, <1>3, <2>1, <2>2 DEF IInv, Shape, PdfInv, WorkerInv
<1> QED
    BY <1>2, <1>3 DEF Import, Failure

\* Loading, extracting and refusing hold a PDF at most.
LEMMA PdfStepsKeep == IInv /\ (Load \/ Extract \/ Refuse) => IInv'
<1> SUFFICES ASSUME IInv, Load \/ Extract \/ Refuse PROVE IInv'
    OBVIOUS
<1>1. /\ op.at \in {"load", "extract", "start"} /\ worker.life = "none"
      /\ op.at # "start" => doc.kind = "pdf"
      /\ UNCHANGED <<doc, pdf, worker>> /\ worker' \in WorkerType
      /\ IsOp(op) /\ op.failure \in Failure
    BY DEF Load, Extract, Refuse, IInv, Shape, PdfInv, WorkerInv, WorkerType
<1>2. ASSUME NEW o, IsOp(o), NEW failure \in Failure, Leave(o, failure, FALSE)
      PROVE  IInv'
    BY <1>1, <1>2, LeaveKeeps
<1>3. ASSUME NEW at \in {"extract", "render"}, Checked(op, at, FALSE), op.at # "start"
      PROVE  IInv'
  <2>1. CASE Aborted
    BY <1>1, <1>2, <1>3, <2>1 DEF Checked, Failure
  <2>2. CASE ~ Aborted
    <3>1. Await(op, at)
      BY <1>3, <2>2 DEF Checked
    <3> QED
      BY <1>1, <1>3, <3>1, AwaitKeeps
  <2> QED
    BY <2>1, <2>2
<1>4. ASSUME NEW pages, Assembled(pages, FALSE)
      PROVE  IInv'
    BY <1>1, <1>2, <1>4, OpUpdates DEF Assembled, Failure
<1>5. ASSUME Fails(FALSE) PROVE IInv'
    BY <1>1, <1>2, <1>5 DEF Fails, Failure
<1> QED
    BY <1>1, <1>3, <1>4, <1>5 DEF Load, Extract, Refuse

\* The worker is started last; it is late if the signal aborted before.
LEMMA RenderKeeps == IInv /\ Render => IInv'
<1> SUFFICES ASSUME IInv, Render PROVE IInv'
    OBVIOUS
<1> DEFINE o == [op EXCEPT !.rendered = Append(@, VisualPages[Len(@) + 1])]
<1>1. /\ op.at = "render" /\ worker.life = "none" /\ doc.kind = "pdf"
      /\ UNCHANGED <<doc, pdf>> /\ worker \in WorkerType
      /\ IsOp(op) /\ op.failure \in Failure
    BY DEF Render, IInv, Shape, PdfInv, WorkerInv, WorkerType
<1>2. IsOp(o) /\ o.failure \in Failure
    BY <1>1, OpUpdates
<1> HIDE DEF o
<1>3. ASSUME Checked(o, "render", FALSE), UNCHANGED worker PROVE IInv'
  <2>1. CASE Aborted
    BY <1>1, <1>2, <1>3, <2>1, LeaveKeeps DEF Checked, Failure
  <2>2. CASE ~ Aborted
    BY <1>1, <1>2, <1>3, <2>2, AwaitKeeps DEF Checked
  <2> QED
    BY <2>1, <2>2
<1>4. ASSUME Checked(o, "start", FALSE), worker' = [life |-> "starting", late |-> Aborted]
      PROVE  IInv'
  <2>1. worker' \in WorkerType /\ worker'.life = "starting" /\ worker'.late = Aborted
    BY <1>4 DEF WorkerType, Aborted
  <2>2. CASE Aborted
    BY <1>1, <1>2, <1>4, <2>1, <2>2, LeaveKeeps DEF Checked, Failure
  <2>3. CASE ~ Aborted
    BY <1>1, <1>2, <1>4, <2>1, <2>3, AwaitKeeps DEF Checked
  <2> QED
    BY <2>2, <2>3
<1>5. ASSUME Fails(FALSE), UNCHANGED worker PROVE IInv'
    BY <1>1, <1>5, LeaveKeeps DEF Fails, Failure
<1> QED
    BY <1>3, <1>4, <1>5 DEF Render, o

\* A worker that nobody waits for any more ends, or was late.
LEMMA WorkerStartsKeeps == IInv /\ WorkerStarts => IInv'
<1> SUFFICES ASSUME IInv, WorkerStarts PROVE IInv'
    OBVIOUS
<1>1. /\ worker.life \in {"starting", "doomed"} /\ worker \in WorkerType
      /\ UNCHANGED <<doc, pdf>> /\ IsOp(op) /\ op.failure \in Failure
    BY DEF WorkerStarts, IInv, Shape, WorkerType
<1>2. PICK made \in BOOLEAN :
         /\ worker' = [worker EXCEPT !.life =
                           IF made /\ @ = "starting" THEN "ready" ELSE "ended"]
         /\ IF op.at = "start"
            THEN IF made THEN Checked(op, "recognise", TRUE) ELSE Fails(FALSE)
            ELSE UNCHANGED <<op, call>>
    BY DEF WorkerStarts
<1>3. /\ worker' \in WorkerType /\ worker'.late = worker.late
      /\ worker'.life = IF made /\ worker.life = "starting" THEN "ready" ELSE "ended"
    BY <1>1, <1>2 DEF WorkerType
<1>4. CASE op.at = "start"
  <2>1. worker.life = "starting"
    BY <1>1, <1>4 DEF IInv, WorkerInv
  <2>2. CASE ~ made
    BY <1>1, <1>2, <1>3, <1>4, <2>2, LeaveKeeps DEF Fails, Failure
  <2>3. CASE made /\ Aborted
    <3>1. Leave(op, "AbortError", TRUE)
      BY <1>2, <1>4, <2>3 DEF Checked
    <3> QED
      BY <1>1, <1>3, <1>4, <2>1, <2>3, <3>1, LeaveKeeps DEF Failure
  <2>4. CASE made /\ ~ Aborted
    <3>1. Await(op, "recognise")
      BY <1>2, <1>4, <2>4 DEF Checked
    <3> QED
      BY <1>1, <1>3, <1>4, <2>1, <2>4, <3>1, AwaitKeeps
  <2> QED
    BY <2>2, <2>3, <2>4
<1>5. CASE op.at # "start"
  <2>1. op' = op /\ call' = call
    BY <1>2, <1>5
  <2>2. Shape' /\ PdfInv'
    BY <1>1, <1>3, <2>1 DEF IInv, Shape, PdfInv, WorkerType
  <2>3. WorkerInv'
    BY <1>1, <1>3, <1>5, <2>1 DEF IInv, WorkerInv
  <2> QED
    BY <2>2, <2>3 DEF IInv
<1> QED
    BY <1>4, <1>5

\* The worker at work is left to the finally block, which then ends it.
LEMMA WorkStepsKeep == IInv /\ (Recognise \/ Terminate) => IInv'
<1> SUFFICES ASSUME IInv, Recognise \/ Terminate PROVE IInv'
    OBVIOUS
<1>1. /\ op.at \in {"recognise", "terminate"} /\ worker \in WorkerType
      /\ UNCHANGED <<doc, pdf>> /\ IsOp(op) /\ op.failure \in Failure
    BY DEF Recognise, Terminate, IInv, Shape, WorkerType
<1>2. CASE Recognise
  <2> DEFINE o == [op EXCEPT !.read = Append(@, Images[Len(@) + 1])]
  <2>1. /\ op.at = "recognise" /\ worker' = worker /\ worker.life = "ready"
    BY <1>2 DEF Recognise, IInv, WorkerInv
  <2>2. IsOp(o) /\ o.failure \in Failure
    BY <1>1, OpUpdates
  <2>3. Checked(o, "recognise", TRUE) \/ Leave(o, "none", TRUE) \/ Fails(TRUE)
    BY <1>2 DEF Recognise
  <2> HIDE DEF o
  <2>4. CASE Leave(o, "none", TRUE)
    BY <1>1, <2>1, <2>2, <2>4, LeaveKeeps DEF Failure
  <2>5. CASE Leave(o, "AbortError", TRUE)
    BY <1>1, <2>1, <2>2, <2>5, LeaveKeeps DEF Failure
  <2>6. CASE Fails(TRUE)
    BY <1>1, <2>1, <2>6, LeaveKeeps DEF Fails, Failure
  <2>7. CASE Await(o, "recognise")
    BY <1>1, <2>1, <2>2, <2>7, AwaitKeeps
  <2> QED
    BY <2>3, <2>4, <2>5, <2>6, <2>7 DEF Checked
<1>3. CASE Terminate
  <2>1. /\ op.at = "terminate" /\ worker'.life = "ended" /\ worker' \in WorkerType
    BY <1>1, <1>3 DEF Terminate, WorkerType
  <2>2. ASSUME NEW o, IsOp(o), NEW failure \in Failure, Leave(o, failure, FALSE)
        PROVE  IInv'
    BY <1>1, <2>1, <2>2, LeaveKeeps
  <2>3. ASSUME NEW pages, Assembled(pages, FALSE) PROVE IInv'
    BY <1>1, <2>2, <2>3, OpUpdates DEF Assembled, Failure
  <2> QED
    BY <1>1, <1>3, <2>2, <2>3 DEF Terminate
<1> QED
    BY <1>1, <1>2, <1>3

\* The last finally block releases the PDF.
LEMMA CleanupKeeps == IInv /\ Cleanup => IInv'
<1> SUFFICES ASSUME IInv, Cleanup PROVE IInv'
    OBVIOUS
<1>1. /\ op.at = "cleanup" /\ pdf' = "destroyed" /\ UNCHANGED <<doc, worker>>
      /\ op' = [op EXCEPT !.at = "done"] /\ call' = Settled(op.failure)
    BY DEF Cleanup
<1>2. IsOp(op') /\ op'.at = "done" /\ op'.failure \in Failure
    BY <1>1 DEF IInv, Shape, IsOp
<1>3. call' \in {"open", "AbortError", "timeout", "pages", "error"}
    BY <1>1 DEF IInv, Shape, Settled, Failure
<1> QED
    BY <1>1, <1>2, <1>3 DEF IInv, Shape, PdfInv, WorkerInv

-----------------------------------------------------------------------------
(* Timers and the abort.                                                    *)

\* What is under way is cut off, and its worker is ended or doomed.
LEMMA InterruptedGoes ==
    ASSUME IInv, NEW failure \in Failure, Interrupted(failure)
    PROVE  /\ IsOp(op') /\ op'.failure = failure
           /\ worker' \in WorkerType /\ worker'.life \in {"doomed", "ended"}
           /\ op'.at \in {"cleanup", "terminate", "done"}
           /\ op'.at = "terminate" => worker'.life = "ended"
           /\ op'.at = "cleanup" => doc.kind = "pdf"
           /\ op'.at = "done" => doc.kind # "pdf"
           /\ op.at \in {"start", "recognise"}
<1>1. worker \in WorkerType /\ IsOp(op)
    BY DEF IInv, Shape, WorkerType
<1>2. CASE /\ op.at = "start"
           /\ op' = [op EXCEPT !.at = IF doc.kind = "pdf" THEN "cleanup" ELSE "done",
                               !.failure = failure]
           /\ worker' = [worker EXCEPT !.life = "doomed"]
  <2>1. IsOp(op') /\ op'.failure = failure
        /\ op'.at = IF doc.kind = "pdf" THEN "cleanup" ELSE "done"
    BY <1>1, <1>2 DEF IsOp
  <2>2. worker' \in WorkerType /\ worker'.life = "doomed"
    BY <1>1, <1>2 DEF WorkerType
  <2> QED
    BY <1>2, <2>1, <2>2
<1>3. CASE /\ op.at = "recognise"
           /\ op' = [op EXCEPT !.at = "terminate", !.failure = failure]
           /\ worker' = [worker EXCEPT !.life = "ended"]
  <2>1. IsOp(op') /\ op'.failure = failure /\ op'.at = "terminate"
    BY <1>1, <1>3 DEF IsOp
  <2>2. worker' \in WorkerType /\ worker'.life = "ended"
    BY <1>1, <1>3 DEF WorkerType
  <2> QED
    BY <1>3, <2>1, <2>2
<1> QED
    BY <1>2, <1>3 DEF Interrupted

\* A timer of the worker ends the step it waits for.
LEMMA StepTimeoutKeeps == IInv /\ StepTimeout => IInv'
<1> SUFFICES ASSUME IInv, StepTimeout PROVE IInv'
    OBVIOUS
<1>1. Interrupted("error") /\ UNCHANGED <<doc, pdf>>
      /\ call' = IF op'.at = "done" THEN Settled("error") ELSE call
    BY DEF StepTimeout
<1>2. "error" \in Failure
    BY DEF Failure
<1>3. /\ IsOp(op') /\ op'.failure \in Failure
      /\ worker' \in WorkerType /\ worker'.life \in {"doomed", "ended"}
      /\ op'.at \in {"cleanup", "terminate", "done"}
      /\ op'.at = "terminate" => worker'.life = "ended"
      /\ op'.at = "cleanup" => doc.kind = "pdf"
      /\ op'.at = "done" => doc.kind # "pdf"
      /\ op.at \in {"start", "recognise"}
    BY <1>1, <1>2, InterruptedGoes
<1>4. call' \in {"open", "AbortError", "timeout", "pages", "error"}
      /\ (call' \in {"pages", "error"} => op'.at = "done")
      /\ (op'.at # "done" => call' = call)
    BY <1>1, <1>3 DEF IInv, Shape, PdfInv, Settled
<1> QED
    BY <1>1, <1>3, <1>4 DEF IInv, Shape, PdfInv, WorkerInv, WorkerType

\* The call gives up, and its PDF is destroyed whatever the extraction does.
LEMMA GiveUpKeeps ==
    ASSUME IInv, NEW outcome \in {"AbortError", "timeout"}, GiveUp(outcome)
    PROVE  IInv'
<1>1. call = "open" /\ call' = outcome /\ doc' = doc
      /\ pdf' = IF pdf = "open" THEN "destroyed" ELSE pdf
    BY DEF GiveUp
<1>2. pdf' \in {"none", "destroyed"} /\ (pdf = "none" => pdf' = "none")
    BY <1>1 DEF IInv, Shape
<1>3. CASE Interrupted("AbortError")
  <2>1. "AbortError" \in Failure
    BY DEF Failure
  <2>2. /\ IsOp(op') /\ op'.failure \in Failure
        /\ worker' \in WorkerType /\ worker'.life \in {"doomed", "ended"}
        /\ op'.at \in {"cleanup", "terminate", "done"}
        /\ op'.at = "terminate" => worker'.life = "ended"
        /\ op'.at = "cleanup" => doc.kind = "pdf"
        /\ op'.at = "done" => doc.kind # "pdf"
    BY <1>3, <2>1, InterruptedGoes
  <2> QED
    BY <1>1, <1>2, <2>2 DEF IInv, Shape, PdfInv, WorkerInv, WorkerType
<1>4. CASE UNCHANGED <<op, worker>>
    BY <1>1, <1>2, <1>4 DEF IInv, Shape, PdfInv, WorkerInv
<1> QED
    BY <1>3, <1>4 DEF GiveUp

-----------------------------------------------------------------------------

\* Every step keeps the invariant.
LEMMA NextKeeps == IInv /\ [Next]_vars => IInv'
<1> SUFFICES ASSUME IInv, [Next]_vars PROVE IInv'
    OBVIOUS
<1>1. CASE Timeout \/ Abort
    BY <1>1, GiveUpKeeps DEF Timeout, Abort
<1>2. CASE UNCHANGED vars
    BY <1>2 DEF vars, IInv, Shape, PdfInv, WorkerInv
<1> QED
    BY <1>1, <1>2, ImportKeeps, PdfStepsKeep, RenderKeeps, WorkerStartsKeeps, WorkStepsKeep,
       CleanupKeeps, StepTimeoutKeeps DEF Next

\* For documents of any number of pages, and in every order of the answers of the
\* libraries, the timers and the abort: when the call has ended its PDF is gone,
\* and when the extraction is over no worker is left that was started in time.
THEOREM ReleaseTheorem == Spec => []NothingIsHeld
<1>1. Init => IInv
    BY InitHolds
<1>2. IInv /\ [Next]_vars => IInv'
    BY NextKeeps
<1>3. IInv => NothingIsHeld
    BY Released
<1> QED
    BY <1>1, <1>2, <1>3, PTL DEF Spec

-----------------------------------------------------------------------------
(* Who is answered AbortError.                                              *)

\* An extraction that was aborted ends after its call, so that its failure is
\* never the answer.
AbortInv ==
    /\ client \in BOOLEAN
    /\ call = "AbortError" <=> client
    /\ op.failure = "AbortError" => call # "open"

\* What the extraction takes for an abort has ended the call.
LEMMA AbortedIsAnswered == AbortInv /\ Aborted => call # "open"
BY DEF AbortInv, Aborted

\* Leaving answers with the extraction's own failure only if it was not aborted.
LEMMA LeaveAnswers ==
    ASSUME IInv, AbortInv, NEW o, IsOp(o), NEW failure \in Failure, NEW owned \in BOOLEAN,
           Leave(o, failure, owned), op.at # "done", UNCHANGED client,
           failure = "AbortError" => call # "open"
    PROVE  AbortInv'
<1>1. op' = [o EXCEPT !.at = IF owned THEN "terminate"
                             ELSE IF doc.kind = "pdf" THEN "cleanup" ELSE "done",
                      !.failure = failure]
    BY DEF Leave
<1>2. op'.failure = failure
    BY <1>1 DEF IsOp
<1>3. call' = call \/ call' = Settled(failure)
    BY DEF Leave
<1>4. call' = call \/ (call = "open" /\ failure # "AbortError" /\ call' \in {"pages", "error"})
    BY <1>3 DEF Settled, Failure
<1> QED
    BY <1>2, <1>4 DEF AbortInv

\* So does awaiting a call after a check, or leaving because of it.
LEMMA CheckedAnswers ==
    ASSUME IInv, AbortInv, NEW o, IsOp(o), o.failure = op.failure, NEW at, NEW owned \in BOOLEAN,
           Checked(o, at, owned), op.at # "done", UNCHANGED client
    PROVE  AbortInv'
<1>1. op.failure \in Failure
    BY DEF IInv, Shape
<1>2. CASE Aborted
  <2>1. Leave(o, "AbortError", owned)
    BY <1>2 DEF Checked
  <2> QED
    BY <1>2, <2>1, AbortedIsAnswered, LeaveAnswers DEF Failure
<1>3. CASE ~ Aborted
  <2>1. Await(o, at)
    BY <1>3 DEF Checked
  <2>2. op' = [o EXCEPT !.at = at] /\ call' = call
    BY <2>1 DEF Await, Stay
  <2>3. op'.failure = op.failure
    BY <2>2 DEF IsOp
  <2> QED
    BY <2>2, <2>3 DEF AbortInv
<1> QED
    BY <1>2, <1>3

\* No step of the extraction answers an abort that was none.
LEMMA ExtractionAnswers ==
    ASSUME IInv, AbortInv,
           Load \/ Extract \/ Render \/ Refuse \/ WorkerStarts \/ Recognise \/ Terminate
    PROVE  AbortInv'
<1>1. UNCHANGED client /\ IsOp(op) /\ op.failure \in Failure
    BY DEF Load, Extract, Render, Refuse, WorkerStarts, Recognise, Terminate, IInv, Shape
<1>2. ASSUME NEW owned \in BOOLEAN, Fails(owned), op.at # "done" PROVE AbortInv'
    BY <1>1, <1>2, LeaveAnswers DEF Fails, Failure
<1>3. ASSUME NEW pages, NEW owned \in BOOLEAN, Assembled(pages, owned), op.at # "done"
      PROVE  AbortInv'
    BY <1>1, <1>3, OpUpdates, LeaveAnswers DEF Assembled, Failure
<1>4. ASSUME NEW x
      PROVE  /\ IsOp([op EXCEPT !.rendered = x]) /\ [op EXCEPT !.rendered = x].failure = op.failure
             /\ IsOp([op EXCEPT !.read = x]) /\ [op EXCEPT !.read = x].failure = op.failure
    BY <1>1 DEF IsOp
<1>5. CASE Load \/ Extract \/ Refuse
    BY <1>1, <1>2, <1>3, <1>5, CheckedAnswers DEF Load, Extract, Refuse
<1>6. CASE Render
  <2> DEFINE o == [op EXCEPT !.rendered = Append(@, VisualPages[Len(@) + 1])]
  <2>1. IsOp(o) /\ o.failure = op.failure
    BY <1>4
  <2>2. /\ op.at = "render"
        /\ Checked(o, "render", FALSE) \/ Checked(o, "start", FALSE) \/ Fails(FALSE)
    BY <1>6 DEF Render
  <2> HIDE DEF o
  <2> QED
    BY <1>1, <1>2, <2>1, <2>2, CheckedAnswers
<1>7. CASE WorkerStarts
  <2>1. CASE op.at = "start"
    BY <1>1, <1>2, <1>7, <2>1, CheckedAnswers DEF WorkerStarts
  <2>2. CASE op.at # "start"
    BY <1>1, <1>7, <2>2 DEF WorkerStarts, AbortInv
  <2> QED
    BY <2>1, <2>2
<1>8. CASE Recognise
  <2> DEFINE o == [op EXCEPT !.read = Append(@, Images[Len(@) + 1])]
  <2>1. IsOp(o) /\ o.failure = op.failure
    BY <1>4
  <2>2. /\ op.at = "recognise"
        /\ Checked(o, "recognise", TRUE) \/ Leave(o, "none", TRUE) \/ Fails(TRUE)
    BY <1>8 DEF Recognise
  <2> HIDE DEF o
  <2>3. CASE Leave(o, "none", TRUE)
    BY <1>1, <2>1, <2>2, <2>3, LeaveAnswers DEF Failure
  <2> QED
    BY <1>1, <1>2, <2>1, <2>2, <2>3, CheckedAnswers
<1>9. CASE Terminate
  <2>1. op.at = "terminate"
    BY <1>9 DEF Terminate
  <2>2. CASE Leave(op, op.failure, FALSE)
    BY <1>1, <2>1, <2>2, LeaveAnswers DEF AbortInv
  <2> QED
    BY <1>3, <1>9, <2>1, <2>2 DEF Terminate
<1> QED
    BY <1>5, <1>6, <1>7, <1>8, <1>9

\* The steps that answer on their own keep it as well.
LEMMA NextAnswers == IInv /\ AbortInv /\ [Next]_vars => AbortInv'
<1> SUFFICES ASSUME IInv, AbortInv, [Next]_vars PROVE AbortInv'
    OBVIOUS
<1>1. CASE Import
  <2>1. ASSUME NEW failure \in Failure, call' = Settled(failure), client' = client,
               op' = [op EXCEPT !.at = "done", !.failure = failure],
               failure = "AbortError" => call # "open"
        PROVE  AbortInv'
    <3>1. op'.failure = failure
      BY <2>1 DEF IInv, Shape, IsOp
    <3>2. call' = call \/ (call = "open" /\ failure # "AbortError" /\ call' \in {"pages", "error"})
      BY <2>1 DEF Settled, Failure
    <3> QED
      BY <2>1, <3>1, <3>2 DEF AbortInv
  <2>2. CASE Await(op, "load") /\ client' = client
    BY <2>2 DEF Await, Stay, AbortInv, IInv, Shape, IsOp
  <2> QED
    BY <1>1, <2>1, <2>2, AbortedIsAnswered DEF Import, Failure
<1>2. CASE Cleanup
  <2>1. /\ op' = [op EXCEPT !.at = "done"] /\ call' = Settled(op.failure) /\ client' = client
    BY <1>2 DEF Cleanup
  <2>2. op'.failure = op.failure /\ op.failure \in Failure
    BY <2>1 DEF IInv, Shape, IsOp
  <2>3. call' = call \/ (call = "open" /\ op.failure # "AbortError" /\ call' \in {"pages", "error"})
    BY <2>1, <2>2 DEF Settled, Failure, AbortInv
  <2> QED
    BY <2>1, <2>2, <2>3 DEF AbortInv
<1>3. CASE StepTimeout
  <2>1. Interrupted("error") /\ client' = client
        /\ call' = IF op'.at = "done" THEN Settled("error") ELSE call
    BY <1>3 DEF StepTimeout
  <2>2. op'.failure = "error"
    BY <2>1, InterruptedGoes DEF Failure
  <2> QED
    BY <2>1, <2>2 DEF Settled, AbortInv
<1>4. CASE Timeout
    BY <1>4 DEF Timeout, GiveUp, AbortInv
<1>5. CASE Abort
    BY <1>5 DEF Abort, GiveUp, AbortInv
<1>6. CASE UNCHANGED vars
    BY <1>6 DEF vars, AbortInv
<1> QED
    BY <1>1, <1>2, <1>3, <1>4, <1>5, <1>6, ExtractionAnswers DEF Next

\* Nothing was aborted when the call begins.
LEMMA InitAnswers == Init => AbortInv
<1> SUFFICES ASSUME Init PROVE AbortInv
    OBVIOUS
<1>1. client = FALSE /\ call = "open" /\ op.failure = "none"
    BY DEF Init
<1> QED
    BY <1>1 DEF AbortInv

\* Whatever the libraries answer and whenever the timers fire, the caller is told
\* AbortError exactly if it aborted: a timeout, which aborts the extraction by the
\* same signal, is never taken for a client that left.
THEOREM AbortTheorem == Spec => [](call = "AbortError" <=> client)
<1>1. Init => IInv
    BY InitHolds
<1>2. Init => AbortInv
    BY InitAnswers
<1>3. IInv /\ AbortInv /\ [Next]_vars => (IInv /\ AbortInv)'
    BY NextKeeps, NextAnswers
<1>4. AbortInv => (call = "AbortError" <=> client)
    BY DEF AbortInv
<1> QED
    BY <1>1, <1>2, <1>3, <1>4, PTL DEF Spec

-----------------------------------------------------------------------------
(* The pages in their order.                                                *)

\* The order of the numbers, in which a set of them has a first element.
Before == OpToRel(<, Nat)

\* A number precedes those that are greater.
LEMMA BeforeIs == \A m, n \in Nat : m < n => <<m, n>> \in Before
BY DEF Before, OpToRel

\* What holds of 0, and of n + 1 when it holds of n, holds of every number.
LEMMA SetInduction ==
    ASSUME NEW S, 0 \in S, \A n \in Nat : n \in S => n + 1 \in S
    PROVE  \A n \in Nat : n \in S
<1> DEFINE T == Nat \ S
<1> SUFFICES ASSUME T # {} PROVE FALSE
    OBVIOUS
<1>1. PICK x \in T : \A y \in T : ~ (<<y, x>> \in Before)
    BY NatLessThanWellFounded, WFMin DEF Before
<1>2. x # 0 /\ x - 1 \in Nat
    BY <1>1
<1>3. x - 1 \in S
  <2>1. <<x - 1, x>> \in Before
    BY <1>1, <1>2, BeforeIs
  <2> QED
    BY <1>1, <1>2, <2>1
<1> QED
    BY <1>1, <1>2, <1>3

\* s lists the members of S in their order.
Lists(s, S) ==
    /\ s \in [1..Cardinality(S) -> S]
    /\ ToSet(s) = S
    /\ \A i, j \in DOMAIN s : i < j => s[i] < s[j]

\* A list of numbers up to n is extended by n + 1.
LEMMA ListGrows ==
    ASSUME NEW n \in Nat, NEW S \in SUBSET (1..n), IsFiniteSet(S), NEW s, Lists(s, S)
    PROVE  \E t : Lists(t, S \cup {n + 1})
<1> DEFINE c == Cardinality(S)
           t == [i \in 1..(c + 1) |-> IF i = c + 1 THEN n + 1 ELSE s[i]]
<1>1. c \in Nat
    BY FS_CardinalityType
<1>2. Cardinality(S \cup {n + 1}) = c + 1
  <2>1. n + 1 \notin S
    OBVIOUS
  <2> QED
    BY <2>1, FS_AddElement
<1>3. s \in [1..c -> S] /\ ToSet(s) = S /\ \A i, j \in 1..c : i < j => s[i] < s[j]
    BY DEF Lists
<1> HIDE DEF c
<1>4. t \in [1..(c + 1) -> S \cup {n + 1}]
    BY <1>1, <1>3
<1>5. ToSet(t) = S \cup {n + 1}
  <2>1. ASSUME NEW x \in S PROVE \E i \in 1..(c + 1) : t[i] = x
    <3>1. PICK i \in 1..c : s[i] = x
      BY <1>3, <2>1 DEF ToSet
    <3> QED
      BY <1>1, <3>1
  <2>2. t[c + 1] = n + 1 /\ c + 1 \in 1..(c + 1)
    BY <1>1
  <2> QED
    BY <1>4, <2>1, <2>2 DEF ToSet
<1>6. \A i, j \in 1..(c + 1) : i < j => t[i] < t[j]
  <2> SUFFICES ASSUME NEW i \in 1..(c + 1), NEW j \in 1..(c + 1), i < j PROVE t[i] < t[j]
    OBVIOUS
  <2>1. i \in 1..c /\ t[i] = s[i] /\ s[i] \in 1..n
    <3>1. i \in 1..c
      BY <1>1
    <3>2. t[i] = s[i]
      BY <1>1, <3>1
    <3> HIDE DEF t
    <3> QED
      BY <1>3, <3>1, <3>2
  <2>2. CASE j = c + 1
    <3>1. t[j] = n + 1
      BY <2>2
    <3> QED
      BY <2>1, <3>1
  <2>3. CASE j # c + 1
    <3>1. j \in 1..c /\ t[j] = s[j]
      BY <1>1, <2>3
    <3> QED
      BY <1>3, <2>1, <3>1
  <2> QED
    BY <2>2, <2>3
<1> QED
    BY <1>2, <1>4, <1>5, <1>6 DEF Lists

\* Every set of page numbers can be listed in order.
LEMMA ListsExist == \A n \in Nat : \A S \in SUBSET (1..n) : IsFiniteSet(S) /\ \E s : Lists(s, S)
<1> DEFINE Good == {n \in Nat : \A S \in SUBSET (1..n) : IsFiniteSet(S) /\ \E s : Lists(s, S)}
<1>1. 0 \in Good
  <2> SUFFICES ASSUME NEW S \in SUBSET (1..0) PROVE IsFiniteSet(S) /\ \E s : Lists(s, S)
    OBVIOUS
  <2>1. S = {}
    OBVIOUS
  <2>2. Lists(<<>>, S)
    BY <2>1, FS_EmptySet DEF Lists, ToSet
  <2> QED
    BY <2>1, <2>2, FS_EmptySet
<1>2. ASSUME NEW n \in Nat, n \in Good PROVE n + 1 \in Good
  <2> SUFFICES ASSUME NEW S \in SUBSET (1..(n + 1))
               PROVE  IsFiniteSet(S) /\ \E s : Lists(s, S)
    OBVIOUS
  <2>1. \A R \in SUBSET (1..n) : IsFiniteSet(R) /\ \E s : Lists(s, R)
    BY <1>2
  <2>2. CASE n + 1 \notin S
    <3>1. S \in SUBSET (1..n)
      BY <2>2
    <3> QED
      BY <2>1, <3>1
  <2>3. CASE n + 1 \in S
    <3> DEFINE R == S \ {n + 1}
    <3>1. R \in SUBSET (1..n) /\ S = R \cup {n + 1}
      BY <2>3
    <3> HIDE DEF R
    <3>2. IsFiniteSet(R) /\ \E s : Lists(s, R)
      BY <2>1, <3>1
    <3> QED
      BY <3>1, <3>2, ListGrows, FS_AddElement
  <2> QED
    BY <2>2, <2>3
<1> HIDE DEF Good
<1>3. \A n \in Nat : n \in Good
    BY <1>1, <1>2, SetInduction
<1> QED
    BY <1>3 DEF Good

\* So the list that is chosen is one.
LEMMA InOrderLists ==
    ASSUME NEW n \in Nat, NEW S \in SUBSET (1..n)
    PROVE  Lists(InOrder(S), S)
<1>1. \E s \in [1..Cardinality(S) -> S] :
          ToSet(s) = S /\ \A i, j \in DOMAIN s : i < j => s[i] < s[j]
    BY ListsExist DEF Lists
<1> QED
    BY <1>1 DEF InOrder, Lists

-----------------------------------------------------------------------------
(* What is read of which page.                                              *)

\* The first pages that must be looked at.
Starts(s) ==
    /\ s \in Seq(Nat) /\ Len(s) <= Len(VisualPages)
    /\ \A i \in 1..Len(s) : s[i] = VisualPages[i]

All(s) == Starts(s) /\ Len(s) = Len(VisualPages)

\* Every page has what was read of it, by OCR where it has no text.
PagesRight(pages) ==
    /\ Len(pages) = Len(doc.native)
    /\ \A p \in DOMAIN pages :
           /\ pages[p] \in (SUBSET {<<"native", p>>, <<"ocr", p>>}) \ {{}}
           /\ doc.native[p] = "thin" \/ doc.visual => <<"ocr", p>> \in pages[p]
           /\ doc.native[p] = "text" => <<"native", p>> \in pages[p]

Counted == Len(doc.native) \in 1..MaxPages

\* The images are rendered, and read, in the order of their pages; an extraction
\* that has not failed has them all where it puts the pages together.
ReadInv ==
    /\ doc \in Document
    /\ op.at \in {"import", "load", "extract"} => op.rendered = <<>> /\ op.read = <<>>
    /\ op.at = "render" =>
           Starts(op.rendered) /\ Len(op.rendered) < Len(VisualPages) /\ op.read = <<>>
    /\ op.at = "start" => All(Images) /\ Len(VisualPages) > 0 /\ op.read = <<>>
    /\ op.at = "recognise" => All(Images) /\ Starts(op.read) /\ Len(op.read) < Len(VisualPages)
    /\ op.at \in {"extract", "render", "start", "recognise"} => Counted
    /\ op.failure = "none" =>
           /\ op.at \in {"terminate", "cleanup", "done"} => Counted
           /\ op.at = "terminate" => All(op.read)
           /\ op.at \in {"cleanup", "done"} => PagesRight(op.pages)
    /\ call = "pages" => op.failure = "none"

\* A document has numbered pages, each with text or without.
LEMMA NativePages ==
    ASSUME doc \in Document
    PROVE  /\ doc.native \in Seq({"text", "thin"}) /\ DOMAIN doc.native = 1..Len(doc.native)
           /\ doc.kind # "pdf" => doc.native = <<"thin">>
           /\ doc.visual \in BOOLEAN
<1>1. MaxPages \in Nat
    BY GroundingAssumption
<1>2. CASE doc.kind = "pdf"
  <2>1. doc.native \in UNION {[1..n -> {"text", "thin"}] : n \in 0..(MaxPages + 1)}
        /\ doc.visual \in BOOLEAN
    BY <1>2 DEF Document
  <2>2. PICK n \in 0..(MaxPages + 1) : doc.native \in [1..n -> {"text", "thin"}]
    BY <2>1
  <2>3. n \in Nat
    BY <1>1
  <2> QED
    BY <1>2, <2>1, <2>2, <2>3
<1>3. CASE doc.kind # "pdf"
  <2>1. doc.native = <<"thin">> /\ doc.visual = FALSE
    BY <1>3 DEF Document
  <2>2. <<"thin">> \in Seq({"text", "thin"})
        /\ DOMAIN <<"thin">> = 1..Len(<<"thin">>)
    OBVIOUS
  <2> QED
    BY <1>3, <2>1, <2>2
<1> QED
    BY <1>2, <1>3

\* Which pages are looked at, and that each of them is one of the list.
LEMMA VisualPagesAre ==
    ASSUME doc \in Document
    PROVE  /\ VisualPages \in Seq(Nat)
           /\ ToSet(VisualPages) =
                  {p \in DOMAIN doc.native : doc.visual \/ doc.native[p] = "thin"}
           /\ DOMAIN VisualPages = 1..Len(VisualPages)
           /\ \A i, j \in DOMAIN VisualPages : VisualPages[i] = VisualPages[j] => i = j
<1> DEFINE S == {p \in DOMAIN doc.native : doc.visual \/ doc.native[p] = "thin"}
           n == Len(doc.native)
           c == Cardinality(S)
<1>1. n \in Nat /\ S \in SUBSET (1..n)
    BY NativePages
<1>2. VisualPages = InOrder(S)
    BY DEF VisualPages
<1> HIDE DEF S, n
<1>3. Lists(VisualPages, S)
    BY <1>1, <1>2, InOrderLists
<1>4. c \in Nat
    BY <1>1, FS_CardinalityType, ListsExist
<1> HIDE DEF c
<1>5. /\ VisualPages \in [1..c -> S] /\ ToSet(VisualPages) = S
      /\ \A i, j \in DOMAIN VisualPages : i < j => VisualPages[i] < VisualPages[j]
    BY <1>3 DEF Lists, c
<1>6. VisualPages \in [1..c -> Nat]
  <2>1. \A x \in S : x \in Nat
    BY <1>1
  <2> QED
    BY <1>5, <2>1
<1>7. VisualPages \in Seq(Nat) /\ Len(VisualPages) = c /\ DOMAIN VisualPages = 1..c
    BY <1>4, <1>6
<1>8. ASSUME NEW i \in 1..c, NEW j \in 1..c, VisualPages[i] = VisualPages[j] PROVE i = j
  <2>1. ~ (i < j) /\ ~ (j < i)
    BY <1>5, <1>6, <1>7, <1>8
  <2> QED
    BY <1>4, <2>1
<1> QED
    BY <1>5, <1>7, <1>8 DEF S

\* An image is one page, which is looked at.
LEMMA ImagePage ==
    ASSUME doc \in Document, doc.kind # "pdf"
    PROVE  Len(VisualPages) = 1 /\ VisualPages[1] = 1
<1>1. doc.native = <<"thin">> /\ DOMAIN doc.native = {1} /\ doc.native[1] = "thin"
    BY NativePages
<1>2. ToSet(VisualPages) = {1}
    BY <1>1, VisualPagesAre
<1>3. \A i \in 1..Len(VisualPages) : VisualPages[i] = 1
    BY <1>2, VisualPagesAre DEF ToSet
<1>4. 1 \in ToSet(VisualPages)
    BY <1>2
<1>5. PICK i \in 1..Len(VisualPages) : VisualPages[i] = 1
    BY <1>4, VisualPagesAre DEF ToSet
<1>6. Len(VisualPages) \in Nat
    BY VisualPagesAre
<1>7. Len(VisualPages) >= 1
    BY <1>5, <1>6
<1>8. ~ (Len(VisualPages) > 1)
  <2> SUFFICES ASSUME Len(VisualPages) > 1 PROVE FALSE
    OBVIOUS
  <2>1. 1 \in 1..Len(VisualPages) /\ 2 \in 1..Len(VisualPages)
    BY <1>6
  <2> QED
    BY <1>3, <2>1, VisualPagesAre
<1>9. \A n \in Nat : n >= 1 /\ ~ (n > 1) => n = 1
    OBVIOUS
<1> QED
    BY <1>3, <1>6, <1>7, <1>8, <1>9, 1 \in 1..1

\* The images of an image are its page.
LEMMA ImageIsRead == doc \in Document /\ doc.kind # "pdf" => All(Images)
<1> SUFFICES ASSUME doc \in Document, doc.kind # "pdf" PROVE All(Images)
    OBVIOUS
<1>1. Images = <<1>>
    BY DEF Images
<1> QED
    BY <1>1, ImagePage DEF All, Starts

\* What is read of a page is one text of two, or both.
LEMMA OneOrBoth ==
    ASSUME NEW a, NEW b
    PROVE  {a} \in (SUBSET {a, b}) \ {{}} /\ {b} \in (SUBSET {a, b}) \ {{}}
           /\ {b, a} \in (SUBSET {a, b}) \ {{}}
OBVIOUS

\* The pages put together from all that was to be read are right.
LEMMA MergedRight ==
    ASSUME doc \in Document, NEW read, All(read)
    PROVE  PagesRight([p \in DOMAIN doc.native |-> Merged(p, read)])
<1> DEFINE pages == [p \in DOMAIN doc.native |-> Merged(p, read)]
<1>1. Len(pages) = Len(doc.native)
    BY NativePages
<1>2. ASSUME NEW p \in DOMAIN doc.native
      PROVE  /\ Merged(p, read) \in (SUBSET {<<"native", p>>, <<"ocr", p>>}) \ {{}}
             /\ doc.native[p] = "thin" \/ doc.visual => <<"ocr", p>> \in Merged(p, read)
             /\ doc.native[p] = "text" => <<"native", p>> \in Merged(p, read)
  <2>1. doc.native[p] \in {"text", "thin"} /\ doc.visual \in BOOLEAN
    BY NativePages
  <2>2. CASE p \notin ToSet(VisualPages)
    <3>1. Merged(p, read) = {<<"native", p>>}
      BY <2>2 DEF Merged
    <3>2. ~ doc.visual /\ doc.native[p] # "thin"
      BY <2>2, VisualPagesAre
    <3> QED
      BY <2>1, <3>1, <3>2, OneOrBoth
  <2>3. CASE p \in ToSet(VisualPages)
    <3> DEFINE k == CHOOSE i \in DOMAIN VisualPages : VisualPages[i] = p
    <3>1. k \in DOMAIN VisualPages /\ VisualPages[k] = p
      BY <2>3 DEF ToSet
    <3>2. Merged(p, read) = {<<"ocr", read[k]>>}
              \cup IF doc.visual /\ doc.native[p] = "text" THEN {<<"native", p>>} ELSE {}
      BY <2>3 DEF Merged
    <3> HIDE DEF k
    <3>3. read[k] = p
      BY <3>1, VisualPagesAre DEF All, Starts
    <3>4. doc.visual \/ doc.native[p] = "thin"
      BY <2>3, VisualPagesAre
    <3>5. Merged(p, read) = {<<"ocr", p>>}
          \/ (doc.visual /\ Merged(p, read) = {<<"ocr", p>>, <<"native", p>>})
      BY <3>2, <3>3
    <3>6. doc.native[p] = "text" => Merged(p, read) = {<<"ocr", p>>, <<"native", p>>}
      BY <3>2, <3>3, <3>4
    <3> QED
      BY <2>1, <3>5, <3>6, OneOrBoth
  <2> QED
    BY <2>2, <2>3
<1> HIDE DEF pages
<1>3. DOMAIN pages = DOMAIN doc.native /\ \A p \in DOMAIN doc.native : pages[p] = Merged(p, read)
    BY DEF pages
<1>4. PagesRight(pages)
    BY <1>1, <1>2, <1>3 DEF PagesRight
<1> QED
    BY <1>4 DEF pages

\* What is read next is the next page.
LEMMA StartsGrow ==
    ASSUME doc \in Document, NEW s, Starts(s), Len(s) < Len(VisualPages)
    PROVE  /\ Starts(Append(s, VisualPages[Len(s) + 1]))
           /\ Len(Append(s, VisualPages[Len(s) + 1])) = Len(s) + 1
<1>1. VisualPages \in Seq(Nat) /\ s \in Seq(Nat) /\ Len(s) \in Nat
    BY VisualPagesAre DEF Starts
<1>2. Len(s) + 1 \in 1..Len(VisualPages) /\ VisualPages[Len(s) + 1] \in Nat
    BY <1>1
<1> QED
    BY <1>1, <1>2 DEF Starts

\* The list of the pages does not change.
LEMMA PagesStay == doc' = doc => VisualPages' = VisualPages
BY DEF VisualPages

\* Leaving keeps the invariant if what is left behind is right.
LEMMA LeaveReads ==
    ASSUME IInv, ReadInv, NEW o, IsOp(o), NEW failure \in Failure, NEW owned \in BOOLEAN,
           Leave(o, failure, owned), op.at # "done", doc' = doc,
           failure = "none" => Counted,
           failure = "none" /\ owned => All(o.read),
           failure = "none" /\ ~ owned => PagesRight(o.pages)
    PROVE  ReadInv'
<1>1. op' = [o EXCEPT !.at = IF owned THEN "terminate"
                             ELSE IF doc.kind = "pdf" THEN "cleanup" ELSE "done",
                      !.failure = failure]
    BY DEF Leave
<1>2. /\ op'.failure = failure /\ op'.read = o.read /\ op'.pages = o.pages
      /\ op'.at = IF owned THEN "terminate" ELSE IF doc.kind = "pdf" THEN "cleanup" ELSE "done"
    BY <1>1 DEF IsOp
<1>3. VisualPages' = VisualPages
    BY PagesStay
<1>4. call' = "pages" => failure = "none"
  <2>1. call # "pages"
    BY DEF IInv, PdfInv
  <2>2. call' = call \/ call' = Settled(failure)
    BY DEF Leave
  <2> QED
    BY <2>1, <2>2 DEF Settled, Failure
<1> QED
    BY <1>2, <1>3, <1>4 DEF ReadInv, Counted, All, Starts, PagesRight

\* So does awaiting the next call with what it needs.
LEMMA AwaitReads ==
    ASSUME IInv, ReadInv, NEW o, IsOp(o), o.failure = op.failure,
           NEW at \in {"load", "extract", "render", "start", "recognise"},
           Await(o, at), op.at # "done", doc' = doc,
           at # "load" => Counted,
           at \in {"load", "extract"} => o.rendered = <<>> /\ o.read = <<>>,
           at = "render" =>
               Starts(o.rendered) /\ Len(o.rendered) < Len(VisualPages) /\ o.read = <<>>,
           at = "start" => All(o.rendered) /\ Len(VisualPages) > 0 /\ o.read = <<>>
                           /\ doc.kind = "pdf",
           at = "recognise" => /\ All(Images) /\ o.rendered = op.rendered
                               /\ Starts(o.read) /\ Len(o.read) < Len(VisualPages)
    PROVE  ReadInv'
<1>1. op' = [o EXCEPT !.at = at] /\ call' = call
    BY DEF Await, Stay
<1>2. /\ op'.at = at /\ op'.failure = op.failure
      /\ op'.read = o.read /\ op'.rendered = o.rendered
    BY <1>1 DEF IsOp
<1>3. VisualPages' = VisualPages
    BY PagesStay
<1>4. at = "start" => Images' = o.rendered
    BY <1>2 DEF Images
<1>5. at = "recognise" => Images' = Images
    BY <1>2 DEF Images
<1> QED
    BY <1>1, <1>2, <1>3, <1>4, <1>5 DEF ReadInv, Counted, All, Starts, PagesRight

\* A step that changes nothing but failures keeps it.
LEMMA FailsReads ==
    ASSUME IInv, ReadInv, NEW failure \in {"AbortError", "error"}, NEW owned \in BOOLEAN,
           NEW o, IsOp(o), Leave(o, failure, owned), op.at # "done", doc' = doc
    PROVE  ReadInv'
BY LeaveReads DEF Failure

\* Until the text is extracted nothing is rendered or read.
LEMMA LoadReads == IInv /\ ReadInv /\ (Import \/ Load) => ReadInv'
<1> SUFFICES ASSUME IInv, ReadInv, Import \/ Load PROVE ReadInv'
    OBVIOUS
<1>1. /\ op.at \in {"import", "load"} /\ doc' = doc /\ IsOp(op)
      /\ op.rendered = <<>> /\ op.read = <<>> /\ call # "pages"
    BY DEF Import, Load, IInv, Shape, PdfInv, ReadInv
<1>2. ASSUME NEW failure \in {"AbortError", "error"},
             op' = [op EXCEPT !.at = "done", !.failure = failure], call' = Settled(failure)
      PROVE  ReadInv'
  <2>1. op'.at = "done" /\ op'.failure = failure
    BY <1>1, <1>2 DEF IsOp
  <2>2. call' # "pages"
    BY <1>1, <1>2 DEF Settled
  <2> QED
    BY <1>1, <2>1, <2>2 DEF ReadInv
<1>3. CASE Import
  <2>1. CASE Await(op, "load")
    BY <1>1, <2>1, AwaitReads
  <2> QED
    BY <1>2, <1>3, <2>1 DEF Import
<1>4. CASE Load
  <2>1. CASE Aborted /\ Leave(op, "AbortError", FALSE)
    BY <1>1, <2>1, FailsReads
  <2>2. CASE ~ Aborted /\ PagesAccepted /\ Await(op, "extract")
    BY <1>1, <2>2, AwaitReads DEF PagesAccepted, Counted
  <2>3. CASE Fails(FALSE)
    BY <1>1, <2>3, FailsReads DEF Fails
  <2> QED
    BY <1>4, <2>1, <2>2, <2>3 DEF Load, Checked
<1> QED
    BY <1>3, <1>4

\* The native text is all there is if no page must be looked at.
LEMMA ExtractReads == IInv /\ ReadInv /\ (Extract \/ Refuse) => ReadInv'
<1> SUFFICES ASSUME IInv, ReadInv, Extract \/ Refuse PROVE ReadInv'
    OBVIOUS
<1>1. op.at \in {"extract", "start"} /\ doc' = doc /\ doc \in Document /\ IsOp(op) /\ Counted
    BY DEF Extract, Refuse, IInv, Shape, ReadInv
<1>2. CASE Fails(FALSE)
    BY <1>1, <1>2, FailsReads DEF Fails
<1>3. ASSUME Extract, ~ Fails(FALSE) PROVE ReadInv'
  <2>1. op.at = "extract" /\ op.rendered = <<>> /\ op.read = <<>>
    BY <1>3 DEF Extract, ReadInv
  <2>2. CASE VisualPages = <<>>
    <3> DEFINE pages == [p \in DOMAIN doc.native |-> Merged(p, <<>>)]
               o == [op EXCEPT !.pages = pages]
    <3>1. All(<<>>)
      BY <2>2 DEF All, Starts
    <3>2. PagesRight(pages)
      BY <1>1, <3>1, MergedRight
    <3>3. Assembled(pages, FALSE)
      BY <1>3, <2>2 DEF Extract
    <3> HIDE DEF pages
    <3>4. IsOp(o) /\ o.pages = pages
      BY <1>1 DEF IsOp
    <3>5. Leave(o, "none", FALSE) \/ Leave(op, "error", FALSE)
      BY <3>3 DEF Assembled
    <3> HIDE DEF o
    <3> QED
      BY <1>1, <3>2, <3>4, <3>5, LeaveReads DEF Failure
  <2>3. CASE VisualPages # <<>>
    <3>1. Checked(op, "render", FALSE)
      BY <1>3, <2>3 DEF Extract
    <3>2. CASE Aborted
      BY <1>1, <3>1, <3>2, FailsReads DEF Checked
    <3>3. CASE ~ Aborted
      <4>1. Starts(<<>>) /\ Len(<<>>) < Len(VisualPages)
        BY <1>1, <2>3, VisualPagesAre DEF Starts
      <4> QED
        BY <1>1, <2>1, <3>1, <3>3, <4>1, AwaitReads DEF Checked
    <3> QED
      BY <3>2, <3>3
  <2> QED
    BY <2>2, <2>3
<1> QED
    BY <1>2, <1>3 DEF Refuse

\* The next page is rendered; the worker is started when all of them are.
LEMMA RenderReads == IInv /\ ReadInv /\ Render => ReadInv'
<1> SUFFICES ASSUME IInv, ReadInv, Render PROVE ReadInv'
    OBVIOUS
<1> DEFINE s == Append(op.rendered, VisualPages[Len(op.rendered) + 1])
           o == [op EXCEPT !.rendered = s]
<1>1. /\ op.at = "render" /\ doc' = doc /\ doc \in Document /\ IsOp(op) /\ Counted
      /\ Starts(op.rendered) /\ Len(op.rendered) < Len(VisualPages) /\ op.read = <<>>
      /\ doc.kind = "pdf"
    BY DEF Render, IInv, Shape, PdfInv, ReadInv
<1>2. Starts(s) /\ Len(s) = Len(op.rendered) + 1
    BY <1>1, StartsGrow
<1>3. \/ Len(o.rendered) < Len(VisualPages) /\ Checked(o, "render", FALSE)
      \/ Len(o.rendered) = Len(VisualPages) /\ Checked(o, "start", FALSE)
      \/ Fails(FALSE)
    BY DEF Render
<1> HIDE DEF s
<1>4. IsOp(o) /\ o.failure = op.failure /\ o.rendered = s /\ o.read = op.read
    BY <1>1 DEF IsOp
<1> HIDE DEF o
<1>5. CASE Fails(FALSE)
    BY <1>1, <1>5, FailsReads DEF Fails
<1>6. CASE Leave(o, "AbortError", FALSE)
    BY <1>1, <1>4, <1>6, FailsReads
<1>7. CASE Len(o.rendered) < Len(VisualPages) /\ Await(o, "render")
    BY <1>1, <1>2, <1>4, <1>7, AwaitReads
<1>8. CASE Len(o.rendered) = Len(VisualPages) /\ Await(o, "start")
  <2>1. All(o.rendered)
    BY <1>2, <1>4, <1>8 DEF All
  <2>2. Len(VisualPages) > 0
    BY <1>1, VisualPagesAre DEF Starts
  <2> QED
    BY <1>1, <1>4, <1>8, <2>1, <2>2, AwaitReads
<1> QED
    BY <1>3, <1>5, <1>6, <1>7, <1>8 DEF Checked

\* The worker has all the images before it.
LEMMA WorkerStartsReads == IInv /\ ReadInv /\ WorkerStarts => ReadInv'
<1> SUFFICES ASSUME IInv, ReadInv, WorkerStarts PROVE ReadInv'
    OBVIOUS
<1>1. doc' = doc /\ doc \in Document /\ IsOp(op)
    BY DEF WorkerStarts, IInv, Shape, ReadInv
<1>2. CASE op.at = "start"
  <2>1. Checked(op, "recognise", TRUE) \/ Fails(FALSE)
    BY <1>2 DEF WorkerStarts
  <2>2. Counted /\ All(Images) /\ Len(VisualPages) > 0 /\ op.read = <<>>
    BY <1>2 DEF ReadInv
  <2>3. Starts(op.read) /\ Len(op.read) < Len(VisualPages)
    BY <2>2 DEF Starts
  <2>4. CASE Fails(FALSE)
    BY <1>1, <1>2, <2>4, FailsReads DEF Fails
  <2>5. CASE Leave(op, "AbortError", TRUE)
    BY <1>1, <1>2, <2>5, FailsReads
  <2>6. CASE Await(op, "recognise")
    BY <1>1, <1>2, <2>2, <2>3, <2>6, AwaitReads
  <2> QED
    BY <2>1, <2>4, <2>5, <2>6 DEF Checked
<1>3. CASE op.at # "start"
  <2>1. op' = op /\ call' = call /\ VisualPages' = VisualPages
    BY <1>1, <1>3, PagesStay DEF WorkerStarts
  <2> QED
    BY <1>1, <1>3, <2>1 DEF ReadInv, Counted, All, Starts, Images, PagesRight
<1> QED
    BY <1>2, <1>3

\* The next image is read; the last one ends the recognition.
LEMMA RecogniseReads == IInv /\ ReadInv /\ Recognise => ReadInv'
<1> SUFFICES ASSUME IInv, ReadInv, Recognise PROVE ReadInv'
    OBVIOUS
<1> DEFINE s == Append(op.read, Images[Len(op.read) + 1])
           o == [op EXCEPT !.read = s]
<1>1. /\ op.at = "recognise" /\ doc' = doc /\ doc \in Document /\ IsOp(op) /\ Counted
      /\ All(Images) /\ Starts(op.read) /\ Len(op.read) < Len(VisualPages)
    BY DEF Recognise, IInv, Shape, ReadInv
<1>2. Images[Len(op.read) + 1] = VisualPages[Len(op.read) + 1] /\ Len(Images) = Len(VisualPages)
  <2>1. Len(op.read) \in Nat /\ Len(VisualPages) \in Nat
    BY <1>1, VisualPagesAre DEF Starts
  <2> QED
    BY <1>1, <2>1 DEF All, Starts
<1>3. Starts(s) /\ Len(s) = Len(op.read) + 1
    BY <1>1, <1>2, StartsGrow
<1>4. \/ Len(o.read) < Len(Images) /\ Checked(o, "recognise", TRUE)
      \/ Len(o.read) = Len(Images) /\ Leave(o, "none", TRUE)
      \/ Fails(TRUE)
    BY DEF Recognise
<1> HIDE DEF s
<1>5. IsOp(o) /\ o.failure = op.failure /\ o.rendered = op.rendered /\ o.read = s
    BY <1>1 DEF IsOp
<1> HIDE DEF o
<1>6. CASE Fails(TRUE)
    BY <1>1, <1>6, FailsReads DEF Fails
<1>7. CASE Leave(o, "AbortError", TRUE)
    BY <1>1, <1>5, <1>7, FailsReads
<1>8. CASE Len(o.read) < Len(Images) /\ Await(o, "recognise")
    BY <1>1, <1>2, <1>3, <1>5, <1>8, AwaitReads
<1>9. CASE Len(o.read) = Len(Images) /\ Leave(o, "none", TRUE)
  <2>1. All(o.read)
    BY <1>2, <1>3, <1>5, <1>9 DEF All
  <2> QED
    BY <1>1, <1>5, <1>9, <2>1, LeaveReads DEF Failure
<1> QED
    BY <1>4, <1>6, <1>7, <1>8, <1>9 DEF Checked

\* The pages are put together after the worker has been ended.
LEMMA TerminateReads == IInv /\ ReadInv /\ Terminate => ReadInv'
<1> SUFFICES ASSUME IInv, ReadInv, Terminate PROVE ReadInv'
    OBVIOUS
<1>1. op.at = "terminate" /\ doc' = doc /\ doc \in Document /\ IsOp(op) /\ op.failure \in Failure
    BY DEF Terminate, IInv, Shape, ReadInv
<1>2. CASE op.failure = "none"
  <2> DEFINE pages == [p \in DOMAIN doc.native |-> Merged(p, op.read)]
             o == [op EXCEPT !.pages = pages]
  <2>1. Counted /\ All(op.read)
    BY <1>1, <1>2 DEF ReadInv
  <2>2. PagesRight(pages)
    BY <1>1, <2>1, MergedRight
  <2>3. Assembled(pages, FALSE)
    BY <1>2 DEF Terminate
  <2> HIDE DEF pages
  <2>4. IsOp(o) /\ o.pages = pages
    BY <1>1 DEF IsOp
  <2>5. Leave(o, "none", FALSE) \/ Leave(op, "error", FALSE)
    BY <2>3 DEF Assembled
  <2> HIDE DEF o
  <2> QED
    BY <1>1, <2>1, <2>2, <2>4, <2>5, LeaveReads DEF Failure
<1>3. CASE op.failure # "none"
  <2>1. Leave(op, op.failure, FALSE)
    BY <1>3 DEF Terminate
  <2> QED
    BY <1>1, <1>3, <2>1, LeaveReads
<1> QED
    BY <1>2, <1>3

\* What releases the PDF leaves the pages.
LEMMA CleanupReads == IInv /\ ReadInv /\ Cleanup => ReadInv'
<1> SUFFICES ASSUME IInv, ReadInv, Cleanup PROVE ReadInv'
    OBVIOUS
<1>1. /\ op.at = "cleanup" /\ doc' = doc /\ call # "pages"
      /\ op' = [op EXCEPT !.at = "done"] /\ call' = Settled(op.failure)
    BY DEF Cleanup, IInv, PdfInv
<1>2. op'.at = "done" /\ op'.failure = op.failure /\ op'.pages = op.pages
    BY <1>1 DEF IInv, Shape, IsOp
<1>3. call' = "pages" => op.failure = "none"
    BY <1>1 DEF Settled, IInv, Shape, Failure
<1> QED
    BY <1>1, <1>2, <1>3 DEF ReadInv, Counted, PagesRight

\* A timer or an abort ends what is under way with a failure.
LEMMA InterruptedReads ==
    ASSUME IInv, ReadInv, NEW failure \in {"AbortError", "error"}, Interrupted(failure),
           doc' = doc, call' # "pages"
    PROVE  ReadInv'
<1>1. op'.failure = failure /\ op'.at \in {"cleanup", "terminate", "done"}
    BY InterruptedGoes DEF Failure
<1> QED
    BY <1>1 DEF ReadInv

\* Every step keeps the invariant.
LEMMA NextReads == IInv /\ ReadInv /\ [Next]_vars => ReadInv'
<1> SUFFICES ASSUME IInv, ReadInv, [Next]_vars PROVE ReadInv'
    OBVIOUS
<1>1. CASE StepTimeout
  <2>1. Interrupted("error") /\ doc' = doc /\ op.at \in {"start", "recognise"}
        /\ (call' = Settled("error") \/ call' = call)
    BY <1>1 DEF StepTimeout
  <2>2. call' # "pages"
    BY <2>1 DEF Settled, IInv, PdfInv
  <2> QED
    BY <2>1, <2>2, InterruptedReads
<1>2. ASSUME NEW outcome \in {"AbortError", "timeout"}, GiveUp(outcome) PROVE ReadInv'
  <2>1. doc' = doc /\ call' = outcome
    BY <1>2 DEF GiveUp
  <2>2. CASE Interrupted("AbortError")
    BY <2>1, <2>2, InterruptedReads
  <2>3. CASE op' = op
    <3>1. VisualPages' = VisualPages
      BY <2>1, PagesStay
    <3> QED
      BY <2>1, <2>3, <3>1 DEF ReadInv, Counted, All, Starts, Images, PagesRight
  <2> QED
    BY <1>2, <2>2, <2>3 DEF GiveUp
<1>3. CASE UNCHANGED vars
  <2>1. doc' = doc /\ op' = op /\ call' = call /\ VisualPages' = VisualPages
    BY <1>3, PagesStay DEF vars
  <2> QED
    BY <2>1 DEF ReadInv, Counted, All, Starts, Images, PagesRight
<1> QED
    BY <1>1, <1>2, <1>3, LoadReads, ExtractReads, RenderReads, WorkerStartsReads,
       RecogniseReads, TerminateReads, CleanupReads DEF Next, Timeout, Abort

\* An image is read at once, a document when it has been loaded.
LEMMA InitReads == Init => ReadInv
<1> SUFFICES ASSUME Init PROVE ReadInv
    OBVIOUS
<1>1. /\ doc \in Document /\ op.failure = "none" /\ op.rendered = <<>> /\ op.read = <<>>
      /\ op.at = (IF doc.kind = "pdf" THEN "import" ELSE "start") /\ call = "open"
    BY DEF Init
<1>2. CASE doc.kind = "pdf"
    BY <1>1, <1>2 DEF ReadInv
<1>3. CASE doc.kind # "pdf"
  <2>1. All(Images)
    BY <1>1, <1>3, ImageIsRead
  <2>2. Len(VisualPages) > 0
    <3>1. Len(VisualPages) = 1
      BY <1>1, <1>3, ImagePage
    <3> QED
      BY <3>1
  <2>3. Counted
    <3>1. doc.native = <<"thin">> /\ Len(<<"thin">>) = 1
      BY <1>1, <1>3, NativePages
    <3>2. Len(doc.native) = 1
      BY <3>1
    <3> QED
      BY <3>2, GroundingAssumption DEF Counted
  <2> QED
    BY <1>1, <1>3, <2>1, <2>2, <2>3 DEF ReadInv
<1> QED
    BY <1>2, <1>3

\* For documents of any number of pages: an AbortError says that the caller left,
\* and what is read of a page was read from that page, by OCR where the page has no
\* text, whichever pages had to be looked at.
THEOREM AnswerTheorem == Spec => []AnswerIsTrue
<1>1. Init => IInv /\ AbortInv /\ ReadInv
  <2>1. Init => AbortInv
    BY InitAnswers
  <2> QED
    BY <2>1, InitHolds, InitReads
<1>2. IInv /\ AbortInv /\ ReadInv /\ [Next]_vars => (IInv /\ AbortInv /\ ReadInv)'
    BY NextKeeps, NextAnswers, NextReads
<1>3. IInv /\ AbortInv /\ ReadInv => AnswerIsTrue
  <2> SUFFICES ASSUME IInv, AbortInv, ReadInv PROVE AnswerIsTrue
    OBVIOUS
  <2>1. call = "AbortError" <=> client
    BY DEF AbortInv
  <2>2. ASSUME call = "pages" PROVE Counted /\ PagesRight(op.pages)
    BY <2>2 DEF IInv, PdfInv, ReadInv
  <2> QED
    BY <2>1, <2>2 DEF AnswerIsTrue, Counted, PagesRight
<1> QED
    BY <1>1, <1>2, <1>3, PTL DEF Spec

=============================================================================
