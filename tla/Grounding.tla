------------------------------ MODULE Grounding ------------------------------
(***************************************************************************)
(* Reading the text of a document locally, before any claim of the model   *)
(* is believed: groundDocument of                                          *)
(* src/src/server/workflow/document-grounding.ts.                          *)
(*                                                                         *)
(* The call races an extraction against its timer and the caller's abort   *)
(* and ends with whichever comes first; the extraction cannot be stopped   *)
(* and goes on behind it, with a PDF and an OCR worker of its own.  A step *)
(* is what runs between two awaits of the extraction, or a timer, or the   *)
(* abort.  Libraries may answer late, fail, or never answer.               *)
(***************************************************************************)
EXTENDS Naturals, Sequences, FiniteSets, SequencesExt

CONSTANT MaxPages       \* MAX_PDF_PAGES

ASSUME GroundingAssumption == MaxPages \in Nat \ {0}

VARIABLES
    doc,        \* the document and how it is to be read
    client,     \* the caller's signal has aborted
    call,       \* how groundDocument ended, "open" until then
    op,         \* the extraction: what it awaits, and its local variables
    pdf,        \* the PDF loading task
    worker      \* the OCR worker

vars == <<doc, client, call, op, pdf, worker>>

\* Pages have text of their own, or too little of it to be told from a scan.
Document ==
    [kind : {"pdf"}, native : UNION {[1..n -> {"text", "thin"}] : n \in 0..(MaxPages + 1)},
     visual : BOOLEAN, declared : 0..MaxPages]
    \cup [kind : {"image", "bomb"}, native : {<<"thin">>}, visual : {FALSE}, declared : {1}]

Init ==
    /\ doc \in Document
    /\ client = FALSE
    /\ call = "open"
    /\ op = [at |-> IF doc.kind = "pdf" THEN "import" ELSE "start", failure |-> "none",
             rendered |-> <<>>, read |-> <<>>, pages |-> <<>>]
    /\ pdf = "none"
    /\ worker = [life |-> IF doc.kind = "image" THEN "starting" ELSE "none", late |-> FALSE]

-----------------------------------------------------------------------------
(* The extraction                                                           *)

\* The signal the extraction sees: the caller's, or the controller that the
\* call aborts when it is cancelled.
Aborted == client \/ call \in {"AbortError", "timeout"}

\* A set of page numbers, in the order of the document.
InOrder(S) ==
    CHOOSE s \in [1..Cardinality(S) -> S] :
        ToSet(s) = S /\ \A i, j \in DOMAIN s : i < j => s[i] < s[j]

\* Pages that must be looked at: all of them, or those nearly without text.
VisualPages == InOrder({p \in DOMAIN doc.native : doc.visual \/ doc.native[p] = "thin"})

\* Fault: the first page read by OCR replaces the first page of the document.
MergedInOrder(p, read) ==
    IF p \notin DOMAIN read THEN {<<"native", p>>} ELSE {<<"ocr", read[p]>>}

\* OCR replaces the text of a page, or is added to it.
Merged(p, read) ==
    IF p \notin ToSet(VisualPages) THEN {<<"native", p>>}
    ELSE {<<"ocr", read[CHOOSE i \in DOMAIN VisualPages : VisualPages[i] = p]>>}
         \cup IF doc.visual /\ doc.native[p] = "text" THEN {<<"native", p>>} ELSE {}

\* How the call ends when the extraction does, unless it has ended before.
Settled(failure) ==
    IF call # "open" THEN call
    ELSE CASE failure = "none"       -> "pages"
           [] failure = "AbortError" -> "AbortError"
           [] OTHER                  -> "error"

\* Fault: the worker is terminated where the pages are returned, not in finally.
LeaveWithoutFinally(o, failure, owned) ==
    LET next == IF owned /\ failure = "none" THEN "terminate"
                ELSE IF doc.kind = "pdf" THEN "cleanup" ELSE "done"
    IN  /\ op' = [o EXCEPT !.at = next, !.failure = failure]
        /\ call' = IF next = "done" THEN Settled(failure) ELSE call

\* The finally block of ocrImages, then the one of extractPdfPages.
Leave(o, failure, owned) ==
    LET next == IF owned THEN "terminate" ELSE IF doc.kind = "pdf" THEN "cleanup" ELSE "done"
    IN  /\ op' = [o EXCEPT !.at = next, !.failure = failure]
        /\ call' = IF next = "done" THEN Settled(failure) ELSE call

\* A page whose text is too long, and the like, fails after all.
Assembled(pages, owned) ==
    \/ Leave([op EXCEPT !.pages = pages], "none", owned)
    \/ Leave(op, "error", owned)

Stay == call' = call
Await(o, at) == op' = [o EXCEPT !.at = at] /\ Stay

\* throwIfGroundingAborted, then await the next call.
Checked(o, at, owned) ==
    IF Aborted THEN Leave(o, "AbortError", owned) ELSE Await(o, at)

\* The library answers with an error.
Fails(owned) == Leave(op, "error", owned)

\* import("unpdf") and getResolvedPDFJS, each followed by a check; then the
\* loading task starts and its cancellation is registered.
Import ==
    /\ op.at = "import"
    /\ \/ /\ Aborted
          /\ op' = [op EXCEPT !.at = "done", !.failure = "AbortError"]
          /\ call' = Settled("AbortError") /\ UNCHANGED pdf
       \/ ~ Aborted /\ Await(op, "load") /\ pdf' = "open"
       \/ /\ op' = [op EXCEPT !.at = "done", !.failure = "error"]
          /\ call' = Settled("error") /\ UNCHANGED pdf
    /\ UNCHANGED <<doc, client, worker>>

PagesAccepted ==
    /\ Len(doc.native) \in 1..MaxPages
    /\ doc.declared \in {0, Len(doc.native)}

Load ==
    /\ op.at = "load"
    /\ \/ IF Aborted \/ PagesAccepted THEN Checked(op, "extract", FALSE) ELSE Fails(FALSE)
       \/ Fails(FALSE)
    /\ UNCHANGED <<doc, client, pdf, worker>>

Extract ==
    /\ op.at = "extract"
    /\ \/ IF VisualPages = <<>>
          THEN Assembled([p \in DOMAIN doc.native |-> Merged(p, <<>>)], FALSE)
          ELSE Checked(op, "render", FALSE)
       \/ Fails(FALSE)
    /\ UNCHANGED <<doc, client, pdf, worker>>

\* Each page is rendered after a check; after the last one the worker is
\* started and only then the signal is looked at, by bounded, which then ends
\* without having anything cancelled.
Render ==
    LET o == [op EXCEPT !.rendered = Append(@, VisualPages[Len(@) + 1])]
    IN  /\ op.at = "render"
        /\ \/ /\ Len(o.rendered) < Len(VisualPages)
              /\ Checked(o, "render", FALSE) /\ UNCHANGED worker
           \/ /\ Len(o.rendered) = Len(VisualPages)
              /\ Checked(o, "start", FALSE)
              /\ worker' = [life |-> "starting", late |-> Aborted]
           \/ Fails(FALSE) /\ UNCHANGED worker
        /\ UNCHANGED <<doc, client, pdf>>

Images == IF doc.kind = "pdf" THEN op.rendered ELSE <<1>>

\* An image whose declared size is unreadable or beyond the limits is refused
\* before a worker is made.
Refuse ==
    /\ op.at = "start" /\ worker.life = "none"
    /\ Fails(FALSE) /\ UNCHANGED <<doc, client, pdf, worker>>

\* The worker is there, or could not be made.  One that nobody waits for any
\* more is terminated if its cancellation asked for that.
WorkerStarts ==
    /\ worker.life \in {"starting", "doomed"}
    /\ \E made \in BOOLEAN :
           /\ worker' = [worker EXCEPT !.life =
                             IF made /\ @ = "starting" THEN "ready" ELSE "ended"]
           /\ IF op.at = "start"
              THEN IF made THEN Checked(op, "recognise", TRUE) ELSE Fails(FALSE)
              ELSE UNCHANGED <<op, call>>
    /\ UNCHANGED <<doc, client, pdf>>

Recognise ==
    LET o == [op EXCEPT !.read = Append(@, Images[Len(@) + 1])]
    IN  /\ op.at = "recognise"
        /\ \/ /\ Len(o.read) < Len(Images)
              /\ Checked(o, "recognise", TRUE)
           \/ /\ Len(o.read) = Len(Images)
              /\ Leave(o, "none", TRUE)
           \/ Fails(TRUE)
        /\ UNCHANGED <<doc, client, pdf, worker>>

\* The worker is terminated, and the pages put together.
Terminate ==
    /\ op.at = "terminate"
    /\ worker' = [worker EXCEPT !.life = "ended"]
    /\ IF op.failure = "none"
       THEN Assembled([p \in DOMAIN doc.native |-> Merged(p, op.read)], FALSE)
       ELSE Leave(op, op.failure, FALSE)
    /\ UNCHANGED <<doc, client, pdf>>

Cleanup ==
    /\ op.at = "cleanup"
    /\ op' = [op EXCEPT !.at = "done"] /\ call' = Settled(op.failure)
    /\ pdf' = "destroyed"
    /\ UNCHANGED <<doc, client, worker>>

-----------------------------------------------------------------------------
(* Timers and the abort                                                     *)

\* Fault: a worker that is still being made is not terminated.
InterruptedAtWork(failure) ==
    \/ /\ op.at = "start" /\ worker.life = "starting"
       /\ op' = [op EXCEPT !.at = IF doc.kind = "pdf" THEN "cleanup" ELSE "done",
                           !.failure = failure]
       /\ UNCHANGED worker
    \/ /\ op.at = "recognise"
       /\ op' = [op EXCEPT !.at = "terminate", !.failure = failure]
       /\ worker' = [worker EXCEPT !.life = "ended"]

\* What onCancel does to the OCR step that is under way: the worker being
\* made is terminated when it is there, the one at work at once.
Interrupted(failure) ==
    \/ /\ op.at = "start" /\ worker.life = "starting"
       /\ op' = [op EXCEPT !.at = IF doc.kind = "pdf" THEN "cleanup" ELSE "done",
                           !.failure = failure]
       /\ worker' = [worker EXCEPT !.life = "doomed"]
    \/ /\ op.at = "recognise"
       /\ op' = [op EXCEPT !.at = "terminate", !.failure = failure]
       /\ worker' = [worker EXCEPT !.life = "ended"]

\* OCR_WORKER_START_TIMEOUT_MS and OCR_PAGE_TIMEOUT_MS.
StepTimeout ==
    /\ op.at \in {"start", "recognise"} /\ Interrupted("error")
    /\ call' = IF op'.at = "done" THEN Settled("error") ELSE call
    /\ UNCHANGED <<doc, client, pdf>>

\* The call gives up: the controller is aborted, which reaches the extraction
\* where it listens, and the PDF is destroyed.
GiveUp(outcome) ==
    /\ call = "open" /\ call' = outcome
    /\ \/ Interrupted("AbortError")
       \/ op.at \notin {"start", "recognise"} /\ UNCHANGED <<op, worker>>
    /\ pdf' = IF pdf = "open" THEN "destroyed" ELSE pdf
    /\ UNCHANGED doc

\* DOCUMENT_GROUNDING_TIMEOUT_MS.
Timeout == GiveUp("timeout") /\ UNCHANGED client

Abort == GiveUp("AbortError") /\ client' = TRUE

-----------------------------------------------------------------------------
Next ==
    \/ Import \/ Load \/ Extract \/ Render \/ Refuse \/ WorkerStarts \/ Recognise
    \/ Terminate \/ Cleanup
    \/ StepTimeout \/ Timeout \/ Abort

Spec == Init /\ [][Next]_vars

\* Timers fire; a refusal is synchronous; a worker that is being made is made or
\* not; terminating one ends.  Nothing else a library is asked for needs to be
\* answered.
FairSpec ==
    /\ Spec
    /\ WF_vars(Timeout) /\ WF_vars(StepTimeout)
    /\ WF_vars(Refuse) /\ WF_vars(WorkerStarts) /\ WF_vars(Terminate)

-----------------------------------------------------------------------------
(* Properties                                                               *)

\* However the call ends, the PDF is gone when it does; and an extraction that
\* is over, possibly long after its call, holds no worker that nothing will
\* terminate.  The exception is the worker that is made when the signal aborted
\* while the last page was being rendered: the code loses it.
NothingIsHeld ==
    /\ call # "open" => pdf # "open"
    /\ op.at = "done" /\ ~ worker.late => worker.life \in {"none", "doomed", "ended"}

\* The executor deletes a run whose grounding was aborted and fails any other, so
\* an AbortError must mean that the caller left, never that the timer aborted the
\* extraction; and a claim cites a page by its number, so what is read of a page
\* must come from that page, by OCR where the page had no text.
AnswerIsTrue ==
    /\ call = "AbortError" <=> client
    /\ call = "pages" =>
           /\ Len(op.pages) = Len(doc.native) /\ Len(op.pages) \in 1..MaxPages
           /\ \A p \in DOMAIN op.pages :
                  /\ op.pages[p] \in (SUBSET {<<"native", p>>, <<"ocr", p>>}) \ {{}}
                  /\ doc.native[p] = "thin" \/ doc.visual => <<"ocr", p>> \in op.pages[p]
                  /\ doc.native[p] = "text" => <<"native", p>> \in op.pages[p]

\* Every call ends, whatever the libraries do; and a worker that was started in
\* time is terminated, also when recognition hangs or its call ended long before.
GroundingEnds ==
    /\ <>(call # "open")
    /\ worker.life = "starting" /\ ~ worker.late ~> worker.life = "ended"

=============================================================================
