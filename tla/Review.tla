-------------------------------- MODULE Review --------------------------------
(***************************************************************************)
(* From the claims of a provider to the workflow events of a run: the      *)
(* decision executeRun stores, the page that reads it and offers actions,  *)
(* and handleWorkflowActionPost with the compatible handleStageActionPost, *)
(* which check a request against the run they read and leave the last word *)
(* to the repository.                                                      *)
(*                                                                         *)
(* The capability for these requests comes with the event that ends the    *)
(* stream, so that nobody asks before the executor is done.                *)
(***************************************************************************)
EXTENDS Evaluation

CONSTANT Shown          \* what a page, or an evidence, may show

ASSUME ReviewAssumption == Shown \subseteq SUBSET Reading /\ \A S \in SUBSET Reading : S # Null

Tokens == {r \in Reading : r.currency = NoCurrency}

\* The values of a sample: a total is an amount of whole cents with its currency,
\* whatever else is asked of a sample is a token.
Totals == {r \in Reading : r.currency # NoCurrency /\ Cents(r.amount) = r.amount}
Words == [total : Totals, text : Tokens]
Word(words, key) == IF key = "invoice_total" THEN words.total ELSE words.text

VARIABLES
    run,        \* the row and the result of the run
    view,       \* what the page knows of it, or "none"
    request,    \* the awaited workflow request
    events,     \* actions for which there is an event
    answer      \* what the last request was answered

reviewVars == <<run, view, request, events, answer>>

\* The samples of the repository, invoices and goods receipts: the fields that
\* cannot be read in them, those that differ from the reference, and what is
\* expected of them.
Fixture(fields, missing, differing, expected) ==
    [fields |-> fields, missing |-> missing, differing |-> differing, expected |-> expected]

InvoiceFields == {"supplier", "invoice_number", "purchase_order_number", "invoice_date",
                  "currency", "invoice_total", "payment_terms", "reviewer_comments"}
Invoices ==
    {Fixture(InvoiceFields, {}, {}, "clear"),
     Fixture(InvoiceFields, {}, {"reviewer_comments"}, "needs_review"),
     Fixture(InvoiceFields, {"reviewer_comments"}, {}, "incomplete"),
     Fixture(InvoiceFields, {}, {"invoice_total"}, "needs_review"),
     Fixture(InvoiceFields, {}, {"purchase_order_number", "currency"}, "needs_review")}

WarehouseFields == {"goods_receipt_number", "delivery_note_number", "purchase_order_number",
                    "item_code", "lot_number", "expected_quantity", "received_quantity",
                    "damaged_quantity", "receiver_comments"}
Receipts ==
    {Fixture(WarehouseFields, {}, {}, "clear"),
     Fixture(WarehouseFields, {}, {"received_quantity"}, "needs_review"),
     Fixture(WarehouseFields, {"receiver_comments"}, {}, "incomplete"),
     Fixture(WarehouseFields, {}, {"item_code", "lot_number"}, "needs_review")}

NoFixture == Fixture({}, {}, {}, Null)

\* Where documents come from: samples, which may be replayed, and the files of
\* users.
Document ==
    [source : {"synthetic"}, origin : {"server_original"}, live : BOOLEAN,
     fixture : Invoices \cup Receipts, family : {TRUE}]
    \cup [source : {"custom"}, origin : {"recognized_copy", "unverified"}, live : {TRUE},
          fixture : {NoFixture}, family : {FALSE}]

\* The second page does not exist; the readings of a token have no currency.
Claim ==
    [money : {TRUE}, extracted : Value, normalized : Value,
     evidence : Shown \cup {Null}, page : {1, 2}]
    \cup [money : {FALSE}, extracted : Tokens \cup {Null, Blank},
          normalized : Tokens \cup {Null, Blank},
          evidence : (Shown \cap SUBSET Tokens) \cup {Null}, page : {1, 2}]

NoRequest == [at |-> "none", action |-> Approve, role |-> NoRole, route |-> "actions"]

ReviewInit ==
    /\ \E document \in Document :
           run = [document |-> document, status |-> "deciding", saved |-> FALSE, told |-> FALSE,
                  outcome |-> Null, guarded |-> FALSE, action |-> "none", earned |-> FALSE]
    /\ view = [status |-> "none", outcome |-> Null, guarded |-> FALSE, origin |-> "none"]
    /\ request = NoRequest /\ events = {} /\ answer = "none"

-----------------------------------------------------------------------------
(* The decision                                                             *)

\* The reference: a field is backed by its document when the cited page shows
\* its value with the currency it names, neither the provider's normalization
\* nor the reference contradicts it, and there is a value.
Contradicts(money, left, right) ==
    \/ right = Blank /\ (money \/ left # Blank)
    \/ right \in Reading /\ left.amount # right.amount
    \/ /\ right \in Reading /\ left.currency # right.currency
       /\ NoCurrency \notin {left.currency, right.currency}

Backed(claim, pages, reference) ==
    /\ claim.extracted \in Reading /\ claim.page \in DOMAIN pages /\ claim.evidence # Null
    /\ LET shown == IF claim.money THEN Cents(claim.extracted.amount) ELSE claim.extracted.amount
           value == [claim.extracted EXCEPT !.amount = shown]
       IN  /\ \E r \in claim.evidence :
                  /\ r.amount = shown
                  /\ value.currency # NoCurrency => r = value
                  /\ \E whole \in pages[claim.page] : PartOf(r, whole)
           /\ ~ Contradicts(claim.money, value, claim.normalized)
           /\ ~ Contradicts(claim.money, value, Normalized(claim.money, reference))
           /\ ~ (claim.money /\ reference = Blank)

\* One field in detail, the others by their verdicts.
OtherFields ==
    {{}} \cup {{[missing |-> s = "not_found", differs |-> s = "conflict", status |-> s]} :
               s \in {"pass", "conflict", "not_found"}}

\* What is decided of a claim of the page shown; only a sample has references.
Decided(claim, shown, reference, others, guarded) ==
    LET verdict == Evaluated(claim, run.document.live, <<shown>>)
        fields  == others \cup {Compared(claim, verdict, reference)}
        outcome == IF guarded /\ run.document.source = "custom" THEN "not_found"
                   ELSE DecideOutcome(run.document.source, fields)
    IN  [run EXCEPT !.status = "publishing", !.outcome = outcome, !.guarded = guarded,
                    !.action = ActionStatus(outcome, run.document.fixture.expected, guarded,
                                            run.document.origin),
                    !.earned = /\ Backed(claim, <<shown>>, reference)
                               /\ \A f \in others : f.status = "pass"]

Decide ==
    /\ run.status = "deciding" /\ run.document.live
    /\ \E claim \in Claim, shown \in Shown :
           \E reference \in IF run.document.source = "custom" THEN {Null} ELSE Value,
              others \in OtherFields, guarded \in BOOLEAN :
               run' = Decided(claim, shown, reference, others, guarded)
    /\ UNCHANGED <<view, request, events, answer>>

\* A replay claims what the fixture says is in the document, with its own words
\* for evidence, and is decided like any other extraction.
ReplayedClaim(key, fixture, words) ==
    LET extracted == IF key \in fixture.missing THEN Null ELSE Word(words, key)
    IN  [money |-> key = "invoice_total", extracted |-> extracted, normalized |-> extracted,
         evidence |-> IF extracted = Null THEN Null ELSE {extracted}, page |-> 1]

PagesOf(words) == <<{words.total, words.text}>>

\* The reference of a sample: its own values, but for those that differ from the
\* document or cannot be read in it.
ReferenceOf(key, fixture, words, others) ==
    Word(IF key \in fixture.missing \cup fixture.differing THEN others ELSE words, key)

Replay ==
    /\ run.status = "deciding" /\ ~ run.document.live
    /\ \E words, others \in Words :
           LET fixture == run.document.fixture
               claim(key) == ReplayedClaim(key, fixture, words)
               reference(key) == ReferenceOf(key, fixture, words, others)
               pages  == PagesOf(words)
               fields == {Compared(claim(key), Evaluated(claim(key), FALSE, pages), reference(key)) :
                              key \in fixture.fields}
               outcome == DecideOutcome("synthetic", fields)
           IN  /\ words.total # others.total /\ words.text # others.text
               /\ run' = [run EXCEPT !.status = "publishing", !.outcome = outcome,
                             !.action = ActionStatus(outcome, fixture.expected, FALSE,
                                                     run.document.origin),
                             !.earned = \A key \in fixture.fields :
                                            Backed(claim(key), pages, reference(key))]
    /\ UNCHANGED <<view, request, events, answer>>

\* saveResults takes effect; its answer may be lost, and then markFailed follows.
Save ==
    /\ run.status = "publishing"
    /\ \E lost \in BOOLEAN :
           run' = [run EXCEPT !.status = "completed", !.saved = TRUE, !.told = ~ lost]
    /\ UNCHANGED <<view, request, events, answer>>

\* markFailed, whether results were stored or not, and the event that tells.
MarkFailed ==
    /\ run.status \in {"deciding", "publishing", "completed"} /\ ~ run.told
    /\ run' = [run EXCEPT !.status = "failed", !.told = TRUE]
    /\ UNCHANGED <<view, request, events, answer>>

\* The run is deleted, or expires, and its details and events go.
Vanish ==
    /\ run.told /\ run.status # "gone"
    /\ run' = [run EXCEPT !.status = "gone"] /\ events' = {}
    /\ UNCHANGED <<view, request, answer>>

-----------------------------------------------------------------------------
(* The page                                                                 *)

\* What readPublicRun and its serialization tell of a run: the outcome is in
\* the row only once results were stored, and the classification in them.
Public ==
    [status |-> run.status, outcome |-> IF run.saved THEN run.outcome ELSE Null,
     guarded |-> run.saved /\ run.guarded, origin |-> run.document.origin]

LoadRun ==
    /\ run.told /\ run.status # "gone"
    /\ view' = Public /\ UNCHANGED <<run, request, events, answer>>

\* controlsForRun: the controls of a group, of which the allowed ones stay.
Controls(v) ==
    LET group == CASE v.guarded -> {"replace_document"}
                   [] ~ v.guarded /\ v.status = "failed" -> {"retry_processing"}
                   [] ~ v.guarded /\ v.status # "failed" /\ v.outcome = Null -> {}
                   [] OTHER -> ForOutcome(v.outcome)
    IN  group \cap Allowed(v.status, v.outcome, v.guarded, v.origin)

\* A button, with the role chosen in its dialog where it has one.
Click ==
    /\ request.at = "none" /\ view.status # "none"
    /\ \E action \in Controls(view) :
           \E role \in IF NeedsRole(action) THEN Roles(run.document.family) ELSE {NoRole} :
               request' = [NoRequest EXCEPT !.at = "read", !.action = action, !.role = role]
    /\ answer' = "none" /\ UNCHANGED <<run, view, events>>

\* Any request of a holder of the capability, to either route.
Send(action, role, route) ==
    /\ request.at = "none" /\ run.told
    /\ route = "stage" => action = Approve /\ role = NoRole
    /\ request' = [at |-> "read", action |-> action, role |-> role, route |-> route]
    /\ answer' = "none" /\ UNCHANGED <<run, view, events>>

-----------------------------------------------------------------------------
(* The handlers                                                             *)

Answer(text) == answer' = text /\ request' = NoRequest

\* The events of email previews need a stored result.
Previewable(v) == v.status = "completed" /\ v.outcome # Null /\ run.saved

\* What is refused after the run was read, in the order of the checks.
RefusedAction(action, role, v) ==
    CASE v.status = "gone" -> "gone"
      [] v.status \notin {"completed", "failed", "gone"} -> "unavailable"
      [] v.status \in {"completed", "failed"} ->
             IF action \notin Allowed(v.status, v.outcome, v.guarded, v.origin) THEN "not_allowed"
             ELSE IF ~ RoleAllowed(action, run.document.family, role) THEN "role_not_allowed"
             ELSE IF action = "prepare_email" /\ ~ Previewable(v) THEN "unavailable"
             ELSE "none"

\* Fault: the stage route relies on the status of the stored action.
RefusedStageByAction(v) ==
    CASE v.status = "gone" -> "gone"
      [] v.status # "gone" /\ (v.status # "completed" \/ ~ run.saved) -> "unavailable"
      [] OTHER -> IF run.action = "blocked" THEN "blocked" ELSE "none"

RefusedStage(v) ==
    CASE v.status = "gone" -> "gone"
      [] v.status # "gone" /\ (v.status # "completed" \/ ~ run.saved) -> "unavailable"
      [] OTHER -> IF run.action = "blocked" THEN "blocked"
                  ELSE IF Approve \notin Allowed(v.status, v.outcome, v.guarded, v.origin)
                  THEN "unavailable" ELSE "none"

Refused(action, role, route, v) ==
    IF route = "stage" THEN RefusedStage(v) ELSE RefusedAction(action, role, v)

\* The rate limit, the capability and the parser may refuse; then the run is
\* read and checked.
Read ==
    /\ request.at = "read"
    /\ LET refused == Refused(request.action, request.role, request.route, Public)
       IN  \/ Answer("denied")
           \/ refused # "none" /\ Answer(refused)
           \/ refused = "none" /\ request' = [request EXCEPT !.at = "insert"] /\ UNCHANGED answer
    /\ UNCHANGED <<run, view, events>>

\* Fault: nothing is accepted for a failed run.
InsertableIfCompleted(action) ==
    CASE run.status = "gone" -> "gone"
      [] run.status = "completed" -> "none"
      [] OTHER -> "unavailable"

\* createWorkflowEvent: the repository looks at the status alone.
Insertable(action) ==
    CASE run.status = "gone" -> "gone"
      [] run.status = "failed" -> IF action = "retry_processing" THEN "none" ELSE "unavailable"
      [] run.status \notin {"gone", "failed"} ->
             IF run.status = "completed" THEN "none" ELSE "unavailable"

Insert ==
    /\ request.at = "insert"
    /\ LET refused == Insertable(request.action)
           event   == [action |-> request.action, role |-> request.role]
       IN  \/ refused # "none" /\ Answer(refused) /\ UNCHANGED events
           \/ /\ refused = "none" /\ events' = events \cup {event}
              /\ Answer(IF event \in events THEN "already_created" ELSE "created")
    /\ UNCHANGED <<run, view>>

-----------------------------------------------------------------------------
ReviewNext ==
    \/ Decide \/ Replay \/ Save \/ MarkFailed \/ Vanish
    \/ LoadRun \/ Click
    \/ \E action \in ActionType, role \in {NoRole, "business", "generic"},
          route \in {"actions", "stage"} : Send(action, role, route)
    \/ Read \/ Insert

ReviewSpec == ReviewInit /\ [][ReviewNext]_reviewVars

-----------------------------------------------------------------------------
(* Properties                                                               *)

\* Every variable has its shape, and every event names one of the roles of its
\* document where its action needs one, and only there.
ReviewTypeOK ==
    /\ run \in [document : Document, saved : BOOLEAN, told : BOOLEAN, guarded : BOOLEAN,
                status : {"deciding", "publishing", "completed", "failed", "gone"},
                outcome : Outcome \cup {Null}, earned : BOOLEAN,
                action : {"none", "ready", "needs_review", "blocked"}]
    /\ view.outcome \in Outcome \cup {Null}
    /\ request \in [at : {"none", "read", "insert"}, action : ActionType,
                    role : {NoRole, "business", "generic"}, route : {"actions", "stage"}]
    /\ \A e \in events : e.action \in ActionType
    /\ \A e \in events :
           IF NeedsRole(e.action) THEN e.role \in Roles(run.document.family) ELSE e.role = NoRole
    /\ answer \in {"none", "denied", "gone", "unavailable", "not_allowed", "role_not_allowed",
                   "blocked", "already_created", "created"}

\* Whatever the provider claimed and whichever route was asked, a posting handoff
\* is prepared only for a run that is completed or gone, of a document of known
\* origin and kind, every field of which its pages bear out.
HandoffIsEarned ==
    (\E e \in events : e.action = Approve) =>
        /\ run.status = "completed" /\ run.earned /\ ~ run.guarded
        /\ run.document.origin # "unverified"

\* What the page offers for a run as it is, the handler allows and the repository
\* accepts, and it offers something: three tables in three places agree.  There
\* are two exceptions.  A guarded run that failed after its results were stored:
\* the repository refuses the one control its page offers.  And a run in need of
\* a review of its origin: see ReviewIsOffered.
OfferedIsServed ==
    run.told /\ run.status # "gone" /\ ~ (run.status = "failed" /\ run.saved /\ run.guarded) =>
        /\ \A action \in Controls(Public) :
               \E role \in {NoRole} \cup Roles(run.document.family) :
                   /\ RefusedAction(action, role, Public) = "none"
                   /\ Insertable(action) = "none"
        /\ Controls(Public) = {} =>
               run.status = "completed" /\ OriginReview(run.outcome, run.document.origin)

\* A completed run is either counted for human review or open to a handoff, by
\* both routes alike; a guarded one is neither, and its action is blocked.
ReviewedOrReady ==
    run.status = "completed" =>
        LET open == Refused(Approve, NoRole, "actions", Public) = "none"
        IN  /\ open <=> Refused(Approve, NoRole, "stage", Public) = "none"
            /\ open <=> ~ run.guarded /\ ~ HumanReview(run.outcome, run.document.origin)
            /\ open => run.action # "blocked"
            /\ run.guarded => run.action = "blocked"

\* A replayed sample comes out as its fixture expects, status of the action
\* included: the two tables of values and the evaluation agree.  The totals of the
\* invoices carry a currency, and may differ in it alone.
ReplayIsExpected ==
    ~ run.document.live /\ run.outcome # Null =>
        /\ run.outcome = run.document.fixture.expected
        /\ run.action = FixtureStatus(run.outcome)

\* "Evidence-consistent unverified runs cross a mandatory human-review boundary
\* ... Server action policy removes `approve_and_stage` while retaining
\* outcome-appropriate manual-review actions" (docs/architecture.md): the page of
\* a completed run that needs a person offers an action of one.  The code does not
\* keep it, and no run checks it: the server would allow what no panel offers.
ReviewIsOffered ==
    run.told /\ run.status = "completed" /\ HumanReview(run.outcome, run.document.origin) =>
        Controls(Public) # {}

=============================================================================
