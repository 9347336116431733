------------------------------ MODULE Evaluation ------------------------------
(***************************************************************************)
(* What the server makes of a provider's claims: the verdict on a field    *)
(* (deterministicFieldResult, compareFieldWithReference), the outcome of   *)
(* the run (decideOutcome), the status of its action (applyActionPolicy)   *)
(* and what may then be done with it (workflow-actions.ts).                *)
(*                                                                         *)
(* A text is what is read in it.  Of a value only the first reading counts *)
(* and of an evidence any; Null is no text and Blank a text in which       *)
(* nothing can be read.  The reading of a text that is not an amount is a  *)
(* token without a currency.                                               *)
(***************************************************************************)
EXTENDS Integers, Sequences

CONSTANTS
    Reading,        \* readings, of an amount in tenths of a cent and a currency
    Cut,            \* pairs of readings: a part of the text of the second reads
                    \* as the first
    Null, Blank

NoCurrency == "none"

Amount == [amount : Nat, currency : STRING]
Outcome == {"clear", "needs_review", "incomplete",
            "evidence_consistent", "conflict", "not_found"}

ASSUME EvaluationAssumption ==
    /\ Reading \subseteq Amount
    /\ Null \notin Amount \cup Outcome /\ Blank \notin Amount /\ Null # Blank
    /\ Cut \subseteq Reading \X Reading

Value == Reading \cup {Null, Blank}

-----------------------------------------------------------------------------
(* Fields                                                                   *)

\* The normalized value keeps two decimals.  Of an amount without digits
\* nothing is left; a text without letters stays a text.
Cents(amount) == ((amount + 5) \div 10) * 10

Normalized(money, value) ==
    CASE value = Null            -> Null
      [] value = Blank           -> IF money THEN Null ELSE Blank
      [] OTHER                   -> IF money THEN [value EXCEPT !.amount = Cents(@)] ELSE value

\* Fault: the amounts alone are compared.
MatchAmounts(money, left, right) ==
    IF Blank \in {left, right} THEN ~ money /\ left = right ELSE left.amount = right.amount

\* valuesMatch: a missing currency matches any.
Match(money, left, right) ==
    IF Blank \in {left, right} THEN ~ money /\ left = right
    ELSE /\ left.amount = right.amount
         /\ left.currency = right.currency \/ NoCurrency \in {left.currency, right.currency}

\* Fault: a currency is looked for only where the evidence has one.
SupportedLoosely(money, value, evidence) ==
    value # Blank /\ \E r \in evidence : Match(money, value, r)

\* evidenceSupportsValue: a currency of the value must be in the evidence.
Supported(money, value, evidence) ==
    /\ value # Blank
    /\ \E r \in evidence :
           r.amount = value.amount /\ value.currency \in {NoCurrency, r.currency}

\* evidenceMapsToPage: the cited page exists and contains the evidence, whose
\* readings may have been cut out of longer ones.
PartOf(r, whole) == r = whole \/ <<r, whole>> \in Cut

Grounded(claim, pages) ==
    /\ claim.page \in DOMAIN pages /\ claim.evidence # Null
    /\ \A r \in claim.evidence : \E whole \in pages[claim.page] : PartOf(r, whole)

\* deterministicFieldResult; candidate is the evaluator's own verdict.
Verdict(claim, required, grounded, candidate) ==
    LET value == Normalized(claim.money, claim.extracted)
    IN  CASE claim.extracted = Null -> "not_found"
          [] claim.extracted # Null /\ value = Null ->
                 IF required THEN "conflict" ELSE "not_found"
          [] OTHER ->
                 IF /\ required => grounded
                    /\ claim.normalized # Null => Match(claim.money, value, claim.normalized)
                    /\ claim.evidence # Null /\ Supported(claim.money, value, claim.evidence)
                    /\ candidate # "conflict"
                 THEN "pass" ELSE "conflict"

\* The verdict of the default evaluator, then the server's own.
Evaluated(claim, required, pages) ==
    Verdict(claim, required, Grounded(claim, pages), Verdict(claim, FALSE, FALSE, "pass"))

\* compareFieldWithReference.
Compared(claim, verdict, reference) ==
    LET expected == Normalized(claim.money, reference)
        value == Normalized(claim.money, claim.extracted)
        match == \/ reference = Null
                 \/ value # Null /\ expected # Null /\ Match(claim.money, value, expected)
    IN  [missing |-> claim.extracted = Null, differs |-> ~ match,
         status |-> IF verdict = "not_found" \/ match THEN verdict ELSE "conflict"]

-----------------------------------------------------------------------------
(* Outcome and action                                                       *)

\* decideOutcome.
DecideOutcome(source, fields) ==
    IF source = "synthetic"
    THEN CASE \E f \in fields : f.missing -> "incomplete"
           [] \A f \in fields : ~ f.missing /\ f.status # "conflict" /\ ~ f.differs -> "clear"
           [] OTHER -> "needs_review"
    ELSE CASE \E f \in fields : f.missing \/ f.status = "not_found" -> "not_found"
           [] \A f \in fields : f.status = "pass" -> "evidence_consistent"
           [] OTHER -> "conflict"

Positive == {"clear", "evidence_consistent"}
Negative == {"incomplete", "not_found"}

\* requiresSourceOriginReview and requiresHumanReview.
OriginReview(outcome, origin) == origin = "unverified" /\ outcome \in Positive
HumanReview(outcome, origin) == OriginReview(outcome, origin) \/ outcome \notin Positive

\* The status a fixture's own action has, by the outcome it expects.
FixtureStatus(expected) ==
    CASE expected = "clear" -> "ready" [] expected = "incomplete" -> "blocked"
      [] OTHER -> "needs_review"

\* applyActionPolicy; expected is Null for a document without a fixture.
ActionStatus(outcome, expected, guarded, origin) ==
    CASE guarded \/ outcome \in Negative -> "blocked"
      [] ~ guarded /\ (OriginReview(outcome, origin) \/ outcome \in {"conflict", "needs_review"})
             -> "needs_review"
      [] OTHER ->
             IF expected = Null THEN IF outcome = "evidence_consistent" THEN "ready" ELSE "needs_review"
             ELSE IF expected # outcome THEN "needs_review" ELSE FixtureStatus(expected)

-----------------------------------------------------------------------------
(* Workflow actions                                                         *)

Approve == "approve_and_stage"
ActionType == {Approve, "assign_review", "prepare_email", "request_clearer_document",
               "replace_document", "retry_processing"}

ForOutcome(outcome) ==
    CASE outcome \in Positive -> {Approve}
      [] outcome \in Negative -> {"request_clearer_document", "assign_review", "replace_document"}
      [] OTHER -> {"assign_review", "prepare_email"}

\* allowedWorkflowActionsForRun.
Allowed(status, outcome, guarded, origin) ==
    CASE guarded -> {"replace_document"}
      [] ~ guarded /\ status = "failed" -> {"retry_processing"}
      [] ~ guarded /\ status = "completed" /\ outcome # Null ->
             IF OriginReview(outcome, origin) THEN {"assign_review", "prepare_email"}
             ELSE ForOutcome(outcome)
      [] OTHER -> {}

NoRole == "none"

\* allowedRecipientRoles: those of the family, or the generic ones.
Roles(family) == IF family THEN {"business"} ELSE {"generic"}
NeedsRole(action) ==
    action \in {"assign_review", "prepare_email", "request_clearer_document"}

\* recipientRoleAllowed.
RoleAllowed(action, family, role) ==
    role \in IF NeedsRole(action) THEN Roles(family) ELSE {NoRole}

=============================================================================
