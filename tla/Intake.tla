-------------------------------- MODULE Intake --------------------------------
(***************************************************************************)
(* How a document comes in: the upload form of the workbench with its      *)
(* overlapping checks of a file, the request that is read chunk by chunk   *)
(* and parsed (parseRunMultipart), and the second validation of the        *)
(* executor.                                                               *)
(*                                                                         *)
(* Sizes are in steps of the limits.  A request is not made up at once:    *)
(* its form is revealed when its body has been read.                       *)
(***************************************************************************)
EXTENDS Integers, Sequences, FiniteSets

CONSTANTS
    MaxFile,            \* bytes of a document
    MaxBody,            \* bytes of a request
    MaxChunk,           \* bytes that arrive at once
    Overhead,           \* bytes of a request beside its document and its labels
    UserFile,           \* the files a user or a client has
    Label,              \* labels a reviewer may type
    FieldLists,         \* the fields of a form
    TextBytes,          \* the bytes of their labels, which no input limits
    NoFile,
    MaxSelections       \* bound: files selected in a form

BlankLabel == "blank"
MaxPages == 5
Unreadable == -1        \* the pages of a PDF without structure

ASSUME IntakeAssumption ==
    /\ {MaxFile, MaxChunk, Overhead, MaxSelections} \subseteq Nat \ {0}
    /\ MaxBody \in Nat /\ TextBytes \in [FieldLists -> Nat]
    /\ UserFile \subseteq [size : Nat, format : STRING, type : STRING, pages : Nat \cup {Unreadable}]
    /\ \A fields \in FieldLists : fields \in Seq(Label)
    /\ \E fields \in FieldLists : Len(fields) = 2
    /\ NoFile \notin UserFile

VARIABLES
    form,           \* the upload form of the page
    checks,         \* the running checks of a file
    sender,         \* what the page submitted, and whether it is running
    available,      \* the provider is configured
    post            \* the request at the server

intakeVars == <<form, checks, sender, available, post>>

-----------------------------------------------------------------------------
(* validateUpload                                                           *)

Format == {"pdf", "png", "jpeg"}

\* A label as it is typed, cleaned and compared, and made a key.
DistinctBy(labels, part(_)) ==
    \A i, j \in DOMAIN labels : part(labels[i]) = part(labels[j]) => i = j

FileErrors(file) ==
    {e \in {"empty_file", "file_too_large", "unsupported_format", "mime_mismatch", "pdf_page_limit"} :
        CASE e = "empty_file"         -> file.size = 0
          [] e = "file_too_large"     -> file.size > MaxFile
          [] e = "unsupported_format" -> file.format \notin Format /\ file.size > 0
          [] e = "mime_mismatch"      -> file.format \in Format /\ file.type # file.format
          [] OTHER                    -> file.format = "pdf" /\ file.pages > MaxPages}

\* Labels are compared as cleaned; blank ones are not compared.
LabelErrors(labels) ==
    LET clean(label) == label.clean
        written == SelectSeq(labels, LAMBDA label : label.clean # BlankLabel)
    IN  {e \in {"field_count", "blank_field", "duplicate_field"} :
            CASE e = "field_count" -> Len(labels) \notin {2, 3}
              [] e = "blank_field" -> written # labels
              [] OTHER             -> ~ DistinctBy(written, clean)}

Errors(upload) ==
    FileErrors(upload.file)
    \cup (IF upload.source # "custom" THEN {}
          ELSE LabelErrors(upload.labels) \cup (IF upload.consent THEN {} ELSE {"consent_required"}))

-----------------------------------------------------------------------------
(* The form                                                                 *)

NoForm == [file |-> NoFile, fields |-> CHOOSE f \in FieldLists : Len(f) = 2, consent |-> FALSE,
           valid |-> FALSE, checking |-> FALSE, selection |-> 0]
NoUpload == [source |-> "synthetic", mode |-> "none", file |-> NoFile, labels |-> <<>>,
             consent |-> FALSE]
NoPost == [at |-> "none", byPage |-> FALSE, bytes |-> 0, upload |-> NoUpload,
           preflight |-> "none", mode |-> "none", code |-> "none"]

IntakeInit ==
    /\ form = NoForm /\ checks = {} /\ post = NoPost
    /\ sender = [running |-> FALSE, knows |-> TRUE, upload |-> NoUpload]
    /\ available = TRUE

\* validateDocument, on the page: a large file is not even read, and a PDF must
\* have a structure.
Passes(file) == FileErrors(file) = {} /\ ~ (file.format = "pdf" /\ file.pages = Unreadable)

\* A request of another client and the form share nothing: they are looked at
\* one at a time.
FormFree == ~ sender.running /\ post.at = "none"

\* selectFile, and what comes of its check if no other file was selected since.
Select(file) ==
    /\ FormFree /\ form.selection < MaxSelections
    /\ form' = [form EXCEPT !.file = file, !.valid = FALSE, !.selection = @ + 1,
                            !.checking = @ \/ file # NoFile]
    /\ checks' = IF file = NoFile THEN checks
                 ELSE checks \cup {[by |-> "select", file |-> file, selection |-> form.selection + 1]}
    /\ UNCHANGED <<sender, available, post>>

Fill(fields, consent) ==
    /\ FormFree /\ Len(fields) \in {2, 3}
    /\ form' = [form EXCEPT !.fields = fields, !.consent = consent]
    /\ UNCHANGED <<checks, sender, available, post>>

\* requestReplacement.
ReplaceFile ==
    /\ FormFree /\ form.file # NoFile /\ form.selection < MaxSelections
    /\ form' = [form EXCEPT !.file = NoFile, !.valid = FALSE, !.checking = FALSE,
                            !.consent = FALSE, !.selection = @ + 1]
    /\ UNCHANGED <<checks, sender, available, post>>

\* The labels and the consent of the form as the page looks at them.
FilledIn(upload) ==
    LET typed(label) == label.typed
    IN  /\ \A i \in DOMAIN upload.labels : upload.labels[i].typed # BlankLabel
        /\ DistinctBy(upload.labels, typed) /\ upload.consent

StartsCheck(by) ==
    /\ form' = [form EXCEPT !.checking = TRUE]
    /\ checks' = checks \cup {[by |-> by, file |-> form.file, selection |-> form.selection]}

\* The button that validates.
ValidateFile ==
    /\ FormFree /\ form.file # NoFile
    /\ StartsCheck("validate")
    /\ UNCHANGED <<sender, available, post>>

\* runAssurance captures the form, disables it and validates its file.
Run ==
    /\ FormFree /\ sender.knows /\ form.file # NoFile
    /\ StartsCheck("run")
    /\ sender' = [sender EXCEPT !.running = TRUE,
                            !.upload = [source |-> "custom", mode |-> "live", file |-> form.file,
                                        labels |-> form.fields, consent |-> form.consent]]
    /\ UNCHANGED <<available, post>>

\* Fault: what the form says of its file is believed.
BelievesForm(check) == form.valid

Confirms(check) == Passes(check.file)

\* A check ends.  That of a selection counts if it is the last; the others set
\* what they found whatever was selected meanwhile.
CheckEnds(check) ==
    /\ checks' = checks \ {check}
    /\ IF check.by = "select" /\ check.selection # form.selection
       THEN UNCHANGED form
       ELSE form' = [form EXCEPT !.checking = FALSE, !.valid = Passes(check.file)]
    /\ IF check.by = "run" /\ sender.running
       THEN IF Confirms(check) /\ FilledIn(sender.upload)
            THEN /\ UNCHANGED sender
                 /\ post' = [NoPost EXCEPT !.at = "sent", !.byPage = TRUE, !.preflight = "given"]
            ELSE sender' = [sender EXCEPT !.running = FALSE] /\ UNCHANGED post
       ELSE UNCHANGED <<sender, post>>
    /\ UNCHANGED available

\* The run is cancelled while its file is checked, and the check goes on alone.
CancelRun ==
    /\ sender.running /\ post.at = "none"
    /\ sender' = [sender EXCEPT !.running = FALSE]
    /\ checks' = {[c EXCEPT !.by = IF @ = "run" THEN "validate" ELSE @] : c \in checks}
    /\ UNCHANGED <<form, available, post>>

\* The page asks which providers are available; a deployment takes one away.
Hydrate ==
    /\ FormFree /\ sender.knows # available
    /\ sender' = [sender EXCEPT !.knows = available]
    /\ UNCHANGED <<form, checks, available, post>>

Deploy ==
    /\ post.at = "none" /\ available /\ available' = FALSE
    /\ UNCHANGED <<form, checks, sender, post>>

-----------------------------------------------------------------------------
(* The request                                                              *)

Refuse(code) == post' = [post EXCEPT !.at = "refused", !.code = code]
Serve == UNCHANGED <<form, checks, sender, available>>

\* Any other client; runPreflight wants both headers or none, and none only
\* where the content is not multipart.
SendOther(preflight) ==
    /\ FormFree /\ form = NoForm /\ checks = {}
    /\ post' = [NoPost EXCEPT !.at = "sent", !.preflight = preflight]
    /\ Serve

\* The bytes of a request: its document, its labels, and the rest.
BodySize(upload) ==
    (IF upload.file = NoFile THEN 0 ELSE upload.file.size) + TextBytes[upload.labels] + Overhead

\* allowRunSubmission throws.
LimiterFails ==
    /\ post.at = "sent" /\ Refuse("run_request_failed") /\ Serve

\* handleRunsPost up to the body: the limit of requests, the idempotency key and
\* the headers of the preflight.  parseForm believes no declared length, but
\* refuses one that is over its limit.
Arrive(allowed, key, multipart, over) ==
    /\ post.at = "sent"
    /\ post.byPage => key /\ multipart /\ (over => BodySize(sender.upload) > MaxBody)
    /\ CASE ~ allowed -> Refuse("run_request_rate_limited")
         [] allowed /\ ~ key -> Refuse("invalid_idempotency_key")
         [] OTHER ->
                IF post.preflight = "invalid" \/ (post.preflight = "none" /\ multipart)
                THEN Refuse("invalid_run_preflight")
                ELSE IF ~ multipart THEN Refuse("invalid_content_type")
                ELSE IF over THEN Refuse("request_too_large")
                ELSE post' = [post EXCEPT !.at = "reading"]
    /\ Serve

\* The page sends no more than its form.
Sends(n) == post.byPage => post.bytes + n <= BodySize(sender.upload)

\* Fault: what has been read before is not counted.
LargeChunk(n) == n > MaxBody
TooLarge(n) == post.bytes + n > MaxBody

ReadChunk(n) ==
    /\ post.at = "reading" /\ Sends(n) /\ post.bytes <= MaxBody
    /\ IF TooLarge(n) THEN Refuse("request_too_large")
       ELSE post' = [post EXCEPT !.bytes = @ + n]
    /\ Serve

ReadFails ==
    /\ post.at = "reading" /\ Refuse("invalid_multipart") /\ Serve

\* Of several errors validateUpload finds, the first decides the answer.
First(errors) ==
    CASE "empty_file" \in errors         -> "empty_file"
      [] "file_too_large" \in errors     -> "file_too_large"
      [] errors \cap {"empty_file", "file_too_large"} = {} /\ "unsupported_format" \in errors
                                         -> "unsupported_format"
      [] OTHER -> CHOOSE e \in errors : TRUE

\* Fault: the keys are left to the labels' own check.
ParsedByLabels(upload) ==
    CASE upload.file = NoFile -> "document_required"
      [] OTHER -> IF Errors(upload) # {} THEN First(Errors(upload)) ELSE "none"

\* The custom branch of parseRunMultipart.
ParsedCustom(upload) ==
    LET key(label) == label.key
    IN  CASE upload.file = NoFile -> "document_required"
          [] OTHER ->
                 IF upload.file.size > MaxFile THEN "file_too_large"
                 ELSE IF upload.file.format = "pdf" /\ upload.file.pages = Unreadable
                 THEN "invalid_pdf"
                 ELSE IF ~ DistinctBy(upload.labels, key) THEN "duplicate_field_key"
                 ELSE IF Errors(upload) # {} THEN First(Errors(upload)) ELSE "none"

\* A sample is taken from the server's own files, whatever was sent with it.
SampleFile == [size |-> MaxFile, format |-> "pdf", type |-> "pdf", pages |-> 1]
SampleUpload(upload) == [upload EXCEPT !.file = SampleFile, !.labels = <<>>, !.consent = FALSE]

\* parseExecutionMode.
ModeOf(upload) ==
    IF upload.mode = "none" THEN IF upload.source = "custom" THEN "live" ELSE "recorded"
    ELSE upload.mode

\* The body ends.  A choice (of provider, model, source, mode or sample) is known
\* or not; the file of a sample may not load.
BodyEnds(upload, known) ==
    /\ post.at = "reading"
    /\ post.byPage => upload = sender.upload /\ known
    /\ BodySize(upload) <= post.bytes
    /\ CASE ~ known -> Refuse("invalid_choice")
         [] known /\ upload.source = "synthetic" ->
                \/ Refuse("run_request_failed")
                \/ post' = [post EXCEPT !.at = "parsed", !.upload = SampleUpload(upload),
                                        !.mode = ModeOf(upload)]
         [] OTHER ->
                IF ParsedCustom(upload) # "none" THEN Refuse(ParsedCustom(upload))
                ELSE post' = [post EXCEPT !.at = "parsed", !.upload = upload,
                                          !.mode = ModeOf(upload)]
    /\ Serve

\* handleRunsPost up to the claim: the headers must agree with the form, and the
\* server alone decides on the mode.
Admit(agrees) ==
    /\ post.at = "parsed" /\ (post.byPage => agrees)
    /\ CASE ~ agrees -> Refuse("run_preflight_mismatch")
         [] agrees /\ post.upload.source = "custom" /\ ~ available -> Refuse("live_disabled")
         [] OTHER -> post' = [post EXCEPT !.at = "admitted",
                                          !.mode = IF available THEN "live" ELSE "recorded"]
    /\ Serve

\* What the quota may say of a run of this source and mode.
QuotaCodes ==
    (IF post.mode = "live" THEN {"live_run_limit", "daily_budget"}
     ELSE {"recorded_run_limit", "global_recorded_run_limit"})
    \cup (IF post.upload.source = "custom"
          THEN {"custom_upload_limit", "global_custom_upload_limit"} ELSE {})

\* The claim, the provider and the quota, of which Submission tells: a repeated
\* key, a failure of any of them, or a limit.
Open ==
    /\ post.at = "admitted"
    /\ \/ \E code \in {"duplicate_submission", "run_request_failed"} \cup QuotaCodes : Refuse(code)
       \/ post' = [post EXCEPT !.at = "opened"]
    /\ Serve

\* executeRun validates once more.
Execute ==
    /\ post.at = "opened"
    /\ IF Errors(post.upload) # {} THEN Refuse("validation_failed")
       ELSE post' = [post EXCEPT !.at = "executed"]
    /\ Serve

\* The answer is consumed, and the form opens again.
Answered ==
    /\ post.at \in {"refused", "executed"}
    /\ post' = NoPost /\ sender' = [sender EXCEPT !.running = FALSE]
    /\ UNCHANGED <<form, checks, available>>

-----------------------------------------------------------------------------
Upload == [source : {"synthetic", "custom"}, mode : {"none", "live", "recorded"},
           file : UserFile \cup {NoFile}, labels : FieldLists, consent : BOOLEAN]

IntakeNext ==
    \/ \E file \in UserFile \cup {NoFile} : Select(file)
    \/ \E fields \in FieldLists, consent \in BOOLEAN : Fill(fields, consent)
    \/ ReplaceFile \/ ValidateFile \/ Run \/ CancelRun \/ Hydrate \/ Deploy
    \/ \E check \in checks : CheckEnds(check)
    \/ \E preflight \in {"none", "invalid", "given"} : SendOther(preflight)
    \/ LimiterFails
    \/ \E allowed, key, multipart, over \in BOOLEAN : Arrive(allowed, key, multipart, over)
    \/ \E n \in 1..MaxChunk : ReadChunk(n)
    \/ ReadFails
    \/ \E upload \in Upload, known \in BOOLEAN : BodyEnds(upload, known)
    \/ \E agrees \in BOOLEAN : Admit(agrees)
    \/ Open \/ Execute \/ Answered

IntakeSpec == IntakeInit /\ [][IntakeNext]_intakeVars

-----------------------------------------------------------------------------
(* Properties                                                               *)

\* Every variable has its shape, and no more is kept of a request than MaxBody,
\* whatever length it declared.
IntakeTypeOK ==
    /\ form \in [file : UserFile \cup {NoFile}, fields : FieldLists, consent : BOOLEAN,
                 valid : BOOLEAN, checking : BOOLEAN, selection : 0..MaxSelections]
    /\ \A c \in checks : c \in [by : {"select", "validate", "run"}, file : UserFile,
                                selection : 0..MaxSelections]
    /\ sender.running \in BOOLEAN /\ sender.knows \in BOOLEAN /\ available \in BOOLEAN
    /\ post.at \in {"none", "sent", "reading", "parsed", "admitted", "opened", "refused",
                   "executed"}
    /\ post.bytes \in 0..MaxBody

\* What was parsed can be executed: the second validation never fails, every
\* requested field has a key of its own, and a user's document is a readable one
\* within the limits that was consented to and goes to a provider.
ParsedIsExecutable ==
    /\ post.code # "validation_failed"
    /\ post.at \in {"admitted", "opened", "executed"} /\ post.upload.source = "custom" =>
           LET upload == post.upload
           IN  /\ upload.file.size \in 1..MaxFile /\ upload.file.type = upload.file.format
               /\ upload.file.format = "pdf" => upload.file.pages \in 0..MaxPages
               /\ Cardinality({upload.labels[i].key : i \in DOMAIN upload.labels})
                      = Len(upload.labels)
               /\ Len(upload.labels) \in {2, 3}
               /\ upload.consent /\ post.mode = "live"

\* What the page checks before it submits: its file, the number of its fields and
\* the consent; and what the executor must not find.
CheckedByPage ==
    {"document_required", "empty_file", "file_too_large", "unsupported_format", "mime_mismatch",
     "pdf_page_limit", "invalid_pdf", "field_count", "consent_required", "validation_failed"}

\* The page submits only what it checked itself, although checks of files overlap
\* and one of them may call a file valid that it never read: its requests are not
\* refused for anything it checks, and as too large only for labels that leave no
\* room for a document of the limit.
PageSubmitsChecked ==
    post.byPage /\ post.at = "refused" =>
        /\ post.code \notin CheckedByPage
        /\ post.code = "request_too_large" =>
               MaxFile + TextBytes[sender.upload.labels] + Overhead > MaxBody

=============================================================================
