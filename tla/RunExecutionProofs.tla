-------------------------- MODULE RunExecutionProofs --------------------------
(* No document is orphaned, no call goes uncharged, none is overcharged or    *)
(* given away, and the client is told what the row says, for any lease, cost, *)
(* number of fields and number of calls that fail.                            *)
EXTENDS RunExecution, TLAPS

-----------------------------------------------------------------------------
(* The inductive invariant                                                  *)

IsRun(r) ==
    r = [at |-> r.at, stage |-> r.stage, live |-> r.live, limit |-> r.limit,
         dispatches |-> r.dispatches, calls |-> r.calls, retries |-> r.retries,
         trusted |-> r.trusted, settlement |-> r.settlement, fields |-> r.fields,
         told |-> r.told]

IsRow(r) ==
    r = [status |-> r.status, key |-> r.key, attributed |-> r.attributed,
         steps |-> r.steps, completed |-> r.completed, failed |-> r.failed]

IsFile(f) == f = [blob |-> f.blob, job |-> f.job]

Shape == IsRun(run) /\ IsRow(row) /\ IsFile(file)

\* Where the run may still come to store its document, or has.
Working ==
    {"append", "announce", "store", "extract", "mark", "attribute", "clear", "undoMark",
     "generate", "appendRetry", "ground", "appendField", "appendDecision", "settle", "save"}

\* A run at work has its key, and the job goes after the document.
KeyInv ==
    /\ run.at \in Working => row.key = TRUE
    /\ file.blob = TRUE => row.key = TRUE \/ file.job = TRUE
    /\ run.at = "deleteJob" => file.blob = FALSE

IInv == Shape /\ KeyInv

LEMMA InitHolds == Init => IInv
BY DEF Init, IInv, Shape, IsRun, IsRow, IsFile, KeyInv, Working

-----------------------------------------------------------------------------
(* Steps                                                                    *)

\* Going to a point changes nothing else.
LEMMA Goes ==
    ASSUME NEW r, NEW point, IsRun(r)
    PROVE  IsRun(To(r, point)) /\ To(r, point).at = point
BY DEF IsRun, To

\* Nor does going there with another stage, retry, call or event.
LEMMA GoesToStage ==
    ASSUME NEW r, NEW point, NEW value, IsRun(r)
    PROVE  /\ IsRun([r EXCEPT !.at = point, !.stage = value])
           /\ [r EXCEPT !.at = point, !.stage = value].at = point
<1> DEFINE there == [r EXCEPT !.at = point]
<1>1. IsRun(there) /\ there.at = point
    BY DEF IsRun
<1>2. [r EXCEPT !.at = point, !.stage = value] = [there EXCEPT !.stage = value]
    OBVIOUS
<1> HIDE DEF there
<1>3. IsRun([there EXCEPT !.stage = value]) /\ [there EXCEPT !.stage = value].at = point
    BY <1>1 DEF IsRun
<1> QED
    BY <1>2, <1>3

\* The same of a retry.
LEMMA GoesToRetry ==
    ASSUME NEW r, NEW point, NEW value, IsRun(r)
    PROVE  /\ IsRun([r EXCEPT !.at = point, !.retries = value])
           /\ [r EXCEPT !.at = point, !.retries = value].at = point
<1> DEFINE there == [r EXCEPT !.at = point]
<1>1. IsRun(there) /\ there.at = point
    BY DEF IsRun
<1>2. [r EXCEPT !.at = point, !.retries = value] = [there EXCEPT !.retries = value]
    OBVIOUS
<1> HIDE DEF there
<1>3. IsRun([there EXCEPT !.retries = value]) /\ [there EXCEPT !.retries = value].at = point
    BY <1>1 DEF IsRun
<1> QED
    BY <1>2, <1>3

\* The same of a call.
LEMMA GoesCalling ==
    ASSUME NEW r, NEW point, IsRun(r)
    PROVE  /\ IsRun([r EXCEPT !.at = point, !.calls = @ + 1])
           /\ [r EXCEPT !.at = point, !.calls = @ + 1].at = point
<1> DEFINE there == [r EXCEPT !.at = point]
<1>1. IsRun(there) /\ there.at = point
    BY DEF IsRun
<1>2. [r EXCEPT !.at = point, !.calls = @ + 1] = [there EXCEPT !.calls = @ + 1]
    OBVIOUS
<1> HIDE DEF there
<1>3. IsRun([there EXCEPT !.calls = @ + 1]) /\ [there EXCEPT !.calls = @ + 1].at = point
    BY <1>1 DEF IsRun
<1> QED
    BY <1>2, <1>3

\* The same of an event.
LEMMA GoesTelling ==
    ASSUME NEW r, NEW point, NEW value, IsRun(r)
    PROVE  /\ IsRun([r EXCEPT !.at = point, !.told = value])
           /\ [r EXCEPT !.at = point, !.told = value].at = point
<1> DEFINE there == [r EXCEPT !.at = point]
<1>1. IsRun(there) /\ there.at = point
    BY DEF IsRun
<1>2. [r EXCEPT !.at = point, !.told = value] = [there EXCEPT !.told = value]
    OBVIOUS
<1> HIDE DEF there
<1>3. IsRun([there EXCEPT !.told = value]) /\ [there EXCEPT !.told = value].at = point
    BY <1>1 DEF IsRun
<1> QED
    BY <1>2, <1>3

\* A row keeps its key when its status is written.
LEMMA WithStatus ==
    ASSUME NEW r, NEW value, IsRow(r)
    PROVE  IsRow([r EXCEPT !.status = value]) /\ [r EXCEPT !.status = value].key = r.key
BY DEF IsRow

\* When it is attributed to a provider.
LEMMA WithMark ==
    ASSUME NEW r, NEW value, IsRow(r)
    PROVE  IsRow([r EXCEPT !.attributed = value]) /\ [r EXCEPT !.attributed = value].key = r.key
BY DEF IsRow

\* When it was completed.
LEMMA WithResults ==
    ASSUME NEW r, NEW value, IsRow(r)
    PROVE  IsRow([r EXCEPT !.completed = value]) /\ [r EXCEPT !.completed = value].key = r.key
BY DEF IsRow

\* When it failed.
LEMMA WithFailure ==
    ASSUME NEW r, NEW value, IsRow(r)
    PROVE  IsRow([r EXCEPT !.failed = value]) /\ [r EXCEPT !.failed = value].key = r.key
BY DEF IsRow

\* Where the catch block is before it touches the document.
Catching == {"catchSettle", "catchRelease", "tombstone", "markFailed"}

\* The catch block is never at work, and keeps away from the document at first.
LEMMA Catches ==
    ASSUME NEW r, IsRun(r)
    PROVE  /\ IsRun(Caught(r)) /\ Caught(r).at \in Catching
           /\ IsRun(Verdict(r)) /\ Verdict(r).at \in Catching
<1>1. IsRun(Verdict(r)) /\ Verdict(r).at \in Catching
    BY Goes DEF Verdict, Catching
<1>2. \A point : IsRun(To(r, point)) /\ To(r, point).at = point
    BY Goes
<1> QED
    BY <1>1, <1>2 DEF Caught, Catching

\* A run at work goes on working, or into the catch block, or ends.
OnWay(r) == IsRun(r) /\ r.at \in Working \cup Catching \cup {"ended"}

LEMMA Onward ==
    ASSUME NEW r, IsRun(r)
    PROVE  /\ OnWay(Caught(r)) /\ OnWay(Verdict(r)) /\ OnWay(AppendStage(r)) /\ OnWay(To(r, "ended"))
           /\ \A point \in Working : OnWay(To(r, point))
<1>1. \A point : IsRun(To(r, point)) /\ To(r, point).at = point
    BY Goes
<1>2. OnWay(Caught(r)) /\ OnWay(Verdict(r))
    BY Catches DEF OnWay
<1>3. OnWay(To(r, "ended")) /\ \A point \in Working : OnWay(To(r, point))
    BY <1>1 DEF OnWay
<1>4. "append" \in Working
    BY DEF Working
<1> QED
    BY <1>2, <1>3, <1>4 DEF AppendStage

\* The checks for an abort and the yields keep to that way.
LEMMA Checked ==
    ASSUME IsRun(run), NEW r, OnWay(r)
    PROVE  OnWay(Unless(r)) /\ OnWay(Yield(r))
BY Onward DEF OnWay, Unless, Yield

LEMMA Announces ==
    ASSUME IsRun(run), NEW stage
    PROVE  OnWay(Announce(stage))
<1> DEFINE r == [run EXCEPT !.at = "announce", !.stage = stage]
<1>1. IsRun(r) /\ r.at = "announce"
    BY GoesToStage
<1>2. OnWay(r)
    BY <1>1 DEF OnWay, Working
<1> QED
    BY <1>2, Checked DEF Announce

\* A call made at work that leaves the key keeps the invariant, whatever it
\* does to the document.
LEMMA WorkStep ==
    ASSUME IInv, run.at \in Working, OnWay(run'),
           IsRow(row'), row'.key = row.key, IsFile(file')
    PROVE  IInv'
BY DEF IInv, Shape, KeyInv, OnWay, Working, Catching

\* So does a step away from work that touches neither the key nor the document,
\* unless it goes to delete the job.
LEMMA CatchStep ==
    ASSUME IInv, IsRun(run'), run'.at \in Catching \cup {"ended", "crashed"},
           IsRow(row'), row'.key = row.key, file' = file
    PROVE  IInv'
BY DEF IInv, Shape, KeyInv, Working, Catching

\* A step of the trace, and a change of status or mark, keeps the row's key.
LEMMA Traced ==
    ASSUME IsRow(row), NEW step
    PROVE  IsRow(Trace(step)) /\ Trace(step).key = row.key
BY DEF IsRow, Trace

-----------------------------------------------------------------------------
(* The run at work                                                          *)

LEMMA AppendKeeps == IInv /\ Append_ => IInv'
<1> SUFFICES ASSUME IInv, Append_ PROVE IInv'
    OBVIOUS
<1>1. IsRun(run) /\ IsRow(row) /\ IsFile(file)
    BY DEF IInv, Shape
<1>2. run.at \in Working
    BY DEF Append_, At, Working
<1>3. OnWay(run')
  <2>1. OnWay(To(run, "appendField")) /\ OnWay(To(run, "save")) /\ OnWay(Caught(run))
      BY <1>1, Onward DEF Working
  <2>2. OnWay(Announce(After(run.stage)))
      BY <1>1, Announces
  <2> QED
      BY <2>1, <2>2 DEF Append_, Call
<1>4. file' = file /\ (row' = row \/ row' = Trace(run.stage))
    BY DEF Append_, Call, WriteRow, Untouched
<1> QED
    BY <1>1, <1>2, <1>3, <1>4, Traced, WorkStep

LEMMA AnnouncedKeeps == IInv /\ (Announced \/ Awoken) => IInv'
<1> SUFFICES ASSUME IInv, Announced \/ Awoken PROVE IInv'
    OBVIOUS
<1>1. IsRun(run) /\ IsRow(row) /\ IsFile(file)
    BY DEF IInv, Shape
<1>2. run.at \in Working
    BY DEF Announced, Awoken, At, Working
<1>3. CASE Awoken
  <2>1. run' = Caught(run) /\ row' = row /\ file' = file
      BY <1>3 DEF Awoken, Local, Untouched
  <2> QED
      BY <1>1, <1>2, <2>1, Onward, WorkStep
<1>4. CASE Announced
  <2>1. /\ OnWay(To(run, "store")) /\ OnWay(To(run, "extract")) /\ OnWay(To(run, "ground"))
        /\ OnWay(To(run, "appendDecision")) /\ OnWay(To(run, "settle"))
        /\ OnWay(AppendStage(run)) /\ OnWay(Caught(run))
      BY <1>1, Onward DEF Working
  <2>2. OnWay(Unless(To(run, "extract")))
      BY <1>1, <2>1, Checked
  <2>3. \/ \E r : OnWay(r) /\ run' = Yield(r)
        \/ run' = Caught(run)
      BY <1>4, <2>1, <2>2 DEF Announced, Call
  <2>4. OnWay(run')
      BY <1>1, <2>1, <2>3, Checked
  <2>5. file' = file /\ (row' = row \/ row' = [row EXCEPT !.status = run.stage])
      BY <1>4 DEF Announced, Call, WriteRow, Untouched
  <2>6. IsRow(row') /\ row'.key = row.key
    <3> DEFINE named == [row EXCEPT !.status = run.stage]
    <3>1. IsRow(named) /\ named.key = row.key
        BY <1>1, WithStatus
    <3>2. row' = row \/ row' = named
        BY <2>5
    <3> HIDE DEF named
    <3> QED
        BY <1>1, <3>1, <3>2
  <2> QED
      BY <1>1, <1>2, <2>4, <2>5, <2>6, WorkStep
<1> QED
    BY <1>3, <1>4

LEMMA StoreKeeps == IInv /\ (Store \/ Ground) => IInv'
<1> SUFFICES ASSUME IInv, Store \/ Ground PROVE IInv'
    OBVIOUS
<1>1. IsRun(run) /\ IsRow(row) /\ IsFile(file)
    BY DEF IInv, Shape
<1>2. run.at \in Working
    BY DEF Store, Ground, At, Working
<1>3. run' = AppendStage(run) \/ run' = Caught(run)
    BY DEF Store, Ground, Call, Local
<1>4. row' = row /\ (file' = file \/ file' = [file EXCEPT !.blob = TRUE])
    BY DEF Store, Ground, Call, Local, WriteFile, Untouched
<1>5. IsFile(file')
    BY <1>1, <1>4 DEF IsFile
<1> QED
    BY <1>1, <1>2, <1>3, <1>4, <1>5, Onward, WorkStep

LEMMA FieldKeeps == IInv /\ (AppendField \/ AppendDecision) => IInv'
<1> SUFFICES ASSUME IInv, AppendField \/ AppendDecision PROVE IInv'
    OBVIOUS
<1>1. IsRun(run) /\ IsRow(row) /\ IsFile(file)
    BY DEF IInv, Shape
<1>2. run.at \in Working
    BY DEF AppendField, AppendDecision, At, Working
<1>3. CASE AppendDecision
  <2>1. run' = AppendStage(run) \/ run' = Caught(run)
      BY <1>3 DEF AppendDecision, Call
  <2>2. file' = file /\ (row' = row \/ row' = Trace("decision"))
      BY <1>3 DEF AppendDecision, Call, WriteRow, Untouched
  <2> QED
      BY <1>1, <1>2, <2>1, <2>2, Onward, Traced, WorkStep
<1>4. CASE AppendField
  <2> DEFINE counted == [run EXCEPT !.fields = @ + 1]
             deciding == [counted EXCEPT !.at = "announce", !.stage = "deciding"]
  <2>1. IsRun(counted) /\ counted.at = "appendField"
      BY <1>1, <1>4 DEF IsRun, AppendField, At
  <2>2. OnWay(counted)
      BY <2>1 DEF OnWay, Working
  <2>3. OnWay(Caught(counted)) /\ OnWay(Caught(run))
      BY <1>1, <2>1, Onward
  <2>4. OnWay(deciding)
    <3>1. IsRun(deciding) /\ deciding.at = "announce"
        BY <2>1, GoesToStage
    <3> QED
        BY <3>1 DEF OnWay, Working
  <2>5. \/ run' = Yield(counted) \/ run' = Yield(Caught(counted)) \/ run' = Yield(deciding)
        \/ run' = Caught(run)
      BY <1>4 DEF AppendField, Call
  <2>6. OnWay(run')
      BY <1>1, <2>2, <2>3, <2>4, <2>5, Checked
  <2>7. file' = file /\ (row' = row \/ row' = Trace("field"))
      BY <1>4 DEF AppendField, Call, WriteRow, Untouched
  <2> QED
      BY <1>1, <1>2, <2>6, <2>7, Traced, WorkStep
<1> QED
    BY <1>3, <1>4

-----------------------------------------------------------------------------
(* Extraction and settlement                                                *)

LEMMA ExtractKeeps == IInv /\ (Extract \/ Generate \/ AppendRetry) => IInv'
<1> SUFFICES ASSUME IInv, Extract \/ Generate \/ AppendRetry PROVE IInv'
    OBVIOUS
<1>1. IsRun(run) /\ IsRow(row) /\ IsFile(file)
    BY DEF IInv, Shape
<1>2. run.at \in Working
    BY DEF Extract, Generate, AppendRetry, At, Working
<1>3. /\ OnWay(To(run, "mark")) /\ OnWay(To(run, "extract"))
      /\ OnWay(AppendStage(run)) /\ OnWay(Caught(run))
    BY <1>1, Onward DEF Working
<1>4. OnWay(Unless(To(run, "mark"))) /\ OnWay(Unless(To(run, "extract")))
    BY <1>1, <1>3, Checked
<1>5. CASE Extract
  <2>1. OnWay(run') /\ row' = row /\ file' = file
      BY <1>3, <1>4, <1>5 DEF Extract, Local, Untouched
  <2> QED
      BY <1>1, <1>2, <2>1, WorkStep
<1>6. CASE AppendRetry
  <2>1. OnWay(run') /\ file' = file /\ (row' = row \/ row' = Trace("retry"))
      BY <1>3, <1>4, <1>6 DEF AppendRetry, Call, WriteRow, Untouched
  <2> QED
      BY <1>1, <1>2, <2>1, Traced, WorkStep
<1>7. CASE Generate
  <2> DEFINE again == [run EXCEPT !.at = "appendRetry", !.retries = 1]
  <2>1. \A trusted \in BOOLEAN : OnWay(AppendStage([run EXCEPT !.trusted = trusted]))
    <3>1. \A trusted \in BOOLEAN : IsRun([run EXCEPT !.trusted = trusted])
        BY <1>1 DEF IsRun
    <3> QED
        BY <3>1, Onward
  <2>2. OnWay(again)
    <3>1. IsRun(again) /\ again.at = "appendRetry"
        BY <1>1, GoesToRetry
    <3> QED
        BY <3>1 DEF OnWay, Working
  <2>3. row' = row /\ file' = file
      BY <1>7 DEF Generate, Local, Untouched
  <2>4. OnWay(run')
      BY <1>3, <1>7, <2>1, <2>2 DEF Generate, Local
  <2> QED
      BY <1>1, <1>2, <2>3, <2>4, WorkStep
<1> QED
    BY <1>5, <1>6, <1>7

LEMMA MarkKeeps == IInv /\ (Mark \/ Clear \/ UndoMark) => IInv'
<1> SUFFICES ASSUME IInv, Mark \/ Clear \/ UndoMark PROVE IInv'
    OBVIOUS
<1>1. IsRun(run) /\ IsRow(row) /\ IsFile(file)
    BY DEF IInv, Shape
<1>2. run.at \in Working
    BY DEF Mark, Clear, UndoMark, At, Working
<1>3. /\ OnWay(To(run, "clear")) /\ OnWay(To(run, "attribute"))
      /\ OnWay(To(run, "undoMark")) /\ OnWay(Caught(run))
    BY <1>1, Onward DEF Working
<1>4. row' = row /\ file' = file
    BY DEF Mark, Clear, UndoMark, Call, Ledger, Untouched
<1>5. OnWay(run')
  <2>1. CASE Mark
    <3>1. run' \in {Caught(run), To(run, "clear"), To(run, "attribute")}
        BY <2>1 DEF Mark, Call
    <3> QED
        BY <1>3, <3>1
  <2>2. CASE Clear \/ UndoMark
      BY <1>3, <2>2 DEF Clear, UndoMark, Call
  <2> QED
      BY <2>1, <2>2
<1> QED
    BY <1>1, <1>2, <1>4, <1>5, WorkStep

LEMMA AttributeKeeps == IInv /\ Attribute => IInv'
<1> SUFFICES ASSUME IInv, Attribute PROVE IInv'
    OBVIOUS
<1>1. IsRun(run) /\ IsRow(row) /\ IsFile(file)
    BY DEF IInv, Shape
<1>2. run.at \in Working
    BY DEF Attribute, At, Working
<1> DEFINE counted == [run EXCEPT !.dispatches = @ + 1]
           calling == [counted EXCEPT !.at = "generate", !.calls = @ + 1]
<1>3. IsRun(counted)
    BY <1>1 DEF IsRun
<1>4. OnWay(Caught(counted)) /\ OnWay(To(run, "clear"))
    BY <1>1, <1>3, Onward DEF Working
<1>5. OnWay(calling)
  <2>1. IsRun(calling) /\ calling.at = "generate"
      BY <1>3, GoesCalling
  <2> QED
      BY <2>1 DEF OnWay, Working
<1>6. run' \in {Caught(counted), calling, To(run, "clear")}
    BY DEF Attribute, Call
<1>7. file' = file /\ (row' = row \/ row' = [row EXCEPT !.attributed = TRUE])
    BY DEF Attribute, Call, WriteRow, Untouched
<1>8. IsRow(row') /\ row'.key = row.key
    BY <1>1, <1>7, WithMark
<1>9. OnWay(run')
    BY <1>4, <1>5, <1>6
<1> QED
    BY <1>1, <1>2, <1>7, <1>8, <1>9, WorkStep

\* An accepted or refused settlement is noted, and nothing else.
LEMMA Noted ==
    ASSUME IsRun(run), NEW result
    PROVE  IsRun(Settlement(result))
BY DEF IsRun, Settlement

LEMMA SettleKeeps == IInv /\ Settle => IInv'
<1> SUFFICES ASSUME IInv, Settle PROVE IInv'
    OBVIOUS
<1>1. IsRun(run) /\ IsRow(row) /\ IsFile(file)
    BY DEF IInv, Shape
<1>2. run.at \in Working
    BY DEF Settle, At, Working
<1>3. OnWay(AppendStage(Settlement("accepted"))) /\ OnWay(Caught(Settlement("refused")))
    BY <1>1, Noted, Onward
<1>4. row' = row /\ file' = file
    BY DEF Settle, SettleProviderCost, Call, Ledger, Untouched
<1>5. run' \in {AppendStage(Settlement("accepted")), Caught(Settlement("refused"))}
    BY DEF Settle, SettleProviderCost, Call
<1> QED
    BY <1>1, <1>2, <1>3, <1>4, <1>5, WorkStep

LEMMA SaveKeeps == IInv /\ Save => IInv'
<1> SUFFICES ASSUME IInv, Save PROVE IInv'
    OBVIOUS
<1>1. IsRun(run) /\ IsRow(row) /\ IsFile(file)
    BY DEF IInv, Shape
<1>2. run.at \in Working
    BY DEF Save, At, Working
<1> DEFINE ended == [run EXCEPT !.at = "ended", !.told = "completed"]
<1>3. OnWay(ended)
  <2>1. IsRun(ended) /\ ended.at = "ended"
      BY <1>1, GoesTelling
  <2> QED
      BY <2>1 DEF OnWay
<1>4. run' = ended \/ run' = Caught(run)
    BY DEF Save, Call
<1>5. /\ file' = file
      /\ row' = row \/ row' = [row EXCEPT !.status = "completed", !.completed = TRUE]
    BY DEF Save, Call, WriteRow, Untouched
<1>6. IsRow(row') /\ row'.key = row.key
  <2> DEFINE named == [row EXCEPT !.status = "completed"]
  <2>1. IsRow(named) /\ named.key = row.key
      BY <1>1, WithStatus
  <2>2. row' = row \/ row' = [named EXCEPT !.completed = TRUE]
      BY <1>5
  <2> HIDE DEF named
  <2> QED
      BY <1>1, <2>1, <2>2, WithResults
<1> QED
    BY <1>1, <1>2, <1>3, <1>4, <1>5, <1>6, Onward, WorkStep

-----------------------------------------------------------------------------
(* Everything else                                                          *)

LEMMA SubmitKeeps ==
    ASSUME IInv, NEW live, NEW valid, NEW limit, Submit(live, valid, limit)
    PROVE  IInv'
<1>1. IsRun(run) /\ IsRow(row) /\ IsFile(file)
    BY DEF IInv, Shape
<1> DEFINE start == IF client.aborted THEN "withdraw" ELSE IF valid THEN "create" ELSE "abandon"
           there == [run EXCEPT !.at = start, !.live = live]
<1>2. run' = [there EXCEPT !.limit = limit] /\ row' = row /\ file' = file
    BY DEF Submit
<1>3. IsRun(there) /\ there.at \in {"withdraw", "create", "abandon"}
  <2> DEFINE here == [run EXCEPT !.at = start]
  <2>1. IsRun(here) /\ here.at = start
      BY <1>1 DEF IsRun
  <2>2. there = [here EXCEPT !.live = live]
      OBVIOUS
  <2>3. start \in {"withdraw", "create", "abandon"}
      OBVIOUS
  <2> HIDE DEF here, start, there
  <2>4. IsRun([here EXCEPT !.live = live]) /\ [here EXCEPT !.live = live].at = here.at
      BY <2>1 DEF IsRun
  <2> QED
      BY <2>1, <2>2, <2>3, <2>4
<1> HIDE DEF there
<1>4. IsRun(run') /\ run'.at = there.at
    BY <1>2, <1>3 DEF IsRun
<1> QED
    BY <1>1, <1>2, <1>3, <1>4 DEF IInv, Shape, KeyInv, Working

LEMMA CreateKeeps == IInv /\ Create => IInv'
<1> SUFFICES ASSUME IInv, Create PROVE IInv'
    OBVIOUS
<1>1. IsRun(run) /\ IsRow(row) /\ IsFile(file)
    BY DEF IInv, Shape
<1> DEFINE named == [row EXCEPT !.status = "validating"]
<1>2. IsRow(named)
    BY <1>1, WithStatus
<1>3. /\ file' = file
      /\ \/ row' = [named EXCEPT !.key = TRUE] /\ OnWay(run')
         \/ (row' = [named EXCEPT !.key = TRUE] \/ row' = row) /\ run' = To(run, "abandon")
    BY <1>1, Onward DEF Create, Call, WriteRow, Untouched
<1> HIDE DEF named
<1>4. \A key : IsRow([named EXCEPT !.key = key]) /\ [named EXCEPT !.key = key].key = key
    BY <1>2 DEF IsRow
<1>5. CASE row' = [named EXCEPT !.key = TRUE] /\ OnWay(run')
  <2>1. IsRow(row') /\ row'.key = TRUE
      BY <1>4, <1>5
  <2> QED
      BY <1>1, <1>3, <1>5, <2>1 DEF IInv, Shape, KeyInv, OnWay, Working, Catching
<1>6. CASE run' = To(run, "abandon") /\ (row' = [named EXCEPT !.key = TRUE] \/ row' = row)
  <2>1. IsRun(run') /\ run'.at = "abandon"
      BY <1>1, <1>6, Goes
  <2>2. IsRow(row') /\ (row'.key = TRUE \/ row' = row)
      BY <1>1, <1>4, <1>6
  <2> QED
      BY <1>3, <2>1, <2>2, <1>1 DEF IInv, Shape, KeyInv, Working
<1> QED
    BY <1>3, <1>5, <1>6

LEMMA GiveUpKeeps == IInv /\ (Withdraw \/ Abandon) => IInv'
<1> SUFFICES ASSUME IInv, Withdraw \/ Abandon PROVE IInv'
    OBVIOUS
<1>1. IsRun(run) /\ IsRow(row) /\ IsFile(file)
    BY DEF IInv, Shape
<1>2. \E told : run' = [run EXCEPT !.at = "ended", !.told = told]
    BY DEF Withdraw, Abandon, GiveUp, Call, Local
<1>3. IsRun(run') /\ run'.at = "ended"
  <2>1. PICK told : run' = [run EXCEPT !.at = "ended", !.told = told]
      BY <1>2
  <2> QED
      BY <1>1, <2>1, GoesTelling
<1>4. row' = row /\ file' = file
    BY DEF Withdraw, Abandon, GiveUp, Call, Local, Ledger, Untouched
<1> QED
    BY <1>1, <1>3, <1>4, CatchStep

-----------------------------------------------------------------------------
(* The catch block                                                          *)

LEMMA CaughtKeeps == IInv /\ (CatchSettle \/ CatchRelease) => IInv'
<1> SUFFICES ASSUME IInv, CatchSettle \/ CatchRelease PROVE IInv'
    OBVIOUS
<1>1. IsRun(run) /\ IsRow(row) /\ IsFile(file)
    BY DEF IInv, Shape
<1>2. row' = row /\ file' = file
    BY DEF CatchSettle, CatchRelease, SettleProviderCost, Call, Ledger, Untouched
<1>3. \E r : IsRun(r) /\ run' = Verdict(r)
  <2>1. \/ run' = Verdict(run)
        \/ run' = Verdict(Settlement("accepted")) \/ run' = Verdict(Settlement("refused"))
      BY DEF CatchSettle, CatchRelease, SettleProviderCost, Call
  <2> QED
      BY <1>1, <2>1, Noted
<1>4. IsRun(run') /\ run'.at \in Catching
    BY <1>3, Catches
<1> QED
    BY <1>1, <1>2, <1>4, CatchStep

\* The key leaves the row with the job that has it.
LEMMA TombstoneKeeps == IInv /\ Tombstone => IInv'
<1> SUFFICES ASSUME IInv, Tombstone PROVE IInv'
    OBVIOUS
<1>1. IsRun(run) /\ IsRow(row) /\ IsFile(file)
    BY DEF IInv, Shape
<1>2. IsRun(run') /\ run'.at \in {"deleteBlob", "ended"}
    BY <1>1, Goes DEF Tombstone, Call
<1>3. \/ row' = row /\ file' = file
      \/ /\ row' = [row EXCEPT !.status = "deleted", !.key = FALSE, !.steps = <<>>]
         /\ file' = [file EXCEPT !.job = TRUE]
    BY DEF Tombstone, Call, Untouched
<1>4. CASE row' = row /\ file' = file
    BY <1>1, <1>2, <1>4 DEF IInv, Shape, KeyInv, Working
<1>5. CASE /\ row' = [row EXCEPT !.status = "deleted", !.key = FALSE, !.steps = <<>>]
           /\ file' = [file EXCEPT !.job = TRUE]
  <2>1. \A status, key, steps :
            IsRow([row EXCEPT !.status = status, !.key = key, !.steps = steps])
    <3> TAKE status, key, steps
    <3> DEFINE named == [row EXCEPT !.status = status]
               keyed == [named EXCEPT !.key = key]
    <3>1. IsRow(named)
        BY <1>1, WithStatus
    <3>2. IsRow(keyed)
      <4> HIDE DEF named
      <4> QED
          BY <3>1 DEF IsRow
    <3>3. [row EXCEPT !.status = status, !.key = key, !.steps = steps]
              = [keyed EXCEPT !.steps = steps]
        OBVIOUS
    <3> HIDE DEF keyed
    <3>4. IsRow([keyed EXCEPT !.steps = steps])
        BY <3>2 DEF IsRow
    <3> QED
        BY <3>3, <3>4
  <2>2. IsRow(row')
      BY <1>5, <2>1
  <2>3. \A job : IsFile([file EXCEPT !.job = job]) /\ [file EXCEPT !.job = job].job = job
      BY <1>1 DEF IsFile
  <2>4. IsFile(file') /\ file'.job = TRUE
      BY <1>5, <2>3
  <2> QED
      BY <1>2, <2>2, <2>4 DEF IInv, Shape, KeyInv, Working
<1> QED
    BY <1>3, <1>4, <1>5

\* The job leaves after the document has.
LEMMA CleanupKeeps == IInv /\ (DeleteBlob \/ DeleteJob) => IInv'
<1> SUFFICES ASSUME IInv, DeleteBlob \/ DeleteJob PROVE IInv'
    OBVIOUS
<1>1. IsRun(run) /\ IsRow(row) /\ IsFile(file)
    BY DEF IInv, Shape
<1>2. row' = row
    BY DEF DeleteBlob, DeleteJob, Call, WriteFile, Untouched
<1>3. CASE DeleteJob
  <2>1. IsRun(run') /\ run'.at = "ended"
      BY <1>1, <1>3, Goes DEF DeleteJob, Call
  <2>2. file.blob = FALSE
      BY <1>3 DEF DeleteJob, At, IInv, KeyInv
  <2>3. file' = file \/ file' = [file EXCEPT !.job = FALSE]
      BY <1>3 DEF DeleteJob, Call, WriteFile, Untouched
  <2>4. \A job : IsFile([file EXCEPT !.job = job]) /\ [file EXCEPT !.job = job].blob = file.blob
      BY <1>1 DEF IsFile
  <2>5. IsFile(file') /\ file'.blob = FALSE
      BY <1>1, <2>2, <2>3, <2>4
  <2> QED
      BY <1>1, <1>2, <2>1, <2>5 DEF IInv, Shape, KeyInv, Working
<1>4. CASE DeleteBlob
  <2>1. \A blob : IsFile([file EXCEPT !.blob = blob]) /\ [file EXCEPT !.blob = blob].blob = blob
      BY <1>1 DEF IsFile
  <2>2. \/ file' = [file EXCEPT !.blob = FALSE] /\ run' = To(run, "deleteJob")
        \/ (file' = file \/ file' = [file EXCEPT !.blob = FALSE]) /\ run' = To(run, "ended")
      BY <1>4 DEF DeleteBlob, Call, WriteFile, Untouched
  <2>3. IsRun(run') /\ run'.at \in {"deleteJob", "ended"}
      BY <1>1, <2>2, Goes
  <2>4. IsFile(file') /\ (file' = file \/ file'.blob = FALSE)
      BY <1>1, <2>1, <2>2
  <2>5. run'.at = "deleteJob" => file'.blob = FALSE
    <3>1. To(run, "ended").at = "ended"
        BY <1>1, Goes
    <3>2. [file EXCEPT !.blob = FALSE].blob = FALSE
        BY <2>1
    <3> QED
        BY <2>2, <3>1, <3>2
  <2> QED
      BY <1>1, <1>2, <2>3, <2>4, <2>5 DEF IInv, Shape, KeyInv, Working
<1> QED
    BY <1>3, <1>4

LEMMA FailKeeps == IInv /\ MarkFailed => IInv'
<1> SUFFICES ASSUME IInv, MarkFailed PROVE IInv'
    OBVIOUS
<1>1. IsRun(run) /\ IsRow(row) /\ IsFile(file)
    BY DEF IInv, Shape
<1>2. run' = [run EXCEPT !.at = "ended", !.told = "failed"]
    BY DEF MarkFailed, Call
<1>3. IsRun(run') /\ run'.at = "ended"
    BY <1>1, <1>2, GoesTelling
<1> DEFINE traced == Trace(run.stage)
           named == [traced EXCEPT !.status = "failed"]
<1>4. file' = file /\ (row' = row \/ row' = [named EXCEPT !.failed = TRUE])
    BY DEF MarkFailed, Call, WriteRow, Untouched
<1>5. IsRow(traced) /\ traced.key = row.key
    BY <1>1, Traced
<1> HIDE DEF traced
<1>6. IsRow(named) /\ named.key = row.key
    BY <1>5, WithStatus
<1> HIDE DEF named
<1>7. IsRow(row') /\ row'.key = row.key
    BY <1>1, <1>4, <1>6, WithFailure
<1> QED
    BY <1>3, <1>4, <1>7, CatchStep

-----------------------------------------------------------------------------
(* The theorem                                                              *)

\* The client, the clock and the sweep touch neither run, row nor document; a
\* crash ends the run where it is.
LEMMA OthersKeep == IInv /\ (Abort \/ Cancel \/ Crash \/ Elsewhere \/ UNCHANGED vars) => IInv'
<1> SUFFICES ASSUME IInv, Abort \/ Cancel \/ Crash \/ Elsewhere \/ UNCHANGED vars PROVE IInv'
    OBVIOUS
<1>1. IsRun(run) /\ IsRow(row) /\ IsFile(file)
    BY DEF IInv, Shape
<1>2. row' = row /\ file' = file /\ (run' = run \/ run' = To(run, "crashed"))
    BY DEF Abort, Cancel, Crash, Elsewhere, Untouched, vars
<1>3. CASE run' = run
    BY <1>2, <1>3 DEF IInv, Shape, KeyInv
<1>4. CASE run' = To(run, "crashed")
    BY <1>1, <1>2, <1>4, Goes, CatchStep
<1> QED
    BY <1>2, <1>3, <1>4

LEMMA NextKeeps == IInv /\ [Next]_vars => IInv'
<1> SUFFICES ASSUME IInv, [Next]_vars PROVE IInv'
    OBVIOUS
<1>1. CASE \E live, valid \in BOOLEAN, limit \in {1, 2} : Submit(live, valid, limit)
    BY <1>1, SubmitKeeps
<1>2. CASE Progress
    BY <1>2, CreateKeeps, GiveUpKeeps, AppendKeeps, AnnouncedKeeps, StoreKeeps, FieldKeeps,
       ExtractKeeps, MarkKeeps, AttributeKeeps, SettleKeeps, SaveKeeps, CaughtKeeps,
       TombstoneKeeps, CleanupKeeps, FailKeeps DEF Progress
<1> QED
    BY <1>1, <1>2, OthersKeep DEF Next

\* Whatever fails and wherever the process dies, for any lease, number of fields
\* and of failing calls, the key of a stored document is in the row or in a job.
THEOREM OrphanTheorem == Spec => []NoOrphanBlob
<1>1. IInv => NoOrphanBlob
    BY DEF IInv, KeyInv, NoOrphanBlob
<1> QED
    BY <1>1, InitHolds, NextKeeps, PTL DEF Spec

-----------------------------------------------------------------------------
(* Calls, charges and verdicts: the inductive invariant                     *)

Provider == {"extract", "mark", "attribute", "clear", "undoMark", "generate", "appendRetry"}

StageName ==
    {"validating", "storing", "extracting", "verifying", "comparing", "deciding", "publishing"}

\* The run has the counters of a run.
CountInv ==
    /\ run.live \in BOOLEAN /\ run.limit \in {1, 2} /\ run.trusted \in BOOLEAN
    /\ run.dispatches \in Nat /\ run.calls \in Nat /\ run.retries \in {0, 1}
    /\ run.calls <= run.dispatches
    /\ run.trusted = TRUE => run.calls > 0

\* At which stage the run waits for which call.
StageInv ==
    /\ run.at \in {"idle", "create", "withdraw", "abandon"} => run.stage = "validating"
    /\ run.at = "store" => run.stage = "storing"
    /\ run.at \in Provider => run.stage = "extracting"
    /\ run.at \in Provider \ {"extract"} => run.live = TRUE
    /\ run.at = "ground" => run.stage = "verifying"
    /\ run.at = "appendField" => run.stage = "comparing"
    /\ run.at = "appendDecision" => run.stage = "deciding"
    /\ run.at \in {"settle", "save"} => run.stage = "publishing"
    /\ run.at \in {"settle", "catchSettle", "catchRelease"} => run.live = TRUE
    /\ run.at \in {"append", "announce"} => run.stage \in StageName
    /\ run.at = "announce" => run.stage # "validating"
    /\ run.at = "idle" => run.calls = 0 /\ row.completed = FALSE

\* Where the run may still come to call the provider: for the first time, or
\* once again.
Early ==
    \/ run.at \in {"idle", "create", "withdraw", "abandon", "store"}
    \/ run.at \in Provider \ {"generate"}
    \/ run.at = "announce" /\ run.stage \in {"storing", "extracting"}
    \/ run.at = "append" /\ run.stage \in {"validating", "storing"}

Charged ==
    \/ Reserved.status = "settled"
    \/ Reserved.status = "pending" /\ Reserved.dispatched = TRUE

\* A call that has left is charged, or will be by the sweep, unless a second
\* attempt gave up; and what was called nothing gives back.
ChargeInv ==
    /\ Early => run.calls = 0 \/ (run.limit = 2 /\ run.retries = 1)
    /\ run.at \in {"attribute", "generate"} => Charged
    /\ run.at = "generate" => run.calls > 0 /\ row.attributed = TRUE
    /\ run.at = "catchRelease" => run.calls = 0
    /\ run.limit = 1 /\ run.calls > 0 => Charged

Cheaper == Reserved.status = "settled" /\ Reserved.actual < Reserved.reserved

\* Where nothing is left to be charged.
Late ==
    \/ run.at \in {"save", "catchSettle", "catchRelease", "tombstone", "deleteBlob", "deleteJob",
                   "markFailed", "ended", "crashed"}
    \/ run.at = "append" /\ run.stage = "publishing"

PaidInv ==
    /\ Cheaper => Late /\ run.calls = 1 /\ run.retries = 0 /\ run.trusted = TRUE
    /\ run.live = TRUE /\ (run.at = "save" \/ (run.at = "append" /\ run.stage = "publishing")) =>
           Reserved.status = "settled"
    /\ run.live = TRUE /\ row.completed = TRUE => Reserved.status = "settled"

\* What the run has told, and has left behind where it ends.
VerdictInv ==
    /\ faults \in 0..MaxFaults
    /\ run.told # "nothing" => run.at = "ended"
    /\ run.told = "completed" => row.status = "completed"
    /\ run.told = "failed" /\ Faultless => row.status \in {"none", "failed"}
    /\ run.at \in {"idle", "create", "withdraw", "abandon"} /\ Faultless => row.status = "none"
    /\ run.at \in {"deleteBlob", "deleteJob"} => row.status = "deleted"
    /\ run.at = "ended" /\ Faultless /\ ~ client.cancelled =>
           /\ row.status \in {"none", "completed", "failed", "deleted"}
           /\ row.status = "deleted" => file.blob = FALSE /\ file.job = FALSE

\* The run's row of the ledger.
IsReserved(s) ==
    s = [status |-> s.status, day |-> s.day, reserved |-> s.reserved, actual |-> s.actual,
         dispatched |-> s.dispatched, expires |-> s.expires]

ReservedInv ==
    /\ DOMAIN reservations = {Reservation}
    /\ IsReserved(Reserved)
    /\ Reserved.reserved \in Nat /\ Reserved.dispatched \in BOOLEAN

Account == CountInv /\ StageInv /\ ChargeInv /\ PaidInv /\ VerdictInv

FullInv == IInv /\ ReservedInv /\ Account

-----------------------------------------------------------------------------
(* Where a step of the run can lead                                         *)

SameCounts(s, r) ==
    /\ IsRun(s)
    /\ s.live = r.live /\ s.limit = r.limit /\ s.dispatches = r.dispatches
    /\ s.calls = r.calls /\ s.retries = r.retries /\ s.trusted = r.trusted /\ s.told = r.told

\* Into the catch block, to settle what was dispatched or release what was not.
InCatch(s, r) ==
    /\ SameCounts(s, r)
    /\ \/ s.at \in {"tombstone", "markFailed"}
       \/ s.at = "catchSettle" /\ r.live = TRUE
       \/ s.at = "catchRelease" /\ r.live = TRUE /\ ~ (r.dispatches > 0)

LEMMA ToSame ==
    ASSUME NEW r, IsRun(r), NEW point
    PROVE  SameCounts(To(r, point), r) /\ To(r, point).at = point /\ To(r, point).stage = r.stage
BY DEF SameCounts, IsRun, To

LEMMA CaughtIs ==
    ASSUME NEW r, IsRun(r), r.live \in BOOLEAN
    PROVE  InCatch(Caught(r), r) /\ InCatch(Verdict(r), r)
<1>1. \A point : SameCounts(To(r, point), r) /\ To(r, point).at = point
    BY ToSame
<1>2. InCatch(Verdict(r), r)
    BY <1>1 DEF Verdict, InCatch
<1>3. CASE r.live /\ r.settlement = "none" /\ r.dispatches > 0
  <2>1. Caught(r) = To(r, "catchSettle")
      BY <1>3 DEF Caught
  <2> QED
      BY <1>1, <1>2, <1>3, <2>1 DEF InCatch
<1>4. CASE r.live /\ r.settlement = "none" /\ ~ (r.dispatches > 0)
  <2>1. Caught(r) = To(r, "catchRelease")
      BY <1>4 DEF Caught
  <2> QED
      BY <1>1, <1>2, <1>4, <2>1 DEF InCatch
<1>5. CASE ~ (r.live /\ r.settlement = "none")
  <2>1. Caught(r) = Verdict(r)
      BY <1>5 DEF Caught
  <2> QED
      BY <1>2, <2>1
<1> QED
    BY <1>3, <1>4, <1>5

LEMMA AppendIs ==
    ASSUME NEW r, IsRun(r), r.live \in BOOLEAN
    PROVE  \/ InCatch(AppendStage(r), r)
           \/ /\ SameCounts(AppendStage(r), r) /\ AppendStage(r).at = "append"
              /\ AppendStage(r).stage = r.stage
BY ToSame, CaughtIs DEF AppendStage

LEMMA AnnounceIs ==
    ASSUME IsRun(run), run.live \in BOOLEAN, NEW stage
    PROVE  \/ InCatch(Announce(stage), run)
           \/ /\ SameCounts(Announce(stage), run) /\ Announce(stage).at = "announce"
              /\ Announce(stage).stage = stage
<1> DEFINE r == [run EXCEPT !.at = "announce", !.stage = stage]
           there == [run EXCEPT !.at = "announce"]
<1>1. SameCounts(there, run) /\ there.at = "announce"
    BY ToSame DEF To
<1>2. r = [there EXCEPT !.stage = stage]
    OBVIOUS
<1>3. SameCounts(r, run) /\ r.at = "announce" /\ r.stage = stage
  <2> HIDE DEF there, r
  <2> QED
      BY <1>1, <1>2 DEF SameCounts, IsRun
<1> HIDE DEF r
<1>4. Announce(stage) = Caught(run) \/ Announce(stage) = r
    BY DEF Announce, Unless, r
<1> QED
    BY <1>3, <1>4, CaughtIs

\* The order of the stages.
LEMMA Afters ==
    /\ After("validating") = "storing" /\ After("storing") = "extracting"
    /\ After("extracting") = "verifying" /\ After("verifying") = "comparing"
    /\ After("comparing") = "deciding" /\ After("deciding") = "publishing"
BY DEF After, Stages

-----------------------------------------------------------------------------
(* Steps in general                                                         *)

\* The ledger changes at most by a mark, or its loss, before any call, or when
\* one more is made.
LedgerStep ==
    \/ Reserved' = Reserved
    \/ /\ Reserved.status = "pending" /\ Reserved'.status \in {"pending", "released"}
       /\ run.calls = 0 \/ run.limit = 2

\* What is settled stays so.
LEMMA LedgerKeeps ==
    ASSUME LedgerStep
    PROVE  /\ Cheaper' => Cheaper
           /\ Reserved.status = "settled" => Reserved'.status = "settled"
           /\ run.limit = 1 /\ run.calls > 0 /\ Charged => Charged'
BY DEF LedgerStep, Cheaper, Charged

\* A call that failed leaves one less to fail.
LEMMA FaultsKeep ==
    ASSUME VerdictInv, faults' = faults \/ (faults > 0 /\ faults' = faults - 1)
    PROVE  faults' \in 0..MaxFaults /\ (faults' = MaxFaults => faults' = faults)
BY RunAssumption DEF VerdictInv

Undertaken ==
    /\ FullInv /\ run.at \in Working \cup Catching \cup {"create"}
    /\ LedgerStep
    /\ row'.completed = row.completed
    /\ faults' = faults \/ (faults > 0 /\ faults' = faults - 1)

LEMMA CatchAccounts ==
    ASSUME Undertaken, InCatch(run', run)
    PROVE  Account'
<1>1. run.told = "nothing" /\ run'.told = "nothing"
    BY DEF Undertaken, FullInv, Account, VerdictInv, InCatch, SameCounts, Working, Catching
<1>2. CountInv'
    BY DEF Undertaken, FullInv, Account, CountInv, InCatch, SameCounts
<1>3. StageInv'
    BY DEF InCatch, StageInv, Provider, SameCounts
<1>4. ChargeInv'
  <2>1. run'.at = "catchRelease" => run'.calls = 0
      BY DEF Undertaken, FullInv, Account, CountInv, InCatch, SameCounts
  <2>2. ~ Early' /\ run'.at \notin {"attribute", "generate"}
      BY DEF InCatch, Early, Provider
  <2>3. run'.limit = 1 /\ run'.calls > 0 => Charged'
      BY LedgerKeeps DEF Undertaken, FullInv, Account, ChargeInv, InCatch, SameCounts
  <2> QED
      BY <2>1, <2>2, <2>3 DEF ChargeInv
<1>5. PaidInv'
  <2>1. Late' /\ run'.at \notin {"save", "append"}
      BY DEF InCatch, Late
  <2> QED
      BY <2>1, LedgerKeeps DEF Undertaken, FullInv, Account, PaidInv, InCatch, SameCounts
<1>6. VerdictInv'
  <2>1. run'.at \in {"tombstone", "markFailed", "catchSettle", "catchRelease"}
      BY DEF InCatch
  <2>2. faults' \in 0..MaxFaults
      BY FaultsKeep DEF Undertaken, FullInv, Account
  <2> QED
      BY <1>1, <2>1, <2>2 DEF VerdictInv
<1> QED
    BY <1>2, <1>3, <1>4, <1>5, <1>6 DEF Account

\* A run whose stream was cancelled ends without a word.
LEMMA CancelledAccounts ==
    ASSUME Undertaken, SameCounts(run', run), run'.at = "ended", client'.cancelled
    PROVE  Account'
<1>1. run'.told = "nothing"
    BY DEF Undertaken, FullInv, Account, VerdictInv, SameCounts, Working, Catching
<1>2. CountInv'
    BY DEF Undertaken, FullInv, Account, CountInv, SameCounts
<1>3. StageInv'
    BY DEF StageInv, Provider
<1>4. ChargeInv'
  <2>1. ~ Early'
      BY DEF Early, Provider
  <2>2. run'.limit = 1 /\ run'.calls > 0 => Charged'
      BY LedgerKeeps DEF Undertaken, FullInv, Account, ChargeInv, SameCounts
  <2> QED
      BY <2>1, <2>2 DEF ChargeInv
<1>5. PaidInv'
    BY LedgerKeeps DEF Undertaken, FullInv, Account, PaidInv, SameCounts, Late
<1>6. VerdictInv'
  <2>1. faults' \in 0..MaxFaults
      BY FaultsKeep DEF Undertaken, FullInv, Account
  <2> QED
      BY <1>1, <2>1 DEF VerdictInv
<1> QED
    BY <1>2, <1>3, <1>4, <1>5, <1>6 DEF Account

\* A run that goes on, without a call of the provider.
LEMMA MoveAccounts ==
    ASSUME Undertaken, SameCounts(run', run), StageInv',
           run'.at \in Working \ {"generate"}, run'.at = "attribute" => Charged',
           Early' => Early \/ (run.retries = 1 /\ run.limit = 2),
           Late => Late',
           run'.live = TRUE /\ (run'.at = "save" \/ (run'.at = "append" /\ run'.stage = "publishing"))
               => Reserved.status = "settled"
    PROVE  Account'
<1>1. run'.told = "nothing"
    BY DEF Undertaken, FullInv, Account, VerdictInv, SameCounts, Working, Catching
<1>2. CountInv'
    BY DEF Undertaken, FullInv, Account, CountInv, SameCounts
<1>3. ChargeInv'
  <2>1. Early' => run'.calls = 0 \/ (run'.limit = 2 /\ run'.retries = 1)
      BY DEF Undertaken, FullInv, Account, ChargeInv, SameCounts
  <2>2. run'.limit = 1 /\ run'.calls > 0 => Charged'
      BY LedgerKeeps DEF Undertaken, FullInv, Account, ChargeInv, SameCounts
  <2>3. run'.at \notin {"generate", "catchRelease"} /\ (run'.at = "attribute" => Charged')
      BY DEF Working
  <2> QED
      BY <2>1, <2>2, <2>3 DEF ChargeInv
<1>4. PaidInv'
    BY LedgerKeeps DEF Undertaken, FullInv, Account, PaidInv, SameCounts
<1>5. VerdictInv'
  <2>1. faults' \in 0..MaxFaults
      BY FaultsKeep DEF Undertaken, FullInv, Account
  <2>2. run'.at \notin {"idle", "create", "withdraw", "abandon", "deleteBlob", "deleteJob", "ended"}
      BY DEF Working
  <2> QED
      BY <1>1, <2>1, <2>2 DEF VerdictInv
<1> QED
    BY <1>2, <1>3, <1>4, <1>5 DEF Account

-----------------------------------------------------------------------------
(* The run at work                                                          *)

\* What is known of a run at work that makes a call which leaves the ledger alone.
LEMMA AtWork ==
    ASSUME FullInv, run.at \in Working \cup Catching \cup {"create"}, UNCHANGED reservations,
           row'.completed = row.completed,
           faults' = faults \/ (faults > 0 /\ faults' = faults - 1)
    PROVE  /\ Undertaken /\ IsRun(run) /\ run.live \in BOOLEAN /\ IsRow(row) /\ IsFile(file)
           /\ StageInv /\ Reserved' = Reserved
BY DEF Undertaken, LedgerStep, FullInv, IInv, Shape, Account, CountInv, Reserved

\* The fields of a row that a step, a status or a mark leaves.
LEMMA RowKeeps ==
    ASSUME IsRow(row), NEW value
    PROVE  /\ Trace(value).completed = row.completed /\ Trace(value).attributed = row.attributed
           /\ Trace(value).status = row.status
           /\ [row EXCEPT !.status = value].completed = row.completed
           /\ [row EXCEPT !.status = value].attributed = row.attributed
           /\ [row EXCEPT !.attributed = value].completed = row.completed
           /\ [row EXCEPT !.attributed = value].attributed = value
BY DEF IsRow, Trace

\* A run that goes on to announce, from a stage before.
LEMMA AnnounceAccounts ==
    ASSUME Undertaken, UNCHANGED client, run.at \in {"append", "appendField"},
           IsRun(run), run.live \in BOOLEAN, NEW stage \in StageName \ {"validating"},
           run' = Announce(stage),
           stage \in {"storing", "extracting"} => Early,
           ~ Late
    PROVE  Account'
<1>1. InCatch(run', run) \/ (SameCounts(run', run) /\ run'.at = "announce" /\ run'.stage = stage)
    BY AnnounceIs
<1>2. CASE InCatch(run', run)
    BY <1>2, CatchAccounts
<1>3. CASE SameCounts(run', run) /\ run'.at = "announce" /\ run'.stage = stage
  <2>1. StageInv'
      BY <1>3 DEF StageInv, Provider, StageName
  <2>2. Early' => Early
      BY <1>3 DEF Early, Provider
  <2>3. run'.at \in Working \ {"attribute", "generate"} /\ run'.at \notin {"save", "append"}
      BY <1>3 DEF Working
  <2> QED
      BY <1>3, <2>1, <2>2, <2>3, MoveAccounts
<1> QED
    BY <1>1, <1>2, <1>3

\* A run that goes to store the step of its stage.
LEMMA StepAccounts ==
    ASSUME Undertaken, NEW r, IsRun(r), SameCounts(r, run), r.stage = run.stage,
           run.live \in BOOLEAN, run' = AppendStage(r), run.stage \in StageName,
           run.stage \in {"validating", "storing"} => Early,
           Late => run.stage = "publishing",
           run.live = TRUE /\ run.stage = "publishing" => Reserved.status = "settled"
    PROVE  Account'
<1>1. InCatch(run', r) \/ (SameCounts(run', r) /\ run'.at = "append" /\ run'.stage = r.stage)
    BY AppendIs DEF SameCounts
<1>2. CASE InCatch(run', r)
  <2>1. InCatch(run', run)
      BY <1>2 DEF InCatch, SameCounts
  <2> QED
      BY <2>1, CatchAccounts
<1>3. CASE SameCounts(run', r) /\ run'.at = "append" /\ run'.stage = r.stage
  <2>1. SameCounts(run', run) /\ run'.at = "append" /\ run'.stage = run.stage
      BY <1>3 DEF SameCounts
  <2>2. StageInv'
      BY <2>1 DEF StageInv, Provider
  <2>3. Early' => Early
      BY <2>1 DEF Early, Provider
  <2>4. run'.at \in Working \ {"attribute", "generate"} /\ run'.at # "save"
      BY <2>1 DEF Working
  <2>5. Late => Late'
      BY <2>1 DEF Late
  <2>6. run'.live = TRUE /\ run'.stage = "publishing" => Reserved.status = "settled"
      BY <2>1 DEF SameCounts
  <2> QED
      BY <2>1, <2>2, <2>3, <2>4, <2>5, <2>6, MoveAccounts
<1> QED
    BY <1>1, <1>2, <1>3

\* A run that goes to its next call, in the same stage.
LEMMA CallAccounts ==
    ASSUME Undertaken, IsRun(run), ~ Late,
           NEW point \in {"store", "extract", "mark", "clear", "undoMark", "ground", "appendField",
                          "appendDecision", "settle"},
           run' = To(run, point),
           point = "store" => run.stage = "storing",
           point \in Provider => run.stage = "extracting",
           point \in {"mark", "clear", "undoMark", "settle"} => run.live = TRUE,
           point = "ground" => run.stage = "verifying",
           point = "appendField" => run.stage = "comparing",
           point = "appendDecision" => run.stage = "deciding",
           point = "settle" => run.stage = "publishing",
           point = "store" \/ point \in Provider => Early \/ (run.retries = 1 /\ run.limit = 2)
    PROVE  Account'
<1>1. SameCounts(run', run) /\ run'.at = point /\ run'.stage = run.stage
    BY ToSame
<1>2. StageInv'
    BY <1>1 DEF StageInv, Provider, SameCounts
<1>3. Early' => point = "store" \/ point \in Provider
    BY <1>1 DEF Early
<1>4. run'.at \in Working \ {"attribute", "generate"} /\ run'.at \notin {"save", "append"}
    BY <1>1 DEF Working
<1> QED
    BY <1>1, <1>2, <1>3, <1>4, MoveAccounts

\* A run that yields ends there, when its stream was cancelled.
LEMMA YieldAccounts ==
    ASSUME Undertaken, UNCHANGED client, NEW r, SameCounts(r, run), run' = Yield(r),
           run' = r => Account'
    PROVE  Account'
<1>1. CASE ~ client.cancelled
    BY <1>1 DEF Yield
<1>2. CASE client.cancelled
  <2>1. run' = To(r, "ended") /\ client'.cancelled
      BY <1>2 DEF Yield
  <2>2. SameCounts(run', run) /\ run'.at = "ended"
      BY <2>1, ToSame DEF SameCounts
  <2> QED
      BY <2>1, <2>2, CancelledAccounts
<1> QED
    BY <1>1, <1>2

LEMMA AppendAccounts == FullInv /\ Append_ => Account'
<1> SUFFICES ASSUME FullInv, Append_ PROVE Account'
    OBVIOUS
<1>1. IsRun(run) /\ IsRow(row) /\ run.live \in BOOLEAN /\ StageInv
    BY DEF FullInv, IInv, Shape, Account, CountInv
<1>2. run.at = "append" /\ run.stage \in StageName
    BY <1>1 DEF Append_, At, StageInv
<1>3. /\ row'.completed = row.completed /\ UNCHANGED reservations /\ UNCHANGED client
      /\ faults' = faults \/ (faults > 0 /\ faults' = faults - 1)
    BY <1>1, RowKeeps DEF Append_, Call, WriteRow, Untouched, ledger
<1>4. Undertaken
    BY <1>2, <1>3, AtWork DEF Working
<1> DEFINE next == CASE run.stage = "comparing" /\ Fields > 0 -> To(run, "appendField")
                     [] run.stage = "publishing" -> To(run, "save")
                     [] OTHER -> Announce(After(run.stage))
<1>5. run' = next \/ run' = Caught(run)
    BY DEF Append_, Call
<1>6. CASE run' = Caught(run)
    BY <1>1, <1>4, <1>6, CaughtIs, CatchAccounts
<1>7. CASE run' = next /\ run.stage = "comparing" /\ Fields > 0
  <2>1. run' = To(run, "appendField")
      BY <1>7
  <2>2. SameCounts(run', run) /\ run'.at = "appendField" /\ run'.stage = "comparing"
      BY <1>1, <1>7, <2>1, ToSame
  <2>3. StageInv' /\ ~ Early'
      BY <2>2 DEF StageInv, Provider, Early
  <2>4. ~ Late /\ run'.at \in Working \ {"attribute", "generate"} /\ run'.at \notin {"save", "append"}
      BY <1>2, <1>7, <2>2 DEF Late, Working
  <2> QED
      BY <1>4, <2>2, <2>3, <2>4, MoveAccounts
<1>8. CASE run' = next /\ run.stage = "publishing"
  <2>1. run' = To(run, "save")
      BY <1>8
  <2>2. SameCounts(run', run) /\ run'.at = "save" /\ run'.stage = "publishing"
      BY <1>1, <1>8, <2>1, ToSame
  <2>3. StageInv' /\ ~ Early' /\ Late'
      BY <2>2 DEF StageInv, Provider, Early, Late
  <2>4. run'.at \in Working \ {"attribute", "generate"}
      BY <2>2 DEF Working
  <2>5. run'.live = TRUE => Reserved.status = "settled"
      BY <1>2, <1>8, <2>2 DEF FullInv, Account, PaidInv, SameCounts
  <2> QED
      BY <1>4, <2>2, <2>3, <2>4, <2>5, MoveAccounts
<1>9. CASE run' = next /\ ~ (run.stage = "comparing" /\ Fields > 0) /\ run.stage # "publishing"
  <2>1. run' = Announce(After(run.stage))
      BY <1>9
  <2>2. After(run.stage) \in StageName \ {"validating"}
      BY <1>2, <1>9, Afters DEF StageName
  <2>3. After(run.stage) \in {"storing", "extracting"} => run.stage \in {"validating", "storing"}
      BY <1>2, <1>9, Afters DEF StageName
  <2>4. run.stage \in {"validating", "storing"} => Early
      BY <1>2 DEF Early
  <2>5. ~ Late
      BY <1>2, <1>9 DEF Late
  <2> HIDE DEF next
  <2> QED
      BY <1>1, <1>2, <1>3, <1>4, <2>1, <2>2, <2>3, <2>4, <2>5, AnnounceAccounts
<1> QED
    BY <1>5, <1>6, <1>7, <1>8, <1>9

LEMMA AnnouncedAccounts == FullInv /\ Announced => Account'
<1> SUFFICES ASSUME FullInv, Announced PROVE Account'
    OBVIOUS
<1>1. IsRun(run) /\ IsRow(row) /\ run.live \in BOOLEAN /\ StageInv
    BY DEF FullInv, IInv, Shape, Account, CountInv
<1>2. run.at = "announce" /\ run.stage \in StageName \ {"validating"} /\ ~ Late
    BY <1>1 DEF Announced, At, StageInv, Late
<1>3. /\ row'.completed = row.completed /\ UNCHANGED reservations /\ UNCHANGED client
      /\ faults' = faults \/ (faults > 0 /\ faults' = faults - 1)
  <2>1. \/ row' = row
        \/ row' = [row EXCEPT !.status = run.stage]
      BY DEF Announced, Call, WriteRow, Untouched
  <2>2. [row EXCEPT !.status = run.stage].completed = row.completed
      BY <1>1, RowKeeps
  <2>3. /\ UNCHANGED reservations /\ UNCHANGED client
        /\ faults' = faults \/ (faults > 0 /\ faults' = faults - 1)
      BY DEF Announced, Call, WriteRow, Untouched, ledger
  <2> QED
      BY <2>1, <2>2, <2>3
<1>4. Undertaken
    BY <1>2, <1>3, AtWork DEF Working
<1>5. SameCounts(run, run) /\ SameCounts(Caught(run), run) /\ SameCounts(AppendStage(run), run)
    BY <1>1, CaughtIs, AppendIs DEF SameCounts, InCatch
<1>6. \A point : SameCounts(To(run, point), run)
    BY <1>1, ToSame
<1>7. run.stage \in {"storing", "extracting"} => Early
    BY <1>2 DEF Early
<1>8. run' = Caught(run) => Account'
    BY <1>1, <1>4, CaughtIs, CatchAccounts
<1>9. CASE run' # Caught(run) /\ run.stage = "storing"
  <2>1. run' = Yield(To(run, "store"))
      BY <1>9 DEF Announced, Call
  <2>2. run' = To(run, "store") => Account'
      BY <1>1, <1>2, <1>4, <1>7, <1>9, CallAccounts DEF Provider
  <2> QED
      BY <1>3, <1>4, <1>6, <2>1, <2>2, YieldAccounts
<1>10. CASE run' # Caught(run) /\ run.stage = "extracting"
  <2>1. run' = Yield(Unless(To(run, "extract")))
      BY <1>10 DEF Announced, Call
  <2>2. run' = To(run, "extract") => Account'
      BY <1>1, <1>2, <1>4, <1>7, <1>10, CallAccounts DEF Provider
  <2>3. Unless(To(run, "extract")) \in {Caught(run), To(run, "extract")}
      BY DEF Unless
  <2>4. SameCounts(Unless(To(run, "extract")), run)
      BY <1>5, <1>6, <2>3
  <2> QED
      BY <1>3, <1>4, <1>8, <2>1, <2>2, <2>3, <2>4, YieldAccounts
<1>11. CASE run' # Caught(run) /\ run.stage = "verifying"
  <2>1. run' = Yield(To(run, "ground"))
      BY <1>11 DEF Announced, Call
  <2>2. run' = To(run, "ground") => Account'
      BY <1>1, <1>2, <1>4, <1>11, CallAccounts DEF Provider
  <2> QED
      BY <1>3, <1>4, <1>6, <2>1, <2>2, YieldAccounts
<1>12. CASE run' # Caught(run) /\ run.stage = "deciding"
  <2>1. run' = Yield(To(run, "appendDecision"))
      BY <1>12 DEF Announced, Call
  <2>2. run' = To(run, "appendDecision") => Account'
      BY <1>1, <1>2, <1>4, <1>12, CallAccounts DEF Provider
  <2> QED
      BY <1>3, <1>4, <1>6, <2>1, <2>2, YieldAccounts
<1>13. CASE run' # Caught(run) /\ run.stage = "publishing" /\ run.live = TRUE
  <2>1. run' = Yield(To(run, "settle"))
      BY <1>13 DEF Announced, Call
  <2>2. run' = To(run, "settle") => Account'
      BY <1>1, <1>2, <1>4, <1>13, CallAccounts DEF Provider
  <2> QED
      BY <1>3, <1>4, <1>6, <2>1, <2>2, YieldAccounts
<1>14. CASE /\ run' # Caught(run)
            /\ run.stage = "comparing" \/ (run.stage = "publishing" /\ run.live # TRUE)
  <2>1. run' = Yield(AppendStage(run))
      BY <1>1, <1>14 DEF Announced, Call
  <2>2. run' = AppendStage(run) => Account'
      BY <1>1, <1>2, <1>4, <1>5, <1>14, StepAccounts
  <2> QED
      BY <1>3, <1>4, <1>5, <2>1, <2>2, YieldAccounts
<1> QED
    BY <1>1, <1>2, <1>8, <1>9, <1>10, <1>11, <1>12, <1>13, <1>14 DEF StageName

LEMMA AwokenAccounts == FullInv /\ Awoken => Account'
<1> SUFFICES ASSUME FullInv, Awoken PROVE Account'
    OBVIOUS
<1>1. IsRun(run) /\ run.live \in BOOLEAN
    BY DEF FullInv, IInv, Shape, Account, CountInv
<1>2. Undertaken /\ run' = Caught(run)
    BY AtWork DEF Awoken, At, Local, Untouched, ledger, Working
<1> QED
    BY <1>1, <1>2, CaughtIs, CatchAccounts

\* The document is stored, and later grounded.
LEMMA StoreAccounts == FullInv /\ (Store \/ Ground \/ AppendDecision) => Account'
<1> SUFFICES ASSUME FullInv, Store \/ Ground \/ AppendDecision PROVE Account'
    OBVIOUS
<1>1. IsRun(run) /\ IsRow(row) /\ run.live \in BOOLEAN /\ StageInv
    BY DEF FullInv, IInv, Shape, Account, CountInv
<1>2. run.at \in {"store", "ground", "appendDecision"}
    BY DEF Store, Ground, AppendDecision, At
<1>3. run.stage \in StageName \ {"validating", "publishing"}
    BY <1>1, <1>2 DEF StageInv, StageName
<1>4. ~ Late /\ (run.stage = "storing" => Early)
    BY <1>1, <1>2 DEF StageInv, Late, Early
<1>5. /\ row'.completed = row.completed /\ UNCHANGED reservations
      /\ faults' = faults \/ (faults > 0 /\ faults' = faults - 1)
    BY <1>1, RowKeeps
    DEF Store, Ground, AppendDecision, Call, Local, WriteRow, WriteFile, Untouched, ledger
<1>6. Undertaken
    BY <1>2, <1>5, AtWork DEF Working
<1>7. run' \in {Caught(run), AppendStage(run)}
    BY DEF Store, Ground, AppendDecision, Call, Local
<1>8. SameCounts(run, run)
    BY <1>1 DEF SameCounts
<1>9. CASE run' = Caught(run)
    BY <1>1, <1>6, <1>9, CaughtIs, CatchAccounts
<1>10. CASE run' = AppendStage(run)
    BY <1>1, <1>3, <1>4, <1>6, <1>8, <1>10, StepAccounts
<1> QED
    BY <1>7, <1>9, <1>10

LEMMA FieldAccounts == FullInv /\ AppendField => Account'
<1> SUFFICES ASSUME FullInv, AppendField PROVE Account'
    OBVIOUS
<1> DEFINE counted == [run EXCEPT !.fields = @ + 1]
           announced == [counted EXCEPT !.at = "announce", !.stage = "deciding"]
<1>1. IsRun(run) /\ IsRow(row) /\ run.live \in BOOLEAN /\ StageInv
    BY DEF FullInv, IInv, Shape, Account, CountInv
<1>2. run.at = "appendField" /\ run.stage = "comparing" /\ ~ Late
    BY <1>1 DEF AppendField, At, StageInv, Late
<1>3. /\ row'.completed = row.completed /\ UNCHANGED reservations /\ UNCHANGED client
      /\ faults' = faults \/ (faults > 0 /\ faults' = faults - 1)
    BY <1>1, RowKeeps DEF AppendField, Call, WriteRow, Untouched, ledger
<1>4. Undertaken
    BY <1>2, <1>3, AtWork DEF Working
<1>5. SameCounts(counted, run) /\ counted.at = run.at /\ counted.stage = run.stage
    BY <1>1 DEF SameCounts, IsRun
<1>6. SameCounts(announced, run) /\ announced.at = "announce" /\ announced.stage = "deciding"
  <2> DEFINE there == [counted EXCEPT !.at = "announce"]
  <2>1. SameCounts(there, counted) /\ there.at = "announce"
    <3> HIDE DEF counted
    <3>1. IsRun(counted) /\ there = To(counted, "announce")
        BY <1>5 DEF SameCounts, To
    <3> QED
        BY <3>1, ToSame
  <2>2. announced = [there EXCEPT !.stage = "deciding"]
      OBVIOUS
  <2> HIDE DEF there, announced
  <2>3. SameCounts(announced, there) /\ announced.at = "announce" /\ announced.stage = "deciding"
      BY <2>1, <2>2 DEF SameCounts, IsRun
  <2> QED
      BY <1>5, <2>1, <2>3 DEF SameCounts
<1>7. run' \in {Caught(run), Yield(counted), Yield(Caught(counted)), Yield(announced)}
    BY DEF AppendField, Call
<1> HIDE DEF counted, announced
<1>8. run' = Caught(run) => Account'
    BY <1>1, <1>4, CaughtIs, CatchAccounts
<1>9. CASE run' = Yield(counted)
  <2>1. run' = counted => Account'
    <3> SUFFICES ASSUME run' = counted PROVE Account'
        OBVIOUS
    <3>1. SameCounts(run', run) /\ run'.at = "appendField" /\ run'.stage = "comparing"
        BY <1>2, <1>5
    <3>2. StageInv' /\ ~ Early'
        BY <3>1 DEF StageInv, Provider, Early
    <3>3. run'.at \in Working \ {"attribute", "generate"} /\ run'.at \notin {"save", "append"}
        BY <3>1 DEF Working
    <3> QED
        BY <1>2, <1>4, <3>1, <3>2, <3>3, MoveAccounts
  <2> QED
      BY <1>3, <1>4, <1>5, <1>9, <2>1, YieldAccounts
<1>10. CASE run' = Yield(Caught(counted))
  <2>1. InCatch(Caught(counted), counted)
      BY <1>1, <1>5, CaughtIs DEF SameCounts
  <2>2. InCatch(Caught(counted), run) /\ SameCounts(Caught(counted), run)
      BY <1>5, <2>1 DEF InCatch, SameCounts
  <2>3. run' = Caught(counted) => Account'
      BY <1>4, <2>2, CatchAccounts
  <2> QED
      BY <1>3, <1>4, <1>10, <2>2, <2>3, YieldAccounts
<1>11. CASE run' = Yield(announced)
  <2>1. run' = announced => Account'
    <3> SUFFICES ASSUME run' = announced PROVE Account'
        OBVIOUS
    <3>1. SameCounts(run', run) /\ run'.at = "announce" /\ run'.stage = "deciding"
        BY <1>6
    <3>2. StageInv' /\ ~ Early'
        BY <3>1 DEF StageInv, Provider, Early, StageName
    <3>3. run'.at \in Working \ {"attribute", "generate"} /\ run'.at \notin {"save", "append"}
        BY <3>1 DEF Working
    <3> QED
        BY <1>2, <1>4, <3>1, <3>2, <3>3, MoveAccounts
  <2> QED
      BY <1>3, <1>4, <1>6, <1>11, <2>1, YieldAccounts
<1> QED
    BY <1>7, <1>8, <1>9, <1>10, <1>11

-----------------------------------------------------------------------------
(* Extraction                                                               *)

LEMMA ExtractAccounts == FullInv /\ (Extract \/ AppendRetry) => Account'
<1> SUFFICES ASSUME FullInv, Extract \/ AppendRetry PROVE Account'
    OBVIOUS
<1>1. IsRun(run) /\ IsRow(row) /\ run.live \in BOOLEAN /\ StageInv
    BY DEF FullInv, IInv, Shape, Account, CountInv
<1>2. run.at \in {"extract", "appendRetry"} /\ run.stage = "extracting" /\ ~ Late /\ Early
    BY <1>1 DEF Extract, AppendRetry, At, StageInv, Late, Early, Provider
<1>3. /\ row'.completed = row.completed /\ UNCHANGED reservations
      /\ faults' = faults \/ (faults > 0 /\ faults' = faults - 1)
    BY <1>1, RowKeeps DEF Extract, AppendRetry, Call, Local, WriteRow, Untouched, ledger
<1>4. Undertaken
    BY <1>2, <1>3, AtWork DEF Working
<1>5. SameCounts(run, run)
    BY <1>1 DEF SameCounts
<1>6. CASE run' = Caught(run)
    BY <1>1, <1>4, <1>6, CaughtIs, CatchAccounts
<1>7. CASE run' = AppendStage(run)
    BY <1>1, <1>2, <1>4, <1>5, <1>7, StepAccounts DEF StageName
<1>8. CASE run' = To(run, "mark") /\ run.live = TRUE
    BY <1>1, <1>2, <1>4, <1>8, CallAccounts DEF Provider
<1>9. CASE run' = To(run, "extract")
    BY <1>1, <1>2, <1>4, <1>9, CallAccounts DEF Provider
<1> QED
    BY <1>1, <1>6, <1>7, <1>8, <1>9 DEF Extract, AppendRetry, Call, Local, Unless

\* A request was answered, failed for good, or is to be repeated.
LEMMA GenerateAccounts == FullInv /\ Generate => Account'
<1> SUFFICES ASSUME FullInv, Generate PROVE Account'
    OBVIOUS
<1> DEFINE again == [run EXCEPT !.at = "appendRetry", !.retries = 1]
<1>1. IsRun(run) /\ IsRow(row) /\ run.live \in BOOLEAN /\ StageInv
    BY DEF FullInv, IInv, Shape, Account, CountInv
<1>2. run.at = "generate" /\ run.stage = "extracting" /\ run.live = TRUE /\ run.calls > 0 /\ ~ Late
    BY <1>1 DEF Generate, At, StageInv, Late, Provider, FullInv, Account, ChargeInv
<1>3. /\ row' = row /\ UNCHANGED reservations /\ file' = file /\ client' = client
      /\ faults' = faults
    BY DEF Generate, Local, Untouched, ledger
<1>4. Undertaken /\ ~ Cheaper
    BY <1>2, <1>3, AtWork DEF Working, FullInv, Account, PaidInv
<1>5. CASE run' = Caught(run)
    BY <1>1, <1>4, <1>5, CaughtIs, CatchAccounts
<1>6. run.told = "nothing"
    BY <1>2 DEF FullInv, Account, VerdictInv
<1>7. ~ Cheaper' /\ VerdictInv /\ ChargeInv /\ Charged
    BY <1>2, <1>3, <1>4 DEF Cheaper, Reserved, FullInv, Account, ChargeInv
<1>8. Charged'
    BY <1>3, <1>7 DEF Charged, Reserved
<1>9. CASE run.limit = 2 /\ run.retries = 0 /\ run' = again
  <2> DEFINE there == [run EXCEPT !.at = "appendRetry"]
  <2>1. SameCounts(there, run) /\ there.at = "appendRetry" /\ there.stage = run.stage
      BY <1>1, ToSame DEF To
  <2>2. again = [there EXCEPT !.retries = 1]
      OBVIOUS
  <2> HIDE DEF there
  <2>3. /\ run'.live = run.live /\ run'.limit = 2 /\ run'.retries = 1 /\ run'.told = "nothing"
        /\ run'.calls = run.calls /\ run'.dispatches = run.dispatches
        /\ run'.trusted = run.trusted /\ run'.at = "appendRetry" /\ run'.stage = "extracting"
      BY <1>2, <1>6, <1>9, <2>1, <2>2 DEF SameCounts, IsRun
  <2>4. CountInv'
      BY <2>3 DEF FullInv, Account, CountInv
  <2>5. StageInv'
      BY <1>2, <2>3 DEF StageInv, Provider
  <2>6. ChargeInv'
      BY <2>3 DEF ChargeInv
  <2>7. PaidInv'
      BY <1>2, <1>3, <1>7, <2>3 DEF FullInv, Account, PaidInv, Reserved
  <2>8. VerdictInv'
      BY <1>3, <2>3 DEF FullInv, Account, VerdictInv
  <2> QED
      BY <2>4, <2>5, <2>6, <2>7, <2>8 DEF Account
<1>10. CASE \E trusted \in BOOLEAN : run' = AppendStage([run EXCEPT !.trusted = trusted])
  <2> PICK trusted \in BOOLEAN : run' = AppendStage([run EXCEPT !.trusted = trusted])
      BY <1>10
  <2> DEFINE read == [run EXCEPT !.trusted = trusted]
  <2>1. /\ IsRun(read) /\ read.live = run.live /\ read.limit = run.limit
        /\ read.retries = run.retries /\ read.told = run.told
        /\ read.calls = run.calls /\ read.dispatches = run.dispatches
        /\ read.trusted = trusted /\ read.at = run.at /\ read.stage = run.stage
      BY <1>1 DEF IsRun
  <2> HIDE DEF read
  <2>2. \/ InCatch(run', read)
        \/ SameCounts(run', read) /\ run'.at = "append" /\ run'.stage = "extracting"
      BY <1>1, <1>2, <2>1, AppendIs DEF read
  <2>3. /\ run'.live = run.live /\ run'.limit = run.limit /\ run'.told = "nothing"
        /\ run'.retries = run.retries
        /\ run'.calls = run.calls /\ run'.dispatches = run.dispatches
        /\ run'.trusted = trusted
        /\ \/ run'.at \in {"tombstone", "markFailed", "catchSettle"}
           \/ run'.at = "append" /\ run'.stage = "extracting"
    <3>1. run.dispatches > 0
        BY <1>2 DEF FullInv, Account, CountInv
    <3> QED
        BY <1>6, <2>1, <2>2, <3>1 DEF SameCounts, InCatch
  <2>4. CountInv'
      BY <1>2, <2>3 DEF FullInv, Account, CountInv
  <2>5. StageInv'
      BY <1>2, <2>3 DEF StageInv, Provider, StageName
  <2>6. ChargeInv'
      BY <1>8, <2>3 DEF ChargeInv, Early, Provider
  <2>7. PaidInv'
      BY <1>2, <1>3, <1>7, <2>3 DEF FullInv, Account, PaidInv, Reserved
  <2>8. VerdictInv'
      BY <1>3, <2>3 DEF FullInv, Account, VerdictInv
  <2> QED
      BY <2>4, <2>5, <2>6, <2>7, <2>8 DEF Account
<1> QED
    BY <1>5, <1>9, <1>10 DEF Generate, Local

LEMMA AttributeAccounts == FullInv /\ Attribute => Account'
<1> SUFFICES ASSUME FullInv, Attribute PROVE Account'
    OBVIOUS
<1> DEFINE counted == [run EXCEPT !.dispatches = @ + 1]
           called == [counted EXCEPT !.at = "generate", !.calls = @ + 1]
           marked == [row EXCEPT !.attributed = TRUE]
<1>1. IsRun(run) /\ IsRow(row) /\ run.live \in BOOLEAN /\ StageInv
    BY DEF FullInv, IInv, Shape, Account, CountInv
<1>2. /\ run.at = "attribute" /\ run.stage = "extracting" /\ run.live = TRUE /\ ~ Late /\ Early
      /\ Charged
    BY <1>1 DEF Attribute, At, StageInv, Late, Early, Provider, FullInv, Account, ChargeInv
<1>3. marked.completed = row.completed /\ marked.attributed = TRUE
    BY <1>1 DEF IsRow
<1>4. /\ row' = row \/ row' = marked
      /\ UNCHANGED reservations /\ file' = file /\ client' = client
      /\ faults' = faults \/ (faults > 0 /\ faults' = faults - 1)
    BY DEF Attribute, Call, WriteRow, Untouched, ledger
<1>5. \/ run' = To(run, "clear")
      \/ run' = Caught(counted)
      \/ run' = called /\ row' = marked /\ faults' = faults
    BY DEF Attribute, Call, WriteRow, Untouched
<1> HIDE DEF marked
<1>6. Undertaken /\ ~ Cheaper /\ Reserved' = Reserved
    BY <1>2, <1>3, <1>4, AtWork DEF Working, FullInv, Account, PaidInv
<1>7. CASE run' = To(run, "clear")
    BY <1>1, <1>2, <1>6, <1>7, CallAccounts DEF Provider
<1>8. run.told = "nothing" /\ CountInv /\ VerdictInv /\ ChargeInv /\ PaidInv
    BY <1>2 DEF FullInv, Account, VerdictInv
<1>9. /\ IsRun(counted) /\ counted.live = run.live /\ counted.limit = run.limit
      /\ counted.retries = run.retries /\ counted.told = run.told /\ counted.calls = run.calls
      /\ counted.dispatches = run.dispatches + 1
      /\ counted.trusted = run.trusted /\ counted.at = run.at /\ counted.stage = run.stage
    BY <1>1 DEF IsRun
<1> HIDE DEF counted
<1>10. Charged' /\ ~ Cheaper'
    BY <1>2, <1>6 DEF Charged, Cheaper
<1>11. faults' \in 0..MaxFaults
    BY <1>4, <1>8, FaultsKeep
<1>12. CASE run' = Caught(counted)
  <2>1. InCatch(run', counted)
      BY <1>1, <1>9, <1>12, CaughtIs
  <2>2. /\ run'.live = run.live /\ run'.limit = run.limit /\ run'.told = "nothing"
        /\ run'.retries = run.retries
        /\ run'.calls = run.calls /\ run'.dispatches = run.dispatches + 1
        /\ run'.trusted = run.trusted
        /\ run'.at \in {"tombstone", "markFailed", "catchSettle"}
      BY <1>8, <1>9, <2>1 DEF SameCounts, InCatch, CountInv
  <2>3. CountInv'
      BY <1>8, <2>2 DEF CountInv
  <2>4. StageInv'
      BY <1>2, <2>2 DEF StageInv, Provider
  <2>5. ChargeInv'
      BY <1>10, <2>2 DEF ChargeInv, Early, Provider
  <2>6. PaidInv'
      BY <1>3, <1>4, <1>6, <1>8, <1>10, <2>2 DEF PaidInv
  <2>7. VerdictInv'
      BY <1>11, <2>2 DEF VerdictInv
  <2> QED
      BY <2>3, <2>4, <2>5, <2>6, <2>7 DEF Account
<1>13. CASE run' = called /\ row' = marked /\ faults' = faults
  <2> DEFINE there == [counted EXCEPT !.at = "generate"]
  <2>1. there = To(counted, "generate")
      BY DEF To
  <2>2. called = [there EXCEPT !.calls = @ + 1]
      OBVIOUS
  <2>3. SameCounts(there, counted) /\ there.at = "generate" /\ there.stage = counted.stage
      BY <1>9, <2>1, ToSame
  <2> HIDE DEF there
  <2>4. /\ run'.live = run.live /\ run'.limit = run.limit /\ run'.told = "nothing"
        /\ run'.retries = run.retries
        /\ run'.calls = run.calls + 1 /\ run'.dispatches = run.dispatches + 1
        /\ run'.trusted = run.trusted
        /\ run'.at = "generate" /\ run'.stage = "extracting"
      BY <1>2, <1>8, <1>9, <1>13, <2>2, <2>3 DEF SameCounts, IsRun
  <2>5. CountInv'
      BY <1>8, <2>4 DEF CountInv
  <2>6. StageInv'
      BY <1>2, <2>4 DEF StageInv, Provider
  <2>7. ChargeInv'
      BY <1>3, <1>8, <1>10, <1>13, <2>4 DEF ChargeInv, Early, Provider, CountInv
  <2>8. PaidInv'
      BY <1>2, <1>3, <1>6, <1>8, <1>10, <1>13, <2>4 DEF PaidInv
  <2>9. VerdictInv'
      BY <1>11, <2>4 DEF VerdictInv
  <2> QED
      BY <2>5, <2>6, <2>7, <2>8, <2>9 DEF Account
<1> QED
    BY <1>5, <1>7, <1>12, <1>13

-----------------------------------------------------------------------------
(* The ledger                                                               *)

LEMMA Marks ==
    ASSUME ReservedInv, L!MarkDispatched(Reservation)
    PROVE  ReservedInv' /\ Reserved'.status = "pending" /\ Reserved'.dispatched = TRUE
BY DEF ReservedInv, Reserved, IsReserved, L!MarkDispatched

LEMMA Clears ==
    ASSUME ReservedInv, L!ClearDispatched(Reservation)
    PROVE  ReservedInv' /\ Reserved'.status = "pending"
BY DEF ReservedInv, Reserved, IsReserved, L!ClearDispatched

LEMMA Releases ==
    ASSUME ReservedInv, L!Release(Reservation)
    PROVE  ReservedInv' /\ Reserved'.status = "released"
BY DEF ReservedInv, Reserved, IsReserved, L!Release

LEMMA Settles ==
    ASSUME ReservedInv, NEW cost, L!SettleAt(Reservation, cost)
    PROVE  /\ ReservedInv' /\ Reserved'.status = "settled" /\ Reserved'.actual = cost
           /\ Reserved'.reserved = Reserved.reserved
<1> DEFINE closed == [Reserved EXCEPT !.status = "settled"]
           paid == [closed EXCEPT !.actual = cost]
<1>1. /\ DOMAIN reservations' = {Reservation}
      /\ Reserved' = [Reserved EXCEPT !.status = "settled", !.actual = cost]
    BY DEF ReservedInv, Reserved, L!SettleAt
<1>2. Reserved' = paid
    BY <1>1
<1>3. /\ IsReserved(closed) /\ closed.status = "settled" /\ closed.reserved = Reserved.reserved
      /\ closed.dispatched = Reserved.dispatched
    BY DEF ReservedInv, IsReserved
<1> HIDE DEF closed
<1>4. /\ IsReserved(paid) /\ paid.status = "settled" /\ paid.reserved = Reserved.reserved
      /\ paid.dispatched = Reserved.dispatched /\ paid.actual = cost
    BY <1>3 DEF IsReserved
<1> HIDE DEF paid
<1> QED
    BY <1>1, <1>2, <1>4 DEF ReservedInv

\* The sweep settles in full what was dispatched, and releases the rest.
Swept ==
    \/ Reserved' = Reserved
    \/ /\ Reserved.status = "pending" /\ Reserved.dispatched = TRUE
       /\ Reserved'.status = "settled" /\ Reserved'.actual = Reserved'.reserved
    \/ /\ Reserved.status = "pending" /\ Reserved.dispatched = FALSE
       /\ Reserved'.status = "released"

LEMMA Sweeps ==
    ASSUME ReservedInv, NEW d, NEW t, reservations' = L!Reconciled(d, t)
    PROVE  ReservedInv' /\ Swept
<1> DEFINE full == [Reserved EXCEPT !.status = "settled", !.actual = Reserved.reserved]
           given == [Reserved EXCEPT !.status = "released", !.actual = 0]
<1>1. DOMAIN reservations' = {Reservation}
    BY DEF L!Reconciled
<1>2. \A status, cost :
          LET s == [Reserved EXCEPT !.status = status, !.actual = cost]
          IN  /\ IsReserved(s) /\ s.status = status /\ s.actual = cost
              /\ s.reserved = Reserved.reserved /\ s.dispatched = Reserved.dispatched
  <2> TAKE status, cost
  <2> DEFINE closed == [Reserved EXCEPT !.status = status]
             paid == [closed EXCEPT !.actual = cost]
  <2>1. [Reserved EXCEPT !.status = status, !.actual = cost] = paid
      OBVIOUS
  <2>2. /\ IsReserved(closed) /\ closed.status = status /\ closed.reserved = Reserved.reserved
        /\ closed.dispatched = Reserved.dispatched
      BY DEF ReservedInv, IsReserved
  <2> HIDE DEF closed
  <2>3. /\ IsReserved(paid) /\ paid.status = status /\ paid.reserved = Reserved.reserved
        /\ paid.dispatched = Reserved.dispatched /\ paid.actual = cost
      BY <2>2 DEF IsReserved
  <2> HIDE DEF paid
  <2> QED
      BY <2>1, <2>3
<1>3. \/ Reserved' = full /\ Reserved.status = "pending" /\ Reserved.dispatched = TRUE
      \/ Reserved' = given /\ Reserved.status = "pending" /\ Reserved.dispatched = FALSE
      \/ Reserved' = Reserved
    BY DEF L!Reconciled, L!StaleDispatched, L!Stale, Reserved, ReservedInv
<1>4. /\ IsReserved(full) /\ full.status = "settled" /\ full.actual = Reserved.reserved
      /\ full.reserved = Reserved.reserved /\ full.dispatched = Reserved.dispatched
  <2> DEFINE cost == Reserved.reserved
             paid == [Reserved EXCEPT !.status = "settled", !.actual = cost]
  <2> HIDE DEF cost
  <2>1. /\ IsReserved(paid) /\ paid.status = "settled" /\ paid.actual = cost
        /\ paid.reserved = Reserved.reserved /\ paid.dispatched = Reserved.dispatched
      BY <1>2
  <2>2. paid = full
      BY DEF cost
  <2> HIDE DEF paid, full
  <2> QED
      BY <2>1, <2>2 DEF cost
<1>5. /\ IsReserved(given) /\ given.status = "released"
      /\ given.reserved = Reserved.reserved /\ given.dispatched = Reserved.dispatched
    BY <1>2
<1> HIDE DEF full, given
<1> QED
    BY <1>1, <1>3, <1>4, <1>5 DEF ReservedInv, Swept

-----------------------------------------------------------------------------
(* Marks and releases                                                       *)

LEMMA MarkAccounts == FullInv /\ Mark => Account' /\ ReservedInv'
<1> SUFFICES ASSUME FullInv, Mark PROVE Account' /\ ReservedInv'
    OBVIOUS
<1>1. IsRun(run) /\ run.live \in BOOLEAN /\ StageInv /\ ReservedInv
    BY DEF FullInv, IInv, Shape, Account, CountInv
<1>2. /\ run.at = "mark" /\ run.stage = "extracting" /\ run.live = TRUE /\ ~ Late /\ Early
    BY <1>1 DEF Mark, At, StageInv, Late, Early, Provider
<1>3. /\ row' = row /\ client' = client
      /\ faults' = faults \/ (faults > 0 /\ faults' = faults - 1)
    BY DEF Mark, Call, Ledger, Untouched
<1>4. \/ reservations' = reservations /\ (Held => run' = Caught(run))
      \/ Held /\ L!MarkDispatched(Reservation)
    BY DEF Mark, Call, Ledger, Untouched, ledger
<1>5. /\ ReservedInv'
      /\ \/ Reserved' = Reserved /\ (Held => run' = Caught(run))
         \/ Held /\ Reserved'.status = "pending" /\ Reserved'.dispatched = TRUE
    BY <1>1, <1>4, Marks DEF ReservedInv, Reserved
<1>6. Undertaken
  <2>1. LedgerStep
      BY <1>2, <1>5 DEF LedgerStep, Held, Reserved, FullInv, Account, ChargeInv
  <2> QED
      BY <1>2, <1>3, <2>1 DEF Undertaken, Working
<1>7. CASE run' = Caught(run)
    BY <1>1, <1>5, <1>6, <1>7, CaughtIs, CatchAccounts
<1>8. CASE run' = To(run, "clear")
    BY <1>1, <1>2, <1>5, <1>6, <1>8, CallAccounts DEF Provider
<1>9. CASE run' = To(run, "attribute") /\ run' # Caught(run) /\ Held
  <2>1. SameCounts(run', run) /\ run'.at = "attribute" /\ run'.stage = "extracting"
      BY <1>1, <1>2, <1>9, ToSame
  <2>2. StageInv'
      BY <1>2, <2>1 DEF StageInv, Provider, SameCounts
  <2>3. Charged'
      BY <1>5, <1>9 DEF Charged
  <2>4. run'.at \in Working \ {"generate"} /\ run'.at \notin {"save", "append"}
      BY <2>1 DEF Working
  <2>5. Account'
      BY <1>2, <1>6, <2>1, <2>2, <2>3, <2>4, MoveAccounts
  <2> QED
      BY <1>5, <2>5
<1>10. \/ run' = Caught(run) \/ run' = To(run, "clear")
       \/ run' = To(run, "attribute") /\ Held
    BY DEF Mark, Call
<1> QED
    BY <1>7, <1>8, <1>9, <1>10

LEMMA UndoAccounts == FullInv /\ (Clear \/ UndoMark \/ CatchRelease) => Account' /\ ReservedInv'
<1> SUFFICES ASSUME FullInv, Clear \/ UndoMark \/ CatchRelease PROVE Account' /\ ReservedInv'
    OBVIOUS
<1>1. IsRun(run) /\ run.live \in BOOLEAN /\ StageInv /\ ReservedInv
    BY DEF FullInv, IInv, Shape, Account, CountInv
<1>2. /\ run.at \in {"clear", "undoMark", "catchRelease"}
      /\ Clear => run.at = "clear" /\ run.stage = "extracting" /\ run.live = TRUE /\ ~ Late
      /\ run.at = "catchRelease" \/ Early
    BY <1>1 DEF Clear, UndoMark, CatchRelease, At, StageInv, Late, Early, Provider
<1>3. /\ row' = row
      /\ faults' = faults \/ (faults > 0 /\ faults' = faults - 1)
    BY DEF Clear, UndoMark, CatchRelease, Call, Ledger, Untouched
<1>4. \/ reservations' = reservations
      \/ Held /\ (L!ClearDispatched(Reservation) \/ L!Release(Reservation))
    BY DEF Clear, UndoMark, CatchRelease, Call, Ledger, Untouched, ledger
<1>5. /\ ReservedInv'
      /\ \/ Reserved' = Reserved
         \/ Held /\ Reserved'.status \in {"pending", "released"}
    BY <1>1, <1>4, Clears, Releases DEF ReservedInv, Reserved
<1>6. Undertaken
  <2>1. LedgerStep
      BY <1>2, <1>5 DEF LedgerStep, Held, Reserved, FullInv, Account, ChargeInv
  <2> QED
      BY <1>2, <1>3, <2>1 DEF Undertaken, Working, Catching
<1>7. CASE run' = Caught(run) \/ run' = Verdict(run)
    BY <1>1, <1>5, <1>6, <1>7, CaughtIs, CatchAccounts
<1>8. CASE run' = To(run, "undoMark") /\ Clear
    BY <1>1, <1>2, <1>5, <1>6, <1>8, CallAccounts DEF Provider
<1> QED
    BY <1>7, <1>8 DEF Clear, UndoMark, CatchRelease, Call

-----------------------------------------------------------------------------
(* Settlement                                                               *)

\* What a settlement does to the ledger: nothing, or it settles the row, at
\* less than the whole only for one single trusted response.
SettleStep ==
    \/ Reserved' = Reserved
    \/ /\ Reserved'.status = "settled"
       /\ \/ Reserved'.actual = Reserved'.reserved
          \/ run.calls = 1 /\ run.retries = 0 /\ run.trusted = TRUE

\* A row that is settled already, or that the call settles, is settled then.
LEMMA SettlesRow ==
    ASSUME FullInv, NEW accepted, NEW refused, SettleProviderCost(accepted, refused)
    PROVE  /\ ReservedInv' /\ SettleStep
           /\ run' = refused \/ (run' = accepted /\ Reserved'.status = "settled")
           /\ row' = row /\ file' = file /\ client' = client
           /\ faults' = faults \/ (faults > 0 /\ faults' = faults - 1)
<1>1. CountInv /\ ReservedInv
    BY DEF FullInv, Account
<1>2. /\ row' = row /\ file' = file /\ client' = client
      /\ faults' = faults \/ (faults > 0 /\ faults' = faults - 1)
      /\ run' = refused \/ run' = accepted
    BY DEF SettleProviderCost, Call, Ledger, Untouched
<1>3. CASE reservations' = reservations
  <2>1. ReservedInv' /\ Reserved' = Reserved
      BY <1>1, <1>3 DEF ReservedInv, Reserved
  <2>2. CASE run' = refused
      BY <1>2, <2>1, <2>2 DEF SettleStep
  <2>3. CASE run' = accepted /\ run' # refused
    <3>1. reservations[Reservation].status \in {"pending", "settled"}
        BY <2>3 DEF SettleProviderCost, Call
    <3>2. CASE Held
      <4>1. \E cost : L!SettleAt(Reservation, cost)
          BY <2>3, <3>2 DEF SettleProviderCost, Call, Ledger, L!Settle, L!SettleConservatively
      <4> QED
          BY <1>1, <1>2, <2>1, <2>3, <4>1, Settles DEF SettleStep
    <3>3. CASE ~ Held
        BY <1>2, <2>1, <2>3, <3>1, <3>3 DEF SettleStep, Held, Reserved
    <3> QED
        BY <3>2, <3>3
  <2> QED
      BY <1>2, <2>2, <2>3
<1>4. CASE reservations' # reservations
  <2>1. /\ Held
        /\ IF UseExactCost THEN L!Settle(Reservation, ExactCost)
                           ELSE L!SettleConservatively(Reservation)
      BY <1>4 DEF SettleProviderCost, Call, Ledger, Untouched, ledger
  <2>2. CASE UseExactCost
    <3>1. run.calls = 1 /\ run.retries = 0 /\ run.trusted = TRUE
        BY <1>1, <2>2 DEF UseExactCost, CountInv
    <3>2. \E cost : L!SettleAt(Reservation, cost)
        BY <2>1, <2>2 DEF L!Settle
    <3>3. ReservedInv' /\ Reserved'.status = "settled"
        BY <1>1, <3>2, Settles
    <3> QED
        BY <1>2, <3>1, <3>3 DEF SettleStep
  <2>3. CASE ~ UseExactCost
    <3>1. L!SettleAt(Reservation, Reserved.reserved)
        BY <2>1, <2>3 DEF L!SettleConservatively, Reserved
    <3>2. ReservedInv' /\ Reserved'.status = "settled" /\ Reserved'.actual = Reserved'.reserved
        BY <1>1, <3>1, Settles
    <3> QED
        BY <1>2, <3>2 DEF SettleStep
  <2> QED
      BY <2>2, <2>3
<1> QED
    BY <1>3, <1>4

LEMMA SettleAccounts == FullInv /\ (Settle \/ CatchSettle) => Account' /\ ReservedInv'
<1> SUFFICES ASSUME FullInv, Settle \/ CatchSettle PROVE Account' /\ ReservedInv'
    OBVIOUS
<1> DEFINE accepted == Settlement("accepted")
           refused == Settlement("refused")
<1>1. /\ IsRun(run) /\ run.live = TRUE /\ StageInv /\ CountInv /\ ChargeInv /\ PaidInv /\ VerdictInv
      /\ run.at \in {"settle", "catchSettle"}
      /\ run.at = "settle" => run.stage = "publishing"
    BY DEF Settle, CatchSettle, At, FullInv, IInv, Shape, Account, StageInv
<1>2. \A result : /\ SameCounts(Settlement(result), run) /\ Settlement(result).stage = run.stage
                  /\ Settlement(result).settlement = result
    BY <1>1 DEF Settlement, SameCounts, IsRun
<1>3. /\ \/ /\ run' = Caught(refused)
            /\ Settle
         \/ run' = AppendStage(accepted) /\ Reserved'.status = "settled" /\ Settle
         \/ run' \in {Verdict(accepted), Verdict(refused)} /\ CatchSettle
      /\ ReservedInv' /\ SettleStep
      /\ row' = row /\ file' = file /\ client' = client
      /\ faults' = faults \/ (faults > 0 /\ faults' = faults - 1)
  <2> HIDE DEF accepted, refused
  <2> QED
      BY SettlesRow DEF Settle, CatchSettle, accepted, refused
<1>4. Settle => run.stage = "publishing"
    BY <1>1 DEF Settle, At
<1>5. /\ accepted.settlement = "accepted" /\ SameCounts(accepted, run) /\ accepted.stage = run.stage
      /\ refused.settlement = "refused" /\ SameCounts(refused, run)
    BY <1>2
<1> HIDE DEF accepted, refused
<1>6. Caught(refused) = Verdict(refused) /\ Caught(accepted) = Verdict(accepted)
    BY <1>5 DEF Caught
<1>7. \A r : Verdict(r) = To(r, "tombstone") \/ Verdict(r) = To(r, "markFailed")
    BY DEF Verdict
<1>8. /\ SameCounts(run', run)
      /\ \/ run'.at \in {"tombstone", "markFailed"}
         \/ run'.at = "append" /\ run'.stage = "publishing" /\ Reserved'.status = "settled"
  <2>1. run' \in {Verdict(refused), Verdict(accepted)}
            \/ (run' = To(accepted, "append") /\ Reserved'.status = "settled" /\ Settle)
      BY <1>3, <1>6 DEF AppendStage
  <2>2. \A r, point : IsRun(r) => SameCounts(To(r, point), r) /\ To(r, point).at = point /\ To(r, point).stage = r.stage
      BY ToSame
  <2>3. IsRun(accepted) /\ IsRun(refused)
      BY <1>5 DEF SameCounts
  <2>4. \E r \in {accepted, refused}, point \in {"tombstone", "markFailed", "append"} :
            /\ run' = To(r, point)
            /\ point = "append" => r = accepted /\ Reserved'.status = "settled" /\ Settle
      BY <1>7, <2>1
  <2>5. PICK r \in {accepted, refused}, point \in {"tombstone", "markFailed", "append"} :
            /\ run' = To(r, point)
            /\ point = "append" => r = accepted /\ Reserved'.status = "settled" /\ Settle
      BY <2>4
  <2>6. SameCounts(run', r) /\ run'.at = point /\ run'.stage = r.stage
      BY <2>2, <2>3, <2>5
  <2> QED
      BY <1>4, <1>5, <2>5, <2>6 DEF SameCounts
<1>9. CountInv'
    BY <1>1, <1>8 DEF CountInv, SameCounts
<1>10. StageInv'
    BY <1>1, <1>8 DEF StageInv, Provider, StageName, SameCounts
<1>11. ChargeInv'
  <2>1. run'.limit = 1 /\ run'.calls > 0 => Charged'
      BY <1>1, <1>3, <1>8 DEF ChargeInv, SettleStep, SameCounts, Charged
  <2>2. ~ Early' /\ run'.at \notin {"attribute", "generate", "catchRelease"}
      BY <1>8 DEF Early, Provider
  <2> QED
      BY <2>1, <2>2 DEF ChargeInv
<1>12. PaidInv'
  <2>1. Late'
      BY <1>8 DEF Late
  <2>2. Cheaper' => run.calls = 1 /\ run.retries = 0 /\ run.trusted = TRUE
    <3>1. CASE Reserved' = Reserved
        BY <1>1, <3>1 DEF Cheaper, PaidInv
    <3>2. CASE Reserved' # Reserved
      <4>1. Reserved'.reserved \in Nat
          BY <1>3 DEF ReservedInv
      <4> QED
          BY <1>3, <3>2, <4>1 DEF Cheaper, SettleStep
    <3> QED
        BY <3>1, <3>2
  <2>3. Reserved.status = "settled" => Reserved'.status = "settled"
      BY <1>3 DEF SettleStep
  <2> QED
      BY <1>1, <1>3, <1>8, <2>1, <2>2, <2>3 DEF PaidInv, SameCounts
<1>13. VerdictInv'
  <2>1. faults' \in 0..MaxFaults
      BY <1>1, <1>3, FaultsKeep
  <2>2. run'.told = "nothing"
      BY <1>1, <1>8 DEF VerdictInv, SameCounts
  <2> QED
      BY <1>8, <2>1, <2>2 DEF VerdictInv
<1> QED
    BY <1>3, <1>9, <1>10, <1>11, <1>12, <1>13 DEF Account

-----------------------------------------------------------------------------
(* Admission                                                                *)

LEMMA SubmitAccounts ==
    ASSUME FullInv, NEW live \in BOOLEAN, NEW valid \in BOOLEAN, NEW limit \in {1, 2},
           Submit(live, valid, limit)
    PROVE  Account' /\ ReservedInv'
<1> DEFINE start == IF client.aborted THEN "withdraw" ELSE IF valid THEN "create" ELSE "abandon"
           there == [run EXCEPT !.at = start]
           admitted == [there EXCEPT !.live = live]
<1>1. /\ IsRun(run) /\ StageInv /\ CountInv /\ ChargeInv /\ PaidInv /\ VerdictInv /\ ReservedInv
      /\ run.at = "idle" /\ run.stage = "validating" /\ run.calls = 0 /\ row.completed = FALSE
    BY DEF Submit, At, FullInv, IInv, Shape, Account, StageInv
<1>2. run' = [admitted EXCEPT !.limit = limit]
    BY DEF Submit
<1>3. row' = row /\ file' = file /\ client' = client /\ faults' = faults
    BY DEF Submit
<1>4. there = To(run, start) /\ start \in {"withdraw", "create", "abandon"}
    BY DEF To
<1>5. SameCounts(there, run) /\ there.at = start /\ there.stage = "validating"
    BY <1>1, <1>4, ToSame
<1> HIDE DEF there, start
<1>6. /\ IsRun(admitted) /\ admitted.live = live /\ admitted.limit = run.limit
      /\ admitted.dispatches = run.dispatches /\ admitted.calls = run.calls
      /\ admitted.retries = run.retries /\ admitted.trusted = run.trusted
      /\ admitted.told = run.told /\ admitted.at = start /\ admitted.stage = "validating"
    BY <1>5 DEF SameCounts, IsRun
<1> HIDE DEF admitted
<1>7. /\ run'.live = live /\ run'.limit = limit /\ run'.dispatches = run.dispatches
      /\ run'.calls = 0 /\ run'.retries = run.retries /\ run'.trusted = run.trusted
      /\ run'.told = "nothing" /\ run'.at \in {"withdraw", "create", "abandon"}
      /\ run'.stage = "validating"
    BY <1>1, <1>2, <1>4, <1>6 DEF IsRun, VerdictInv
<1>8. ReservedInv' /\ ~ Cheaper'
  <2>1. ~ Cheaper
      BY <1>1 DEF PaidInv, Late
  <2>2. CASE live = FALSE
    <3>1. reservations' = L!Reconciled(L!DayOf(now), now)
        BY <2>2 DEF Submit, L!ReserveRecorded
    <3>2. ReservedInv' /\ Swept
        BY <1>1, <3>1, Sweeps
    <3> QED
        BY <2>1, <3>2 DEF Swept, Cheaper, ReservedInv
  <2>3. CASE live = TRUE
    <3> DEFINE held == [status |-> "pending", day |-> L!DayOf(now), reserved |-> FullCost, actual |-> 0,
                        dispatched |-> FALSE, expires |-> now + Lease]
    <3>1. reservations' = [L!Reconciled(L!DayOf(now), now) EXCEPT ![Reservation] = held]
        BY <2>3 DEF Submit, L!ReserveLive
    <3>2. DOMAIN reservations' = {Reservation} /\ Reserved' = held
        BY <3>1 DEF L!Reconciled, Reserved
    <3>3. /\ IsReserved(held) /\ held.reserved \in Nat /\ held.dispatched \in BOOLEAN
          /\ held.status = "pending"
        BY RunAssumption DEF IsReserved
    <3> HIDE DEF held
    <3> QED
        BY <3>2, <3>3 DEF ReservedInv, Cheaper
  <2> QED
      BY <2>2, <2>3
<1>9. CountInv'
    BY <1>1, <1>7 DEF CountInv
<1>10. StageInv'
    BY <1>7 DEF StageInv, Provider
<1>11. ChargeInv'
    BY <1>7 DEF ChargeInv, Early, Provider
<1>12. PaidInv'
    BY <1>1, <1>3, <1>7, <1>8 DEF PaidInv
<1>13. VerdictInv'
  <2>1. Faultless' => Faultless
      BY <1>3 DEF Faultless
  <2> QED
      BY <1>1, <1>3, <1>7, <2>1 DEF VerdictInv
<1> QED
    BY <1>8, <1>9, <1>10, <1>11, <1>12, <1>13 DEF Account

\* A call that failed, and one that may have.
LEMMA FaultsAre ==
    ASSUME NEW do, NEW ok, NEW failed, Call(do, ok, failed), VerdictInv
    PROVE  /\ faults' \in 0..MaxFaults /\ (Faultless' => Faultless /\ do /\ run' = ok)
           /\ client' = client
<1>1. faults' = faults \/ (faults > 0 /\ faults' = faults - 1)
    BY DEF Call
<1>2. faults' \in 0..MaxFaults /\ (Faultless' => faults' = faults /\ faults \in Nat)
    BY <1>1, FaultsKeep, RunAssumption DEF Faultless, VerdictInv
<1>3. faults' = faults /\ faults \in Nat => do /\ run' = ok
    BY DEF Call
<1> QED
    BY <1>2, <1>3 DEF Call, Faultless

LEMMA CreateAccounts == FullInv /\ Create => Account'
<1> SUFFICES ASSUME FullInv, Create PROVE Account'
    OBVIOUS
<1> DEFINE named == [row EXCEPT !.status = "validating", !.key = TRUE]
           kept == [row EXCEPT !.status = "validating"]
<1>1. /\ IsRun(run) /\ IsRow(row) /\ run.live \in BOOLEAN /\ StageInv /\ VerdictInv /\ CountInv
      /\ ChargeInv /\ PaidInv
    BY DEF FullInv, IInv, Shape, Account, CountInv
<1>2. run.at = "create" /\ run.stage = "validating" /\ ~ Late /\ Early
    BY <1>1 DEF Create, At, StageInv, Late, Early
<1>3. named.completed = row.completed
  <2>1. IsRow(kept) /\ kept.completed = row.completed
      BY <1>1 DEF IsRow
  <2>2. named = [kept EXCEPT !.key = TRUE]
      OBVIOUS
  <2> HIDE DEF kept, named
  <2> QED
      BY <2>1, <2>2 DEF IsRow
<1>4. Call(WriteRow(named), AppendStage(run), To(run, "abandon"))
    BY DEF Create
<1> HIDE DEF named
<1>5. /\ row' = row \/ row' = named
      /\ UNCHANGED reservations
      /\ faults' = faults \/ (faults > 0 /\ faults' = faults - 1)
      /\ run' = AppendStage(run) \/ (run' = To(run, "abandon") /\ faults' # faults)
    BY <1>1, <1>4 DEF Call, WriteRow, Untouched, ledger, VerdictInv
<1>6. Undertaken /\ Reserved' = Reserved
    BY <1>2, <1>3, <1>5, AtWork
<1>7. CASE run' = AppendStage(run)
  <2>1. SameCounts(run, run)
      BY <1>1 DEF SameCounts
  <2> QED
      BY <1>1, <1>2, <1>6, <1>7, <2>1, StepAccounts DEF StageName
<1>8. CASE run' = To(run, "abandon") /\ faults' # faults
  <2>1. SameCounts(run', run) /\ run'.at = "abandon" /\ run'.stage = "validating"
      BY <1>1, <1>2, <1>8, ToSame
  <2>2. CountInv'
      BY <1>1, <2>1 DEF CountInv, SameCounts
  <2>3. StageInv'
      BY <2>1 DEF StageInv, Provider
  <2>4. ChargeInv'
      BY <1>1, <1>2, <1>6, <2>1 DEF ChargeInv, SameCounts, Charged
  <2>5. PaidInv'
      BY <1>1, <1>2, <1>3, <1>5, <1>6, <2>1 DEF PaidInv, SameCounts, Cheaper
  <2>6. VerdictInv'
    <3>1. faults' \in 0..MaxFaults /\ ~ Faultless'
        BY <1>1, <1>5, <1>8, FaultsKeep DEF Faultless
    <3> QED
        BY <1>1, <1>2, <2>1, <3>1 DEF VerdictInv, SameCounts
  <2> QED
      BY <2>2, <2>3, <2>4, <2>5, <2>6 DEF Account
<1> QED
    BY <1>5, <1>7, <1>8

\* A run ends, having said so, or not, with what a step has written.
LEMMA EndAccounts ==
    ASSUME FullInv, LedgerStep, NEW word, run' = [run EXCEPT !.at = "ended", !.told = word],
           row'.completed = TRUE /\ run.live = TRUE => Reserved.status = "settled",
           faults' \in 0..MaxFaults,
           word = "completed" => row'.status = "completed",
           word = "failed" /\ Faultless' => row'.status \in {"none", "failed"},
           Faultless' /\ ~ client'.cancelled =>
               /\ row'.status \in {"none", "completed", "failed", "deleted"}
               /\ row'.status = "deleted" => file'.blob = FALSE /\ file'.job = FALSE
    PROVE  Account'
<1> DEFINE there == [run EXCEPT !.at = "ended"]
<1>1. CountInv /\ IsRun(run) /\ ChargeInv /\ PaidInv
    BY DEF FullInv, IInv, Shape, Account
<1>2. SameCounts(there, run) /\ there.at = "ended"
    BY <1>1, ToSame DEF To
<1>3. run' = [there EXCEPT !.told = word]
    OBVIOUS
<1> HIDE DEF there
<1>4. /\ run'.live = run.live /\ run'.limit = run.limit /\ run'.dispatches = run.dispatches
      /\ run'.calls = run.calls /\ run'.retries = run.retries /\ run'.trusted = run.trusted
      /\ run'.told = word /\ run'.at = "ended"
    BY <1>2, <1>3 DEF SameCounts, IsRun
<1>5. CountInv'
    BY <1>1, <1>4 DEF CountInv
<1>6. StageInv'
    BY <1>4 DEF StageInv, Provider
<1>7. ChargeInv'
    BY <1>1, <1>4, LedgerKeeps DEF ChargeInv, Early, Provider
<1>8. PaidInv'
    BY <1>1, <1>4, LedgerKeeps DEF PaidInv, Late
<1>9. VerdictInv'
    BY <1>4 DEF VerdictInv
<1> QED
    BY <1>5, <1>6, <1>7, <1>8, <1>9 DEF Account

LEMMA GiveUpAccounts == FullInv /\ (Withdraw \/ Abandon) => Account' /\ ReservedInv'
<1> SUFFICES ASSUME FullInv, Withdraw \/ Abandon PROVE Account' /\ ReservedInv'
    OBVIOUS
<1>1. /\ VerdictInv /\ ChargeInv /\ PaidInv /\ ReservedInv /\ CountInv
      /\ run.at \in {"withdraw", "abandon"}
    BY DEF Withdraw, Abandon, GiveUp, At, FullInv, Account
<1>2. PICK word \in {"nothing", "failed"} :
          LET end == [run EXCEPT !.at = "ended", !.told = word]
          IN  \/ Call(Ledger(L!Release(Reservation)), end, end)
              \/ Local(end)
    BY DEF Withdraw, Abandon, GiveUp
<1> DEFINE end == [run EXCEPT !.at = "ended", !.told = word]
<1>3. /\ run' = end /\ row' = row /\ file' = file
      /\ faults' = faults \/ (faults > 0 /\ faults' = faults - 1)
      /\ \/ reservations' = reservations
         \/ Held /\ L!Release(Reservation)
  <2> HIDE DEF end
  <2>1. Call(Ledger(L!Release(Reservation)), end, end) \/ Local(end)
      BY <1>2 DEF end
  <2> QED
      BY <2>1 DEF Call, Local, Ledger, Untouched, ledger
<1>4. ReservedInv' /\ (Reserved' = Reserved \/ (Held /\ Reserved'.status = "released"))
    BY <1>1, <1>3, Releases DEF ReservedInv, Reserved
<1>5. LedgerStep
    BY <1>1, <1>4 DEF LedgerStep, Held, Reserved, ChargeInv, Early
<1>6. faults' \in 0..MaxFaults /\ (Faultless' => Faultless)
    BY <1>1, <1>3, FaultsKeep DEF Faultless
<1>7. Faultless' => row'.status = "none"
    BY <1>1, <1>3, <1>6 DEF VerdictInv
<1>8. row'.completed = TRUE /\ run.live = TRUE => Reserved.status = "settled"
    BY <1>1, <1>3 DEF PaidInv
<1>9. word # "completed"
    BY <1>2
<1> QED
    BY <1>3, <1>4, <1>5, <1>6, <1>7, <1>8, <1>9, EndAccounts

-----------------------------------------------------------------------------
(* Results, and the ends of the catch block                                 *)

LEMMA SaveAccounts == FullInv /\ Save => Account'
<1> SUFFICES ASSUME FullInv, Save PROVE Account'
    OBVIOUS
<1> DEFINE named == [row EXCEPT !.status = "completed", !.completed = TRUE]
           end == [run EXCEPT !.at = "ended", !.told = "completed"]
<1>1. /\ IsRun(run) /\ IsRow(row) /\ run.live \in BOOLEAN /\ VerdictInv /\ CountInv
      /\ ChargeInv /\ PaidInv /\ run.at = "save" /\ run.told = "nothing"
    BY DEF FullInv, IInv, Shape, Account, CountInv, Save, At, VerdictInv
<1>2. named.status = "completed"
    BY <1>1 DEF IsRow
<1>3. Call(WriteRow(named), end, Caught(run))
    BY DEF Save
<1> HIDE DEF named
<1>4. /\ row' = row \/ row' = named
      /\ UNCHANGED reservations /\ file' = file /\ client' = client
      /\ faults' = faults \/ (faults > 0 /\ faults' = faults - 1)
      /\ \/ run' = end /\ row' = named
         \/ run' = Caught(run)
    BY <1>3 DEF Call, WriteRow, Untouched, ledger
<1>5. LedgerStep /\ faults' \in 0..MaxFaults /\ Reserved' = Reserved
    BY <1>1, <1>4, FaultsKeep DEF LedgerStep, Reserved
<1>6. run.live = TRUE => Reserved.status = "settled"
    BY <1>1 DEF PaidInv
<1>7. CASE run' = end /\ row' = named
    BY <1>2, <1>5, <1>6, <1>7, EndAccounts
<1>8. CASE run' = Caught(run)
  <2>1. InCatch(run', run)
      BY <1>1, <1>8, CaughtIs
  <2>2. CountInv'
      BY <1>1, <2>1 DEF CountInv, InCatch, SameCounts
  <2>3. StageInv'
      BY <2>1 DEF InCatch, StageInv, Provider, SameCounts
  <2>4. ChargeInv'
    <3>1. run'.at = "catchRelease" => run'.calls = 0
        BY <1>1, <2>1 DEF CountInv, InCatch, SameCounts
    <3>2. run'.limit = 1 /\ run'.calls > 0 => Charged'
        BY <1>1, <1>5, <2>1 DEF ChargeInv, InCatch, SameCounts, Charged
    <3> QED
        BY <2>1, <3>1, <3>2 DEF ChargeInv, InCatch, Early, Provider
  <2>5. PaidInv'
      BY <1>1, <1>5, <1>6, <2>1 DEF PaidInv, InCatch, SameCounts, Late, Cheaper
  <2>6. VerdictInv'
      BY <1>1, <1>5, <2>1 DEF VerdictInv, InCatch, SameCounts
  <2> QED
      BY <2>2, <2>3, <2>4, <2>5, <2>6 DEF Account
<1> QED
    BY <1>4, <1>7, <1>8

LEMMA FailAccounts == FullInv /\ MarkFailed => Account'
<1> SUFFICES ASSUME FullInv, MarkFailed PROVE Account'
    OBVIOUS
<1> DEFINE traced == Trace(run.stage)
           named == [traced EXCEPT !.status = "failed"]
           marked == [traced EXCEPT !.status = "failed", !.failed = TRUE]
           end == [run EXCEPT !.at = "ended", !.told = "failed"]
<1>1. IsRow(row) /\ VerdictInv /\ PaidInv
    BY DEF FullInv, IInv, Shape, Account
<1>2. IsRow(traced) /\ traced.completed = row.completed
    BY <1>1, Traced, RowKeeps
<1>3. marked = [named EXCEPT !.failed = TRUE]
    OBVIOUS
<1> HIDE DEF traced
<1>4. IsRow(named) /\ named.completed = row.completed /\ named.status = "failed"
    BY <1>2 DEF IsRow
<1>5. Call(WriteRow(marked), end, end)
    BY DEF MarkFailed, traced
<1> HIDE DEF named, marked
<1>6. marked.completed = row.completed /\ marked.status = "failed"
    BY <1>3, <1>4 DEF IsRow
<1>7. /\ row' = row \/ row' = marked
      /\ UNCHANGED reservations /\ run' = end
    BY <1>5 DEF Call, WriteRow, Untouched, ledger
<1>8. faults' \in 0..MaxFaults /\ (Faultless' => row' = marked)
    BY <1>1, <1>5, FaultsAre DEF WriteRow
<1>9. LedgerStep
    BY <1>7 DEF LedgerStep, Reserved
<1>10. row'.completed = TRUE /\ run.live = TRUE => Reserved.status = "settled"
    BY <1>1, <1>6, <1>7 DEF PaidInv
<1> QED
    BY <1>6, <1>7, <1>8, <1>9, <1>10, EndAccounts

\* The details of an aborted run go, and then its document.
LEMMA CleanupAccounts == FullInv /\ (Tombstone \/ DeleteBlob \/ DeleteJob) => Account'
<1> SUFFICES ASSUME FullInv, Tombstone \/ DeleteBlob \/ DeleteJob PROVE Account'
    OBVIOUS
<1> DEFINE named == [row EXCEPT !.status = "deleted"]
           unkeyed == [named EXCEPT !.key = FALSE]
           bare == [row EXCEPT !.status = "deleted", !.key = FALSE, !.steps = <<>>]
<1>1. /\ IsRun(run) /\ IsRow(row) /\ IsFile(file) /\ VerdictInv /\ CountInv /\ ChargeInv /\ PaidInv
      /\ KeyInv
      /\ run.at \in {"tombstone", "deleteBlob", "deleteJob"} /\ run.told = "nothing"
    BY DEF FullInv, IInv, Shape, Account, Tombstone, DeleteBlob, DeleteJob, At, VerdictInv
<1>2. bare = [unkeyed EXCEPT !.steps = <<>>]
    OBVIOUS
<1>3. IsRow(named) /\ named.completed = row.completed /\ named.status = "deleted"
    BY <1>1 DEF IsRow
<1> HIDE DEF named
<1>4. IsRow(unkeyed) /\ unkeyed.completed = row.completed /\ unkeyed.status = "deleted"
  <2>1. \A key : LET r == [named EXCEPT !.key = key]
                 IN  IsRow(r) /\ r.completed = row.completed /\ r.status = "deleted"
      BY <1>3 DEF IsRow
  <2> QED
      BY <2>1
<1> HIDE DEF unkeyed
<1>5. bare.completed = row.completed /\ bare.status = "deleted"
    BY <1>2, <1>4 DEF IsRow
<1> HIDE DEF bare
<1>6. /\ UNCHANGED reservations
      /\ row' = row \/ (row' = bare /\ run.at = "tombstone")
      /\ faults' = faults \/ (faults > 0 /\ faults' = faults - 1)
      /\ run' = To(run, "ended") \/ (run' = To(run, "deleteBlob") /\ row' = bare)
             \/ (run' = To(run, "deleteJob") /\ row' = row /\ run.at = "deleteBlob")
    BY DEF Tombstone, DeleteBlob, DeleteJob, At, Call, WriteFile, Untouched, ledger, bare
<1>7. run' = To(run, "ended") /\ Faultless' =>
          row'.status = "deleted" /\ file'.blob = FALSE /\ file'.job = FALSE
  <2> SUFFICES ASSUME run' = To(run, "ended"), Faultless'
               PROVE  row'.status = "deleted" /\ file'.blob = FALSE /\ file'.job = FALSE
      OBVIOUS
  <2>1. To(run, "ended").at = "ended" /\ To(run, "deleteBlob").at = "deleteBlob"
        /\ To(run, "deleteJob").at = "deleteJob"
      BY <1>1, ToSame
  <2>2. ~ Tombstone
    <3>1. Tombstone => faults' # faults
        BY <1>1, <2>1 DEF Tombstone, Call, VerdictInv
    <3> QED
        BY <1>1, <1>6, <3>1, FaultsKeep DEF Faultless, VerdictInv
  <2>3. ~ DeleteBlob
    <3>1. DeleteBlob => faults' # faults
        BY <1>1, <2>1 DEF DeleteBlob, Call, VerdictInv
    <3> QED
        BY <1>1, <1>6, <3>1, FaultsKeep DEF Faultless, VerdictInv
  <2>4. DeleteJob /\ run.at = "deleteJob"
      BY <2>2, <2>3 DEF DeleteJob, At
  <2>5. row' = row /\ file' = [file EXCEPT !.job = FALSE]
      BY <1>1, <2>4, FaultsAre DEF DeleteJob, WriteFile
  <2> QED
      BY <1>1, <2>4, <2>5 DEF KeyInv, VerdictInv, IsFile
<1>8. PICK point \in {"ended", "deleteBlob", "deleteJob"} :
          /\ run' = To(run, point)
          /\ point \in {"deleteBlob", "deleteJob"} => row'.status = "deleted"
    BY <1>1, <1>5, <1>6 DEF VerdictInv
<1>9. SameCounts(run', run) /\ run'.at = point
    BY <1>1, <1>8, ToSame
<1>10. Reserved' = Reserved /\ row'.completed = row.completed /\ faults' \in 0..MaxFaults
    BY <1>1, <1>5, <1>6, FaultsKeep DEF Reserved
<1>11. CountInv'
    BY <1>1, <1>9 DEF CountInv, SameCounts
<1>12. StageInv'
    BY <1>9 DEF StageInv, Provider
<1>13. ChargeInv'
    BY <1>1, <1>9, <1>10 DEF ChargeInv, SameCounts, Early, Provider, Charged
<1>14. PaidInv'
    BY <1>1, <1>9, <1>10 DEF PaidInv, SameCounts, Late, Cheaper
<1>15. VerdictInv'
  <2>1. run'.told = "nothing"
      BY <1>1, <1>9 DEF SameCounts
  <2>2. run'.at = "ended" => run' = To(run, "ended")
      BY <1>8, <1>9
  <2> QED
      BY <1>7, <1>8, <1>9, <1>10, <2>1, <2>2 DEF VerdictInv
<1> QED
    BY <1>11, <1>12, <1>13, <1>14, <1>15 DEF Account

-----------------------------------------------------------------------------
(* Everybody else                                                           *)

LEMMA ClientAccounts == FullInv /\ (Abort \/ Cancel \/ Crash) => Account'
<1> SUFFICES ASSUME FullInv, Abort \/ Cancel \/ Crash PROVE Account'
    OBVIOUS
<1>1. /\ IsRun(run) /\ VerdictInv /\ CountInv /\ ChargeInv /\ PaidInv /\ StageInv
      /\ run.at # "ended"
    BY DEF FullInv, IInv, Shape, Account, Abort, Cancel, Crash, Waiting
<1>2. /\ row' = row /\ file' = file /\ Reserved' = Reserved
      /\ faults' = faults \/ (faults > 0 /\ faults' = faults - 1)
      /\ run' = run \/ run' = To(run, "crashed")
      /\ run' = run => faults' = faults
    BY <1>1, ToSame DEF Abort, Cancel, Crash, Untouched, ledger, Reserved, Waiting
<1>3. faults' \in 0..MaxFaults
    BY <1>1, <1>2, FaultsKeep
<1>4. CASE run' = run
  <2>1. CountInv' /\ StageInv' /\ ChargeInv' /\ PaidInv'
      BY <1>1, <1>2, <1>4
      DEF CountInv, StageInv, ChargeInv, PaidInv, Charged, Cheaper, Early, Late
  <2>2. VerdictInv'
      BY <1>1, <1>2, <1>4 DEF VerdictInv, Faultless
  <2> QED
      BY <2>1, <2>2 DEF Account
<1>5. CASE run' = To(run, "crashed")
  <2>1. SameCounts(run', run) /\ run'.at = "crashed"
      BY <1>1, <1>5, ToSame
  <2>2. CountInv'
      BY <1>1, <2>1 DEF CountInv, SameCounts
  <2>3. StageInv'
      BY <2>1 DEF StageInv, Provider
  <2>4. ChargeInv'
      BY <1>1, <1>2, <2>1 DEF ChargeInv, SameCounts, Early, Provider, Charged
  <2>5. PaidInv'
      BY <1>1, <1>2, <2>1 DEF PaidInv, SameCounts, Late, Cheaper
  <2>6. VerdictInv'
      BY <1>1, <1>3, <2>1 DEF VerdictInv, SameCounts
  <2> QED
      BY <2>2, <2>3, <2>4, <2>5, <2>6 DEF Account
<1> QED
    BY <1>2, <1>4, <1>5

\* Time passes, and the sweep closes what has run out.
LEMMA ElsewhereAccounts == FullInv /\ (Elsewhere \/ UNCHANGED vars) => Account' /\ ReservedInv'
<1> SUFFICES ASSUME FullInv, Elsewhere \/ UNCHANGED vars PROVE Account' /\ ReservedInv'
    OBVIOUS
<1>1. /\ VerdictInv /\ CountInv /\ ChargeInv /\ PaidInv /\ StageInv /\ ReservedInv
    BY DEF FullInv, Account
<1>2. /\ row' = row /\ file' = file /\ run' = run /\ client' = client /\ faults' = faults
    BY DEF Elsewhere, vars
<1>3. ReservedInv' /\ Swept
  <2>1. reservations' = reservations \/ \E d, t : reservations' = L!Reconciled(d, t)
      BY DEF Elsewhere, vars, ledger, L!Tick, L!Snapshot
  <2>2. CASE reservations' = reservations
      BY <1>1, <2>2 DEF ReservedInv, Reserved, Swept
  <2> QED
      BY <1>1, <2>1, <2>2, Sweeps
<1>4. /\ Charged => Charged'
      /\ Reserved.status = "settled" => Reserved'.status = "settled"
      /\ Cheaper' => Cheaper
    BY <1>3 DEF Swept, Charged, Cheaper, ReservedInv
<1>5. CountInv' /\ StageInv' /\ VerdictInv'
    BY <1>1, <1>2 DEF CountInv, StageInv, VerdictInv, Faultless
<1>6. ChargeInv'
    BY <1>1, <1>2, <1>4 DEF ChargeInv, Early
<1>7. PaidInv'
    BY <1>1, <1>2, <1>4 DEF PaidInv, Late
<1> QED
    BY <1>3, <1>5, <1>6, <1>7 DEF Account

LEMMA InitAccounts == Init => FullInv
<1> SUFFICES ASSUME Init PROVE FullInv
    OBVIOUS
<1>1. IInv
    BY InitHolds
<1>2. Reserved = L!AbsentRow /\ DOMAIN reservations = {Reservation}
    BY DEF Init, L!Init, Reserved
<1>3. ReservedInv /\ Reserved.status = "absent"
    BY <1>2 DEF ReservedInv, IsReserved, L!AbsentRow
<1>4. CountInv /\ StageInv
    BY DEF Init, CountInv, StageInv, Provider
<1>5. ChargeInv /\ PaidInv
    BY <1>3 DEF Init, ChargeInv, PaidInv, Cheaper
<1>6. VerdictInv
    BY RunAssumption DEF Init, VerdictInv
<1> QED
    BY <1>1, <1>3, <1>4, <1>5, <1>6 DEF FullInv, Account

LEMMA LeavesLedger ==
    ASSUME ReservedInv, UNCHANGED reservations
    PROVE  ReservedInv'
BY DEF ReservedInv, Reserved

LEMMA NextAccounts == FullInv /\ [Next]_vars => FullInv'
<1> SUFFICES ASSUME FullInv, [Next]_vars PROVE FullInv'
    OBVIOUS
<1>1. IInv' /\ ReservedInv
    BY NextKeeps DEF FullInv
<1>2. CASE \E live, valid \in BOOLEAN, limit \in {1, 2} : Submit(live, valid, limit)
    BY <1>1, <1>2, SubmitAccounts DEF FullInv
<1>3. CASE Withdraw \/ Abandon \/ Mark \/ Clear \/ UndoMark \/ CatchRelease \/ Settle \/ CatchSettle
    BY <1>1, <1>3, GiveUpAccounts, MarkAccounts, UndoAccounts, SettleAccounts DEF FullInv
<1>4. CASE \/ Create \/ Append_ \/ Announced \/ Awoken \/ Store \/ Ground \/ AppendField
           \/ AppendDecision \/ Extract \/ Attribute \/ Generate \/ AppendRetry \/ Save
           \/ Tombstone \/ DeleteBlob \/ DeleteJob \/ MarkFailed \/ Abort \/ Cancel \/ Crash
  <2>1. Account'
      BY <1>4, CreateAccounts, AppendAccounts, AnnouncedAccounts, AwokenAccounts, StoreAccounts,
         FieldAccounts, ExtractAccounts, AttributeAccounts, GenerateAccounts, SaveAccounts,
         CleanupAccounts, FailAccounts, ClientAccounts
  <2>2. UNCHANGED reservations
      BY <1>4
      DEF Create, Append_, Announced, Awoken, Store, Ground, AppendField, AppendDecision,
          Extract, Attribute, Generate, AppendRetry, Save, Tombstone, DeleteBlob, DeleteJob,
          MarkFailed, Abort, Cancel, Crash, Call, Local, WriteRow, WriteFile, Untouched, ledger
  <2> QED
      BY <1>1, <2>1, <2>2, LeavesLedger DEF FullInv
<1>5. CASE Elsewhere \/ UNCHANGED vars
    BY <1>1, <1>5, ElsewhereAccounts DEF FullInv
<1> QED
    BY <1>2, <1>3, <1>4, <1>5 DEF Next, Progress

LEMMA AccountHolds == Spec => []FullInv
BY InitAccounts, NextAccounts, PTL DEF Spec

\* No request leaves unmarked, and none of a run of one attempt is ever given
\* back, whatever fails, wherever the process dies, and whenever the lease ends.
THEOREM ChargeTheorem == Spec => []CallsAreCharged
<1>1. FullInv => CallsAreCharged
    BY DEF FullInv, Account, CallsAreCharged, At, ChargeInv, Charged
<1> QED
    BY <1>1, AccountHolds, PTL

\* Less than the whole reservation is charged for one trusted response alone,
\* and no live run is completed unpaid.
THEOREM PaidTheorem == Spec => []PaidAsUsed
<1>1. FullInv => PaidAsUsed
    BY DEF FullInv, Account, PaidAsUsed, PaidInv, Cheaper, CountInv
<1> QED
    BY <1>1, AccountHolds, PTL

\* The row of a run says what its client was told; a run that no failing call
\* disturbed ends decided, and leaves no document where it was deleted.
THEOREM VerdictTheorem == Spec => []VerdictsAgree
<1>1. FullInv => VerdictsAgree
    BY DEF FullInv, Account, VerdictsAgree, VerdictInv
<1> QED
    BY <1>1, AccountHolds, PTL
=============================================================================
