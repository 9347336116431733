---------------------------- MODULE RunTablesProofs ----------------------------
(* The statements on the tables of a run implement the store of that run, and *)
(* each thing asked of it is done once, for any reviewers, actions and times. *)
EXTENDS RunReads, TLAPS

-----------------------------------------------------------------------------
(* Types                                                                    *)

Status == Stage \cup {"completed", "failed", "deleted", "expired"}
Step == Stage \cup {"failed", "action_staged", "removed"}
Snapshot == [steps : Nat, result : BOOLEAN, events : SUBSET Action]

\* A statement under way, by what it does.
StatementType ==
    {Idle}
    \cup [op : {"setStatus", "appendStep"}, arg : Stage, at : Nat, seen : Snapshot]
    \cup [op : {"saveResults"}, arg : {"blocked", "proposed"}, at : Nat, seen : Snapshot]
    \cup [op : {"markFailed"}, arg : {"failed"}, at : Nat, seen : Snapshot]
    \cup [op : {"tombstone"}, arg : {"deleted", "expired"}, at : Nat, seen : Snapshot]
    \cup [op : {"createEvent"}, arg : Action, at : Nat, seen : Snapshot]
    \cup [op : {"stageAction"}, arg : {"stage"}, at : Nat, seen : Snapshot]

Shape ==
    /\ now \in Nat
    /\ done \in Nat
    /\ row \in [status : Status, deleted : BOOLEAN]
    /\ steps \in Seq(Step)
    /\ result \in {"none", "blocked", "proposed", "staged"}
    /\ events \subseteq Action
    /\ statement \in [Caller -> StatementType]
    /\ DOMAIN answer = Caller

\* What is not deleted has a status of its own, and only the purge removes a run
\* as expired, once it is.
RowInv ==
    /\ row.deleted = FALSE => row.status \notin {"deleted", "expired"}
    /\ \A c \in Caller : statement[c].op = "tombstone" =>
           \/ statement[c].arg = "deleted" /\ c # "purge"
           \/ statement[c].arg = "expired" /\ c = "purge" /\ now >= Expiry

TypeInv == Shape /\ RowInv

\* At first the run is being validated and nobody asks anything of it.
LEMMA InitTypes == Init => TypeInv
<1> SUFFICES ASSUME Init PROVE TypeInv
    OBVIOUS
<1>1. row \in [status : Status, deleted : BOOLEAN]
    BY DEF Init, Status
<1>2. statement \in [Caller -> StatementType]
    BY DEF Init, StatementType
<1>3. Shape
    BY <1>1, <1>2 DEF Init, Shape
<1>4. RowInv
    BY TablesAssumption DEF Init, RowInv, Idle
<1> QED
    BY <1>3, <1>4 DEF TypeInv

\* The snapshot a statement takes.
LEMMA StartTypes ==
    ASSUME TypeInv, NEW c \in Caller, NEW op, NEW arg, NEW t \in Nat, Start(c, op, arg, t),
           Statement(op, arg, t) \in StatementType,
           op = "tombstone" => \/ arg = "deleted" /\ c # "purge"
                               \/ arg = "expired" /\ c = "purge" /\ now >= Expiry
    PROVE  TypeInv'
<1>1. statement' \in [Caller -> StatementType]
    BY DEF Start, TypeInv, Shape
<1>2. Shape'
    BY <1>1 DEF Start, TypeInv, Shape, tables
<1>3. RowInv'
  <2>1. row' = row /\ now' = now
      BY DEF Start, tables
  <2>2. \A d \in Caller : statement'[d] = IF d = c THEN Statement(op, arg, t) ELSE statement[d]
      BY DEF Start, TypeInv, Shape
  <2>3. Statement(op, arg, t).op = op /\ Statement(op, arg, t).arg = arg
      BY DEF Statement
  <2> QED
      BY <2>1, <2>2, <2>3 DEF TypeInv, RowInv
<1> QED
    BY <1>2, <1>3 DEF TypeInv

LEMMA SnapshotType ==
    ASSUME TypeInv, NEW t \in Nat, NEW op, NEW arg
    PROVE  Statement(op, arg, t) \in [op : {op}, arg : {arg}, at : Nat, seen : Snapshot]
BY DEF TypeInv, Shape, Statement, Snapshot

\* The steps of the trace that a deletion removed are removed.
LEMMA Removed ==
    ASSUME NEW seq \in Seq(Step), NEW n \in Nat
    PROVE  /\ [i \in DOMAIN seq |-> IF i <= n THEN "removed" ELSE seq[i]] \in Seq(Step)
           /\ DOMAIN [i \in DOMAIN seq |-> IF i <= n THEN "removed" ELSE seq[i]] = DOMAIN seq
<1> DEFINE kept == [i \in DOMAIN seq |-> IF i <= n THEN "removed" ELSE seq[i]]
<1>1. DOMAIN seq = 1..Len(seq) /\ Len(seq) \in Nat
    OBVIOUS
<1>2. \A i \in 1..Len(seq) : seq[i] \in Step
    OBVIOUS
<1>3. "removed" \in Step
    BY DEF Step
<1>4. kept \in [1..Len(seq) -> Step]
    BY <1>1, <1>2, <1>3
<1> QED
    BY <1>1, <1>4

\* A statement that ends leaves the tables well-typed if what it writes is.
Tables ==
    /\ row \in [status : Status, deleted : BOOLEAN]
    /\ row.deleted = FALSE => row.status \notin {"deleted", "expired"}
    /\ steps \in Seq(Step)
    /\ result \in {"none", "blocked", "proposed", "staged"}
    /\ events \subseteq Action

LEMMA EndTypes ==
    ASSUME TypeInv, NEW c \in Caller, NEW op, NEW told, Ends(c, op, told), Tables', done' \in Nat
    PROVE  TypeInv'
<1>1. /\ statement' \in [Caller -> StatementType]
      /\ \A d \in Caller : statement'[d] = IF d = c THEN Idle ELSE statement[d]
    BY DEF Ends, TypeInv, Shape, StatementType
<1>2. now' = now /\ DOMAIN answer' = Caller
    BY DEF Ends, TypeInv, Shape
<1>3. Shape'
    BY <1>1, <1>2 DEF TypeInv, Shape, Tables
<1>4. RowInv'
    BY <1>1, <1>2 DEF TypeInv, RowInv, Tables, Idle
<1> QED
    BY <1>3, <1>4 DEF TypeInv

\* What the statements under way were asked for.
LEMMA Args ==
    ASSUME TypeInv, NEW c \in Caller
    PROVE  /\ statement[c].op \in {"setStatus", "appendStep"} => Arg(c) \in Stage
           /\ statement[c].op = "saveResults" => Arg(c) \in {"blocked", "proposed"}
           /\ statement[c].op = "createEvent" => Arg(c) \in Action
           /\ statement[c].op = "tombstone" => Arg(c) \in {"deleted", "expired"}
           /\ statement[c].op # "idle" => Seen(c) \in Snapshot /\ statement[c].at \in Nat
BY DEF TypeInv, Shape, StatementType, Arg, Seen, Idle

LEMMA StatementsKeepTypes ==
    ASSUME TypeInv, SetStatus \/ AppendStep \/ SaveResults \/ MarkFailed
    PROVE  TypeInv'
<1> DEFINE x == "executor"
<1>1. x \in Caller
    BY DEF Caller
<1>2. Tables /\ done \in Nat
    BY DEF TypeInv, Shape, RowInv, Tables
<1>3. done + 1 \in Nat /\ Told \in Nat
    BY <1>2, TablesAssumption DEF Told, Saved
<1>4. CASE SetStatus
  <2>1. Arg(x) \in Stage
      BY <1>1, <1>4, Args DEF SetStatus, Ends
  <2>2. row' = row \/ row' = [row EXCEPT !.status = Arg(x)]
      BY <1>4 DEF SetStatus
  <2>3. /\ row' \in [status : Status, deleted : BOOLEAN]
        /\ row'.deleted = FALSE => row'.status \notin {"deleted", "expired"}
      BY <1>2, <2>1, <2>2, TablesAssumption DEF Tables, Status
  <2>4. Tables' /\ done' \in Nat
      BY <1>2, <1>3, <1>4, <2>3 DEF Tables, SetStatus
  <2> QED
      BY <1>1, <1>4, <2>4, EndTypes DEF SetStatus
<1>5. CASE AppendStep
  <2>1. Arg(x) \in Step
      BY <1>1, <1>5, Args DEF AppendStep, Ends, Step
  <2>2. steps' \in Seq(Step)
      BY <1>2, <1>5, <2>1 DEF AppendStep, Tables
  <2>3. Tables' /\ done' \in Nat
      BY <1>2, <1>3, <1>5, <2>2 DEF Tables, AppendStep
  <2> QED
      BY <1>1, <1>5, <2>3, EndTypes DEF AppendStep
<1>6. CASE SaveResults
  <2>1. Arg(x) \in {"blocked", "proposed"}
      BY <1>1, <1>6, Args DEF SaveResults, Ends
  <2>2. row' = row \/ row' = [row EXCEPT !.status = "completed"]
      BY <1>6 DEF SaveResults
  <2>3. /\ row' \in [status : Status, deleted : BOOLEAN]
        /\ row'.deleted = FALSE => row'.status \notin {"deleted", "expired"}
      BY <1>2, <2>2 DEF Tables, Status
  <2>4. Tables' /\ done' \in Nat
      BY <1>2, <1>3, <1>6, <2>1, <2>3 DEF Tables, SaveResults
  <2> QED
      BY <1>1, <1>6, <2>4, EndTypes DEF SaveResults
<1>7. CASE MarkFailed
  <2>1. row' = row \/ row' = [row EXCEPT !.status = "failed"]
      BY <1>7 DEF MarkFailed
  <2>2. /\ row' \in [status : Status, deleted : BOOLEAN]
        /\ row'.deleted = FALSE => row'.status \notin {"deleted", "expired"}
      BY <1>2, <2>1 DEF Tables, Status
  <2>3. steps' \in Seq(Step)
      BY <1>2, <1>7 DEF MarkFailed, Tables, Step
  <2>4. Tables' /\ done' \in Nat
      BY <1>2, <1>3, <1>7, <2>2, <2>3 DEF Tables, MarkFailed
  <2> QED
      BY <1>1, <1>7, <2>4, EndTypes DEF MarkFailed
<1> QED
    BY <1>4, <1>5, <1>6, <1>7

LEMMA ReviewsKeepTypes ==
    ASSUME TypeInv, NEW c \in Reviewer, CreateEvent(c) \/ StageAction(c)
    PROVE  TypeInv'
<1>1. c \in Caller
    BY DEF Caller
<1>2. Tables /\ done \in Nat
    BY DEF TypeInv, Shape, RowInv, Tables
<1>3. CASE CreateEvent(c)
  <2>1. Arg(c) \in Action
      BY <1>1, <1>3, Args DEF CreateEvent, Ends
  <2>2. events' \subseteq Action
      BY <1>2, <1>3, <2>1 DEF CreateEvent, Tables
  <2>3. Tables' /\ done' \in Nat
      BY <1>2, <1>3, <2>2 DEF Tables, CreateEvent
  <2> QED
      BY <1>1, <1>3, <2>3, EndTypes DEF CreateEvent
<1>4. CASE StageAction(c)
  <2>1. steps' \in Seq(Step)
      BY <1>2, <1>4 DEF StageAction, Tables, Step
  <2>2. Tables' /\ done' \in Nat
      BY <1>2, <1>4, <2>1 DEF Tables, StageAction
  <2> QED
      BY <1>1, <1>4, <2>2, EndTypes DEF StageAction
<1> QED
    BY <1>3, <1>4

LEMMA TombstoneKeepsTypes ==
    ASSUME TypeInv, NEW c \in {"executor", "uploader", "purge"}, Tombstone(c)
    PROVE  TypeInv'
<1>1. c \in Caller
    BY DEF Caller
<1>2. Tables /\ done \in Nat
    BY DEF TypeInv, Shape, RowInv, Tables
<1>3. Seen(c) \in Snapshot /\ Arg(c) \in {"deleted", "expired"}
    BY <1>1, Args DEF Tombstone, Ends
<1>4. /\ row' \in [status : Status, deleted : BOOLEAN]
      /\ row'.deleted = FALSE => row'.status \notin {"deleted", "expired"}
    BY <1>2, <1>3 DEF Tombstone, Tables, Status
<1>5. steps' \in Seq(Step)
    BY <1>2, <1>3, Removed DEF Tombstone, Tables, Snapshot
<1>6. Tables' /\ done' \in Nat
    BY <1>2, <1>4, <1>5, TablesAssumption DEF Tables, Tombstone, Aborted, Saved
<1> QED
    BY <1>1, <1>6, EndTypes DEF Tombstone

LEMMA StartsKeepTypes ==
    ASSUME TypeInv, Executor \/ Reviews \/ Uploader \/ Purge
    PROVE  TypeInv'
<1>1. now \in Nat /\ \A t \in 0..now : t \in Nat
    BY DEF TypeInv, Shape
<1>2. {"executor", "uploader", "purge"} \subseteq Caller /\ Reviewer \subseteq Caller
    BY DEF Caller
<1>3. \A op, arg : \A t \in Nat :
          Statement(op, arg, t) \in [op : {op}, arg : {arg}, at : Nat, seen : Snapshot]
    BY SnapshotType
<1>4. CASE Executor
  <2>1. CASE \E op \in {"setStatus", "appendStep"}, stage \in Stage : Start("executor", op, stage, now)
    <3>1. PICK op \in {"setStatus", "appendStep"}, stage \in Stage : Start("executor", op, stage, now)
        BY <2>1
    <3>2. Statement(op, stage, now) \in StatementType
        BY <1>1, <1>3 DEF StatementType
    <3> QED
        BY <1>1, <1>2, <3>1, <3>2, StartTypes
  <2>2. CASE \E action \in {"blocked", "proposed"} : Start("executor", "saveResults", action, now)
    <3>1. PICK action \in {"blocked", "proposed"} : Start("executor", "saveResults", action, now)
        BY <2>2
    <3>2. Statement("saveResults", action, now) \in StatementType
        BY <1>1, <1>3 DEF StatementType
    <3> QED
        BY <1>1, <1>2, <3>1, <3>2, StartTypes
  <2>3. CASE Start("executor", "markFailed", "failed", now)
    <3>1. Statement("markFailed", "failed", now) \in StatementType
        BY <1>1, <1>3 DEF StatementType
    <3> QED
        BY <1>1, <1>2, <2>3, <3>1, StartTypes
  <2>4. CASE Start("executor", "tombstone", "deleted", now)
    <3>1. Statement("tombstone", "deleted", now) \in StatementType
        BY <1>1, <1>3 DEF StatementType
    <3> QED
        BY <1>1, <1>2, <2>4, <3>1, StartTypes
  <2> QED
      BY <1>4, <2>1, <2>2, <2>3, <2>4 DEF Executor
<1>5. CASE Reviews
  <2>1. PICK c \in Reviewer, t \in 0..now :
            \/ \E a \in Action : Start(c, "createEvent", a, t)
            \/ Start(c, "stageAction", "stage", t)
      BY <1>5 DEF Reviews
  <2>2. \A a \in Action : Statement("createEvent", a, t) \in StatementType
      BY <1>1, <1>3 DEF StatementType
  <2>3. Statement("stageAction", "stage", t) \in StatementType
      BY <1>1, <1>3 DEF StatementType
  <2> QED
      BY <1>1, <1>2, <2>1, <2>2, <2>3, StartTypes
<1>6. CASE Uploader
  <2>1. Statement("tombstone", "deleted", now) \in StatementType
      BY <1>1, <1>3 DEF StatementType
  <2> QED
      BY <1>1, <1>2, <1>6, <2>1, StartTypes DEF Uploader
<1>7. CASE Purge
  <2>1. Statement("tombstone", "expired", now) \in StatementType
      BY <1>1, <1>3 DEF StatementType
  <2> QED
      BY <1>1, <1>2, <1>7, <2>1, StartTypes DEF Purge
<1> QED
    BY <1>4, <1>5, <1>6, <1>7

LEMMA NextKeepsTypes == TypeInv /\ [Next]_vars => TypeInv'
<1> SUFFICES ASSUME TypeInv, [Next]_vars PROVE TypeInv'
    OBVIOUS
<1>1. CASE Tell
  <2>1. done' \in Nat
      BY <1>1, TablesAssumption DEF Tell, Told, Saved
  <2> QED
      BY <1>1, <2>1 DEF Tell, TypeInv, Shape, RowInv, tables
<1>2. CASE Tick
  <2>1. now' \in Nat /\ now' >= now
      BY <1>2 DEF Tick, TypeInv, Shape
  <2>2. Shape'
      BY <1>2, <2>1 DEF Tick, TypeInv, Shape, tables
  <2>3. RowInv'
      BY <1>2, <2>1, TablesAssumption DEF Tick, TypeInv, Shape, RowInv, tables
  <2> QED
      BY <2>2, <2>3 DEF TypeInv
<1>3. CASE UNCHANGED vars
    BY <1>3 DEF vars, tables, TypeInv, Shape, RowInv
<1> QED
    BY <1>1, <1>2, <1>3, StatementsKeepTypes, ReviewsKeepTypes, TombstoneKeepsTypes,
       StartsKeepTypes DEF Next

-----------------------------------------------------------------------------
(* The refinement                                                           *)

\* What the public may read of a run, and of one that it may not.
LEMMA WhatIsReadable ==
    ASSUME TypeInv
    PROVE  /\ Readable => PublicStatus = row.status /\ row.deleted = FALSE
           /\ Readable => PublicStatus \notin {"deleted", "expired"}
           /\ ~ Readable /\ row.deleted = FALSE => PublicStatus = "expired"
BY TablesAssumption DEF TypeInv, Shape, RowInv, Readable, PublicStatus

\* Whatever is written of a run that is not shown stays unseen, but for its
\* deletion.
LEMMA Unseen ==
    ASSUME ~ Readable, TypeInv, now' = now, row'.deleted = row.deleted,
           row.deleted = TRUE => row' = row
    PROVE  UNCHANGED Store!vars
<1>1. ~ Readable' /\ PublicStatus' = PublicStatus
  <2>1. row.deleted \in BOOLEAN
      BY DEF TypeInv, Shape
  <2>2. CASE row.deleted = TRUE
      BY <2>2 DEF Readable, PublicStatus
  <2>3. CASE row.deleted = FALSE
      BY <2>3, TablesAssumption DEF TypeInv, Shape, Readable, PublicStatus
  <2> QED
      BY <2>1, <2>2, <2>3
<1> QED
    BY <1>1 DEF Store!vars

\* A shown run whose row stays in place is shown with the new status.
LEMMA StillReadable ==
    ASSUME Readable, TypeInv, now' = now, row'.deleted = row.deleted
    PROVE  Readable' /\ PublicStatus' = row'.status
BY WhatIsReadable DEF Readable, PublicStatus

LEMMA SetStatusMaps == TypeInv /\ SetStatus => [Store!Next]_Store!vars
<1> SUFFICES ASSUME TypeInv, SetStatus PROVE [Store!Next]_Store!vars
    OBVIOUS
<1>1. Arg("executor") \in Stage
    BY Args DEF SetStatus, Ends, Caller
<1>2. now' = now /\ UNCHANGED <<steps, result, events>>
    BY DEF SetStatus, Ends
<1>3. /\ row'.deleted = row.deleted /\ (row.deleted = TRUE => row' = row)
      /\ row.deleted = FALSE => row'.status = Arg("executor")
    BY DEF SetStatus, TypeInv, Shape
<1>4. CASE Readable
  <2>1. Readable' /\ PublicStatus' = Arg("executor") /\ PublicStatus \notin {"deleted", "expired"}
      BY <1>2, <1>3, <1>4, WhatIsReadable, StillReadable
  <2>2. Store!SetStatus(Arg("executor"))
      BY <1>2, <1>4, <2>1 DEF Store!SetStatus, Store!Active, Store!Gone
  <2> QED
      BY <1>1, <2>2 DEF Store!Next
<1>5. CASE ~ Readable
    BY <1>2, <1>3, <1>5, Unseen
<1> QED
    BY <1>4, <1>5

LEMMA AppendStepMaps == TypeInv /\ AppendStep => [Store!Next]_Store!vars
<1> SUFFICES ASSUME TypeInv, AppendStep PROVE [Store!Next]_Store!vars
    OBVIOUS
<1>1. Arg("executor") \in Stage
    BY Args DEF AppendStep, Ends, Caller
<1>2. now' = now /\ UNCHANGED <<row, result, events>>
    BY DEF AppendStep, Ends
<1>3. CASE Readable
  <2>1. row.deleted = FALSE /\ PublicStatus = row.status /\ PublicStatus \notin {"deleted", "expired"}
      BY <1>3, WhatIsReadable
  <2>2. Readable' /\ PublicStatus' = PublicStatus
      BY <1>2, <1>3, <2>1, StillReadable
  <2>3. steps' = Append(steps, Arg("executor"))
      BY <2>1 DEF AppendStep
  <2>4. Store!AppendStep(Arg("executor"))
      BY <1>2, <1>3, <2>1, <2>2, <2>3 DEF Store!AppendStep, Store!Active, Store!Gone
  <2> QED
      BY <1>1, <2>4 DEF Store!Next
<1>4. CASE ~ Readable
    BY <1>2, <1>4, Unseen
<1> QED
    BY <1>3, <1>4

LEMMA SaveResultsMaps == TypeInv /\ SaveResults => [Store!Next]_Store!vars
<1> SUFFICES ASSUME TypeInv, SaveResults PROVE [Store!Next]_Store!vars
    OBVIOUS
<1>1. Arg("executor") \in {"blocked", "proposed"}
    BY Args DEF SaveResults, Ends, Caller
<1>2. now' = now /\ UNCHANGED <<steps, events>>
    BY DEF SaveResults, Ends
<1>3. /\ row'.deleted = row.deleted /\ (row.deleted = TRUE => row' = row)
      /\ row.deleted = FALSE => row'.status = "completed" /\ result' = Arg("executor")
    BY DEF SaveResults, TypeInv, Shape
<1>4. CASE Readable
  <2>1. /\ Readable' /\ PublicStatus' = "completed" /\ result' = Arg("executor")
        /\ PublicStatus \notin {"deleted", "expired"}
      BY <1>2, <1>3, <1>4, WhatIsReadable, StillReadable
  <2>2. Store!SaveResults(Arg("executor"))
      BY <1>2, <1>4, <2>1 DEF Store!SaveResults, Store!Active, Store!Gone
  <2> QED
      BY <1>1, <2>2 DEF Store!Next
<1>5. CASE ~ Readable
    BY <1>2, <1>3, <1>5, Unseen
<1> QED
    BY <1>4, <1>5

LEMMA MarkFailedMaps == TypeInv /\ MarkFailed => [Store!Next]_Store!vars
<1> SUFFICES ASSUME TypeInv, MarkFailed PROVE [Store!Next]_Store!vars
    OBVIOUS
<1>1. now' = now /\ UNCHANGED <<result, events>>
    BY DEF MarkFailed, Ends
<1>2. /\ row'.deleted = row.deleted /\ (row.deleted = TRUE => row' = row)
      /\ row.deleted = FALSE => row'.status = "failed" /\ steps' = Append(steps, "failed")
    BY DEF MarkFailed, TypeInv, Shape
<1>3. CASE Readable
  <2>1. /\ Readable' /\ PublicStatus' = "failed" /\ steps' = Append(steps, "failed")
        /\ PublicStatus \notin {"deleted", "expired"}
      BY <1>1, <1>2, <1>3, WhatIsReadable, StillReadable
  <2>2. Store!MarkFailed
      BY <1>1, <1>3, <2>1 DEF Store!MarkFailed, Store!Active, Store!Gone
  <2> QED
      BY <2>2 DEF Store!Next
<1>4. CASE ~ Readable
    BY <1>1, <1>2, <1>4, Unseen
<1> QED
    BY <1>3, <1>4

\* A reviewer's clock may be late, but what the public does not see any more no
\* request changes in its sight.
LEMMA CreateEventMaps ==
    ASSUME TypeInv, NEW c \in Reviewer, CreateEvent(c)
    PROVE  [Store!Next]_Store!vars
<1>1. Arg(c) \in Action
    BY Args DEF CreateEvent, Ends, Caller
<1>2. now' = now /\ UNCHANGED <<row, steps, result>>
    BY DEF CreateEvent, Ends
<1>3. CASE Readable
  <2>1. Readable' /\ PublicStatus' = PublicStatus /\ PublicStatus = row.status
      BY <1>2, <1>3, WhatIsReadable, StillReadable
  <2>2. CASE Inserts(c)
    <3>1. \/ row.status = "completed"
          \/ row.status = "failed" /\ Arg(c) \in FailedAction
        BY <2>2 DEF Inserts, Allows, Lifecycle
    <3>2. Arg(c) \notin events /\ events' = events \cup {Arg(c)}
        BY <2>2 DEF CreateEvent, Inserts
    <3>3. Store!CreateEvent(Arg(c))
        BY <1>2, <1>3, <2>1, <3>1, <3>2 DEF Store!CreateEvent
    <3> QED
        BY <1>1, <3>3 DEF Store!Next
  <2>3. CASE ~ Inserts(c)
    <3>1. events' = events
        BY <2>3 DEF CreateEvent
    <3> QED
        BY <1>2, <1>3, <2>1, <3>1 DEF Store!vars
  <2> QED
      BY <2>2, <2>3
<1>4. CASE ~ Readable
    BY <1>2, <1>4, Unseen
<1> QED
    BY <1>3, <1>4

LEMMA StageActionMaps ==
    ASSUME TypeInv, NEW c \in Reviewer, StageAction(c)
    PROVE  [Store!Next]_Store!vars
<1>1. now' = now /\ UNCHANGED <<row, events>>
    BY DEF StageAction, Ends
<1>2. CASE Readable
  <2>1. Readable' /\ PublicStatus' = PublicStatus /\ PublicStatus = row.status
      BY <1>1, <1>2, WhatIsReadable, StillReadable
  <2>2. CASE Stages(c)
    <3>1. row.status = "completed" /\ result = "proposed"
        BY <2>2 DEF Stages, Lifecycle
    <3>2. result' = "staged" /\ steps' = Append(steps, "action_staged")
        BY <2>2 DEF StageAction
    <3>3. Store!StageAction
        BY <1>1, <1>2, <2>1, <3>1, <3>2 DEF Store!StageAction
    <3> QED
        BY <3>3 DEF Store!Next
  <2>3. CASE ~ Stages(c)
    <3>1. UNCHANGED <<steps, result>>
        BY <2>3 DEF StageAction
    <3> QED
        BY <1>1, <1>2, <2>1, <3>1 DEF Store!vars
  <2> QED
      BY <2>2, <2>3
<1>3. CASE ~ Readable
    BY <1>1, <1>3, Unseen
<1> QED
    BY <1>2, <1>3

\* A deletion, by whomever, is the store's; a purge finds the run expired, as the
\* public has seen it since.
LEMMA TombstoneMaps ==
    ASSUME TypeInv, NEW c \in {"executor", "uploader", "purge"}, Tombstone(c)
    PROVE  [Store!Next]_Store!vars
<1>1. c \in Caller /\ statement[c].op = "tombstone" /\ now' = now
    BY DEF Tombstone, Ends, Caller
<1>2. CASE row.deleted = TRUE
  <2>1. row' = row
      BY <1>2 DEF Tombstone, NotYetGone
  <2>2. ~ Readable
      BY <1>2 DEF Readable
  <2> QED
      BY <1>1, <2>1, <2>2, Unseen
<1>3. CASE row.deleted = FALSE
  <2>1. row' = [status |-> Arg(c), deleted |-> TRUE]
      BY <1>3 DEF Tombstone, NotYetGone
  <2>2. ~ Readable' /\ PublicStatus' = Arg(c)
      BY <2>1 DEF Readable, PublicStatus
  <2>3. \/ Arg(c) = "deleted"
        \/ Arg(c) = "expired" /\ now >= Expiry
      BY <1>1 DEF TypeInv, RowInv, Arg
  <2>4. CASE Arg(c) = "deleted"
    <3>1. PublicStatus \notin {"deleted", "expired"} \/ PublicStatus = "expired"
        BY <1>3, WhatIsReadable
    <3>2. Store!RemoveDetails("deleted")
        BY <2>2, <2>4, <3>1 DEF Store!RemoveDetails, Store!Active, Store!Gone
    <3> QED
        BY <3>2 DEF Store!Next, Store!Gone
  <2>5. CASE Arg(c) = "expired" /\ now >= Expiry
    <3>1. PublicStatus = "expired" /\ ~ Readable
        BY <1>3, <2>5, TablesAssumption DEF PublicStatus, Readable, TypeInv, Shape
    <3> QED
        BY <2>2, <2>5, <3>1 DEF Store!vars
  <2> QED
      BY <2>3, <2>4, <2>5
<1> QED
    BY <1>2, <1>3 DEF TypeInv, Shape

\* The clock takes the run from the public's sight at once.
LEMMA TickMaps == TypeInv /\ Tick => [Store!Next]_Store!vars
<1> SUFFICES ASSUME TypeInv, Tick PROVE [Store!Next]_Store!vars
    OBVIOUS
<1>1. now \in Nat /\ now' = now + 1 /\ UNCHANGED <<row, steps, result, events>> /\ Expiry \in Nat
    BY TablesAssumption DEF Tick, tables, TypeInv, Shape
<1>2. CASE Readable /\ now' < Expiry
  <2>1. Readable' /\ PublicStatus' = PublicStatus
      BY <1>1, <1>2 DEF Readable, PublicStatus
  <2> QED
      BY <1>1, <1>2, <2>1 DEF Store!vars
<1>3. CASE Readable /\ ~ now' < Expiry
  <2>1. PublicStatus \notin {"deleted", "expired"} /\ row.deleted = FALSE
      BY <1>3, WhatIsReadable
  <2>2. ~ Readable' /\ PublicStatus' = "expired"
      BY <1>1, <1>3, <2>1 DEF Readable, PublicStatus
  <2>3. Store!RemoveDetails("expired")
      BY <2>1, <2>2 DEF Store!RemoveDetails, Store!Active, Store!Gone
  <2> QED
      BY <2>3 DEF Store!Next, Store!Gone
<1>4. CASE ~ Readable
  <2>1. ~ Readable' /\ PublicStatus' = PublicStatus
      BY <1>1, <1>4 DEF Readable, PublicStatus
  <2> QED
      BY <1>4, <2>1 DEF Store!vars
<1> QED
    BY <1>2, <1>3, <1>4

\* Statements that start, and the word to the client, touch no table.
LEMMA StartsMap ==
    ASSUME Executor \/ Tell \/ Reviews \/ Uploader \/ Purge \/ UNCHANGED vars
    PROVE  UNCHANGED Store!vars
<1>1. UNCHANGED <<now, row, steps, result, events>>
    BY DEF Executor, Tell, Reviews, Uploader, Purge, Start, vars, tables
<1>2. PublicStatus' = PublicStatus /\ Readable' = Readable
    BY <1>1 DEF PublicStatus, Readable
<1> QED
    BY <1>1, <1>2 DEF Store!vars

LEMMA NextMaps == TypeInv /\ [Next]_vars => [Store!Next]_Store!vars
BY SetStatusMaps, AppendStepMaps, SaveResultsMaps, MarkFailedMaps, CreateEventMaps,
   StageActionMaps, TombstoneMaps, TickMaps, StartsMap DEF Next

LEMMA InitMaps == Init => Store!Init
<1> SUFFICES ASSUME Init PROVE Store!Init
    OBVIOUS
<1>1. now = 0 /\ 0 < Expiry /\ ~ (0 >= Expiry)
    BY TablesAssumption DEF Init
<1>2. row.status \in Stage /\ row.deleted = FALSE
    BY DEF Init
<1>3. Readable /\ PublicStatus = row.status
    BY <1>1, <1>2 DEF Readable, PublicStatus
<1> QED
    BY <1>2, <1>3 DEF Init, Store!Init

\* For any stages, actions, reviewers, clocks and overlap of statements, what the
\* tables hold for the public is a run of the store, each operation one step.
THEOREM StoreTheorem == Spec => ImplementsStore
<1> QED
    BY InitTypes, NextKeepsTypes, InitMaps, NextMaps, PTL DEF Spec, ImplementsStore, Store!Spec

-----------------------------------------------------------------------------
(* Handled once                                                             *)

\* The executor is done before anybody else can ask anything, so that reviewers
\* meet no result that is stored while they wait.
ProtocolInv ==
    /\ statement["executor"].op # "idle" => done <= Saved
    /\ statement["executor"].op \in {"setStatus", "appendStep"} => done < 2 * MaxSteps
    /\ \A c \in Reviewer :
           /\ statement[c].op # "idle" \/ answer[c] # Untold => done = Told
           /\ statement[c].op # "idle" => answer[c] = Untold

Creator(a) == \E d \in Reviewer : answer[d] = [told |-> "created", of |-> a]

\* What has been staged is not proposed any more; who was told that an event was
\* created finds it there until the run is deleted; and every event, and every
\* event that a snapshot shows, has somebody who was told so.
OnceInv ==
    /\ \A c \in Reviewer : answer[c].told = "staged" =>
           result \in {"staged", "none"} /\ done = Told
    /\ \A i \in DOMAIN steps : steps[i] = "action_staged" =>
           result \in {"staged", "none"} /\ done = Told
    /\ \A c \in Reviewer : answer[c].told = "created" =>
           answer[c].of \in events \/ row.deleted = TRUE
    /\ \A a \in events : Creator(a)
    /\ \A c \in Reviewer : statement[c].op = "createEvent" =>
           \A a \in Seen(c).events : Creator(a)

IInv == TypeInv /\ ProtocolInv /\ OnceInv /\ HandledOnce

LEMMA InitHolds == Init => IInv
<1> SUFFICES ASSUME Init PROVE IInv
    OBVIOUS
<1>1. /\ \A c \in Caller : statement[c].op = "idle" /\ answer[c] = Untold
      /\ "executor" \in Caller /\ Reviewer \subseteq Caller
    BY DEF Init, Idle, Caller
<1>2. Untold.told = "nothing"
    BY DEF Untold
<1>3. steps = <<>> /\ DOMAIN steps = {} /\ events = {}
    BY DEF Init
<1>4. ProtocolInv
    BY <1>1 DEF ProtocolInv
<1>5. OnceInv /\ HandledOnce
    BY <1>1, <1>2, <1>3 DEF OnceInv, HandledOnce
<1> QED
    BY <1>4, <1>5, InitTypes DEF IInv

\* Statements of those who do not review.
LEMMA StartsKeep ==
    ASSUME IInv, NEW c \in Caller, NEW op, NEW arg, NEW t, Start(c, op, arg, t),
           c \in Reviewer => done = Told /\ answer[c] = Untold,
           c = "executor" => /\ done <= Saved
                             /\ op \in {"setStatus", "appendStep"} => done < 2 * MaxSteps
    PROVE  ProtocolInv' /\ OnceInv' /\ HandledOnce'
<1>1. UNCHANGED <<row, steps, result, events, answer, done>>
    BY DEF Start, tables
<1>2. \A d \in Caller : statement'[d] = IF d = c THEN Statement(op, arg, t) ELSE statement[d]
    BY DEF Start, IInv, TypeInv, Shape
<1>3. /\ Statement(op, arg, t).op = op
      /\ Statement(op, arg, t).seen.events = events
    BY DEF Statement
<1>4. "executor" \in Caller /\ Reviewer \subseteq Caller
    BY DEF Caller
<1>5. ProtocolInv'
    BY <1>1, <1>2, <1>3, <1>4 DEF IInv, ProtocolInv
<1>6. \A a : Creator(a)' = Creator(a)
    BY <1>1 DEF Creator
<1>7. OnceInv'
    BY <1>1, <1>2, <1>3, <1>4, <1>6 DEF IInv, OnceInv, Seen
<1>8. HandledOnce'
    BY <1>1 DEF IInv, HandledOnce
<1> QED
    BY <1>5, <1>7, <1>8

\* A statement that ends for c, in general.
LEMMA Ended ==
    ASSUME IInv, NEW c \in Caller, NEW op, NEW told, Ends(c, op, told)
    PROVE  /\ \A d \in Caller : statement'[d] = IF d = c THEN Idle ELSE statement[d]
           /\ \A d \in Caller : answer'[d] = IF d = c THEN [told |-> told, of |-> Arg(c)]
                                             ELSE answer[d]
           /\ statement[c].op = op
BY DEF Ends, IInv, TypeInv, Shape, Arg

\* A statement of somebody who does not review adds no event, stages nothing and
\* answers no reviewer.
LEMMA OthersEnd ==
    ASSUME IInv, NEW c \in Caller, c \notin Reviewer, NEW op, NEW told, Ends(c, op, told),
           done = Told => done' = Told,
           \A a \in events : a \in events' \/ row'.deleted = TRUE,
           events' \subseteq events, row.deleted = TRUE => row'.deleted = TRUE,
           done = Told => result' \in {result, "none"},
           \A i \in DOMAIN steps' : steps'[i] = "action_staged" =>
               i \in DOMAIN steps /\ steps[i] = "action_staged"
    PROVE  OnceInv' /\ HandledOnce'
<1>1. Reviewer \subseteq Caller
    BY DEF Caller
<1>2. \A d \in Reviewer : statement'[d] = statement[d] /\ answer'[d] = answer[d]
    BY <1>1, Ended
<1>3. \A a : Creator(a)' = Creator(a)
    BY <1>2 DEF Creator
<1>5. OnceInv'
  <2>1. \A d \in Reviewer : answer'[d].told = "staged" => result' \in {"staged", "none"} /\ done' = Told
      BY <1>2 DEF IInv, OnceInv
  <2>2. \A i \in DOMAIN steps' : steps'[i] = "action_staged" =>
            result' \in {"staged", "none"} /\ done' = Told
      BY DEF IInv, OnceInv
  <2>3. \A d \in Reviewer : answer'[d].told = "created" =>
            answer'[d].of \in events' \/ row'.deleted = TRUE
      BY <1>2 DEF IInv, OnceInv
  <2>4. \A a \in events' : Creator(a)'
      BY <1>3 DEF IInv, OnceInv
  <2>5. \A d \in Reviewer : statement'[d].op = "createEvent" =>
            \A a \in statement'[d].seen.events : Creator(a)'
      BY <1>2, <1>3 DEF IInv, OnceInv, Seen
  <2> QED
      BY <2>1, <2>2, <2>3, <2>4, <2>5 DEF OnceInv, Seen
<1>6. HandledOnce'
    BY <1>2 DEF IInv, HandledOnce
<1> QED
    BY <1>5, <1>6

LEMMA OthersEndProtocol ==
    ASSUME IInv, NEW c \in Caller, c \notin Reviewer, NEW op, NEW told, Ends(c, op, told),
           done = Told => done' = Told,
           c # "executor" => done' = done
    PROVE  ProtocolInv'
<1>1. Reviewer \subseteq Caller /\ "executor" \in Caller
    BY DEF Caller
<1>2. \A d \in Reviewer : statement'[d] = statement[d] /\ answer'[d] = answer[d]
    BY <1>1, Ended
<1>3. statement'["executor"] = IF c = "executor" THEN Idle ELSE statement["executor"]
    BY <1>1, Ended
<1>4. Idle.op = "idle"
    BY DEF Idle
<1> QED
    BY <1>2, <1>3, <1>4 DEF IInv, ProtocolInv

\* The executor's own statements end before the client is told.
LEMMA StatementsKeep ==
    ASSUME IInv, SetStatus \/ AppendStep \/ SaveResults \/ MarkFailed
    PROVE  ProtocolInv' /\ OnceInv' /\ HandledOnce'
<1> DEFINE x == "executor"
<1>1. x \in Caller /\ x \notin Reviewer
    BY TablesAssumption DEF Caller
<1>2. TypeInv /\ ProtocolInv /\ row.deleted \in BOOLEAN
    BY DEF IInv, TypeInv, Shape
<1>3. steps \in Seq(Step) /\ done \in Nat
    BY <1>2 DEF TypeInv, Shape
<1>4. \E op, told : Ends(x, op, told)
    BY DEF SetStatus, AppendStep, SaveResults, MarkFailed
<1>5. statement[x].op # "idle"
    BY DEF SetStatus, AppendStep, SaveResults, MarkFailed, Ends
<1>6. done # Told
    BY <1>2, <1>3, <1>5, TablesAssumption DEF ProtocolInv, Told, Saved
<1>7. row'.deleted = row.deleted /\ events' = events
    BY <1>2 DEF SetStatus, AppendStep, SaveResults, MarkFailed, TypeInv, Shape
<1>8. \A i \in DOMAIN steps' : steps'[i] = "action_staged" =>
          i \in DOMAIN steps /\ steps[i] = "action_staged"
  <2>1. CASE UNCHANGED steps
      BY <2>1
  <2>2. CASE \E step \in Stage \cup {"failed"} : steps' = Append(steps, step)
    <3>1. PICK step \in Stage \cup {"failed"} : steps' = Append(steps, step)
        BY <2>2
    <3>2. step # "action_staged" /\ step \in Step
        BY TablesAssumption DEF Step
    <3>3. /\ DOMAIN steps = 1..Len(steps) /\ Len(steps) \in Nat
          /\ DOMAIN steps' = 1..(Len(steps) + 1)
          /\ \A i \in 1..Len(steps) : steps'[i] = steps[i]
          /\ steps'[Len(steps) + 1] = step
        BY <1>3, <3>1, <3>2
    <3> QED
        BY <3>2, <3>3
  <2>3. statement[x].op = "appendStep" => Arg(x) \in Stage
      BY <1>1, <1>2, Args
  <2> QED
      BY <2>1, <2>2, <2>3 DEF SetStatus, AppendStep, SaveResults, MarkFailed, Ends
<1>9. ProtocolInv'
    BY <1>1, <1>4, <1>6, OthersEndProtocol
<1> QED
    BY <1>1, <1>4, <1>6, <1>7, <1>8, <1>9, OthersEnd

LEMMA TombstoneKeeps ==
    ASSUME IInv, NEW c \in {"executor", "uploader", "purge"}, Tombstone(c)
    PROVE  ProtocolInv' /\ OnceInv' /\ HandledOnce'
<1>1. c \in Caller /\ c \notin Reviewer /\ Ends(c, "tombstone", "ok")
    BY TablesAssumption DEF Caller, Tombstone
<1>2. TypeInv /\ ProtocolInv
    BY DEF IInv
<1>3. steps \in Seq(Step) /\ done \in Nat /\ row.deleted \in BOOLEAN
    BY <1>2 DEF TypeInv, Shape
<1>4. c = "executor" => done <= Saved
    BY <1>1, <1>2 DEF Ends, ProtocolInv
<1>5. done = Told => done' = Told
    BY <1>3, <1>4, TablesAssumption DEF Tombstone, Told, Saved
<1>6. row'.deleted = TRUE
    BY <1>3 DEF Tombstone, NotYetGone
<1>7. events' \subseteq events /\ result' \in {result, "none"}
    BY DEF Tombstone
<1>8. \A i \in DOMAIN steps' : steps'[i] = "action_staged" =>
          i \in DOMAIN steps /\ steps[i] = "action_staged"
    BY DEF Tombstone
<1>9. c # "executor" => done' = done
    BY DEF Tombstone
<1>10. ProtocolInv'
    BY <1>1, <1>5, <1>9, OthersEndProtocol
<1> QED
    BY <1>1, <1>5, <1>6, <1>7, <1>8, <1>10, OthersEnd

\* What a reviewer's statement leaves of the protocol.
LEMMA ReviewProtocol ==
    ASSUME IInv, NEW c \in Reviewer, NEW op, NEW told, Ends(c, op, told), op # "idle", done' = done
    PROVE  /\ ProtocolInv' /\ done = Told /\ answer[c] = Untold /\ c \in Caller
           /\ \A d \in Reviewer : statement'[d] = IF d = c THEN Idle ELSE statement[d]
           /\ \A d \in Reviewer : answer'[d] = IF d = c THEN [told |-> told, of |-> Arg(c)]
                                               ELSE answer[d]
<1>1. Reviewer \subseteq Caller /\ "executor" \in Caller /\ "executor" \notin Reviewer
    BY TablesAssumption DEF Caller
<1>2. /\ \A d \in Caller : statement'[d] = IF d = c THEN Idle ELSE statement[d]
      /\ \A d \in Caller : answer'[d] = IF d = c THEN [told |-> told, of |-> Arg(c)] ELSE answer[d]
      /\ statement[c].op = op
    BY <1>1, Ended
<1>3. done = Told /\ answer[c] = Untold
    BY <1>2 DEF IInv, ProtocolInv
<1>4. Idle.op = "idle" /\ statement'["executor"] = statement["executor"]
    BY <1>1, <1>2 DEF Idle
<1>5. ProtocolInv'
    BY <1>1, <1>2, <1>3, <1>4 DEF IInv, ProtocolInv
<1> QED
    BY <1>1, <1>2, <1>3, <1>5

\* An event is created for whoever is told so, and somebody was told so of every
\* event that is found.
LEMMA CreateEventKeeps ==
    ASSUME IInv, NEW c \in Reviewer, CreateEvent(c)
    PROVE  ProtocolInv' /\ OnceInv' /\ HandledOnce'
<1> DEFINE told == EventAnswer(c)
           a == Arg(c)
<1>1. Ends(c, "createEvent", told) /\ UNCHANGED <<done, row, steps, result>>
    BY DEF CreateEvent
<1>2. /\ ProtocolInv' /\ done = Told /\ answer[c] = Untold /\ c \in Caller
      /\ \A d \in Reviewer : statement'[d] = IF d = c THEN Idle ELSE statement[d]
      /\ \A d \in Reviewer : answer'[d] = IF d = c THEN [told |-> told, of |-> a] ELSE answer[d]
    BY <1>1, ReviewProtocol
<1>3. Untold.told = "nothing" /\ Idle.op = "idle"
    BY DEF Untold, Idle
<1>4. told # "staged"
    BY DEF EventAnswer
<1>5. \A e : Creator(e) => Creator(e)'
  <2> SUFFICES ASSUME NEW e, NEW d \in Reviewer, answer[d] = [told |-> "created", of |-> e]
               PROVE  answer'[d] = [told |-> "created", of |-> e]
      BY DEF Creator
  <2>1. d # c
      BY <1>2, <1>3
  <2> QED
      BY <1>2, <2>1
<1>6. Inserts(c) <=> told = "created"
    BY DEF EventAnswer, Inserts
<1>7. told = "created" => /\ \A e : e = a => Creator(e)'
                          /\ a \notin events /\ row.deleted # TRUE
  <2> SUFFICES ASSUME told = "created"
               PROVE  (\A e : e = a => Creator(e)') /\ a \notin events /\ row.deleted # TRUE
      OBVIOUS
  <2>1. answer'[c] = [told |-> "created", of |-> a]
      BY <1>2
  <2>2. Inserts(c)
      BY <1>6
  <2> QED
      BY <2>1, <2>2 DEF Creator, Inserts, Allows, Lifecycle
<1>8. events' = IF told = "created" THEN events \cup {a} ELSE events
    BY <1>6 DEF CreateEvent
<1>9. told = "already_created" => Creator(a)
  <2> SUFFICES ASSUME told = "already_created" PROVE Creator(a)
      OBVIOUS
  <2>1. a \in Seen(c).events
      BY DEF EventAnswer
  <2>2. statement[c].op = "createEvent"
      BY <1>1 DEF Ends
  <2> QED
      BY <2>1, <2>2 DEF IInv, OnceInv
<1>10. OnceInv'
  <2>1. \A d \in Reviewer : answer'[d].told = "staged" => result' \in {"staged", "none"} /\ done' = Told
      BY <1>1, <1>2, <1>4 DEF IInv, OnceInv
  <2>2. \A i \in DOMAIN steps' : steps'[i] = "action_staged" =>
            result' \in {"staged", "none"} /\ done' = Told
      BY <1>1 DEF IInv, OnceInv
  <2>3. \A d \in Reviewer : answer'[d].told = "created" =>
            answer'[d].of \in events' \/ row'.deleted = TRUE
      BY <1>1, <1>2, <1>8 DEF IInv, OnceInv
  <2>4. \A e \in events' : Creator(e)'
      BY <1>5, <1>7, <1>8 DEF IInv, OnceInv
  <2>5. \A d \in Reviewer : statement'[d].op = "createEvent" =>
            \A e \in statement'[d].seen.events : Creator(e)'
      BY <1>2, <1>3, <1>5 DEF IInv, OnceInv, Seen
  <2> QED
      BY <2>1, <2>2, <2>3, <2>4, <2>5 DEF OnceInv, Seen
<1>11. HandledOnce'
  <2>1. \A d, e \in Reviewer : answer'[d].told = "staged" /\ answer'[e].told = "staged" => d = e
      BY <1>2, <1>4 DEF IInv, HandledOnce
  <2>2. \A i, j \in DOMAIN steps' :
            steps'[i] = "action_staged" /\ steps'[j] = "action_staged" => i = j
      BY <1>1 DEF IInv, HandledOnce
  <2>3. \A d, e \in Reviewer : answer'[d].told = "created" /\ answer'[e] = answer'[d] => d = e
    <3> SUFFICES ASSUME NEW d \in Reviewer, NEW e \in Reviewer,
                        answer'[d].told = "created", answer'[e] = answer'[d], d # e
                 PROVE  FALSE
        OBVIOUS
    <3>1. CASE d # c /\ e # c
        BY <1>2, <3>1 DEF IInv, HandledOnce
    <3>2. ASSUME NEW f \in Reviewer, f # c, told = "created", answer[f] = [told |-> told, of |-> a]
          PROVE  FALSE
      <4>1. answer[f].told = "created" /\ answer[f].of = a
          BY <3>2
      <4> QED
          BY <1>7, <3>2, <4>1 DEF IInv, OnceInv
    <3>3. CASE d = c
      <4>1. told = "created" /\ answer[e] = [told |-> told, of |-> a] /\ e # c
          BY <1>2, <3>3
      <4> QED
          BY <3>2, <4>1
    <3>4. CASE e = c
      <4>1. answer[d] = [told |-> told, of |-> a] /\ d # c
          BY <1>2, <3>4
      <4>2. told = "created"
          BY <1>2, <4>1
      <4> QED
          BY <3>2, <4>1, <4>2
    <3> QED
        BY <3>1, <3>3, <3>4
  <2>4. \A d \in Reviewer : answer'[d].told = "already_created" => Creator(answer[d].of)'
    <3> SUFFICES ASSUME NEW d \in Reviewer, NEW e, answer'[d].told = "already_created",
                        e = answer'[d].of
                 PROVE  Creator(e)'
        OBVIOUS
    <3>1. CASE d = c
        BY <1>2, <1>5, <1>9, <3>1
    <3>2. CASE d # c
        BY <1>2, <1>5, <3>2 DEF IInv, HandledOnce, Creator
    <3> QED
        BY <3>1, <3>2
  <2> QED
      BY <2>1, <2>2, <2>3, <2>4 DEF HandledOnce, Creator
<1> QED
    BY <1>2, <1>10, <1>11

\* The one request that finds the action proposed stages it, and says so.
LEMMA StageActionKeeps ==
    ASSUME IInv, NEW c \in Reviewer, StageAction(c)
    PROVE  ProtocolInv' /\ OnceInv' /\ HandledOnce'
<1> DEFINE told == IF Stages(c) THEN "staged" ELSE "refused"
<1>1. Ends(c, "stageAction", told) /\ UNCHANGED <<done, row, events>>
    BY DEF StageAction
<1>2. /\ ProtocolInv' /\ done = Told /\ answer[c] = Untold /\ c \in Caller
      /\ \A d \in Reviewer : statement'[d] = IF d = c THEN Idle ELSE statement[d]
      /\ \A d \in Reviewer : answer'[d] = IF d = c THEN [told |-> told, of |-> Arg(c)] ELSE answer[d]
    BY <1>1, ReviewProtocol
<1>3. Untold.told = "nothing" /\ Idle.op = "idle" /\ told \notin {"created", "already_created"}
    BY DEF Untold, Idle
<1>4. \A e : Creator(e) => Creator(e)'
  <2> SUFFICES ASSUME NEW e, NEW d \in Reviewer, answer[d] = [told |-> "created", of |-> e]
               PROVE  answer'[d] = [told |-> "created", of |-> e]
      BY DEF Creator
  <2>1. d # c
      BY <1>2, <1>3
  <2> QED
      BY <1>2, <2>1
<1>5. told = "staged" => result = "proposed"
    BY DEF Stages
<1>6. result' = IF told = "staged" THEN "staged" ELSE result
    BY DEF StageAction
<1>7. /\ DOMAIN steps = 1..Len(steps) /\ Len(steps) \in Nat
      /\ told = "staged" => /\ DOMAIN steps' = 1..(Len(steps) + 1)
                            /\ \A i \in 1..Len(steps) : steps'[i] = steps[i]
      /\ told # "staged" => steps' = steps
    BY DEF StageAction, IInv, TypeInv, Shape, Step
<1>8. result = "proposed" => /\ \A d \in Reviewer : answer[d].told # "staged"
                             /\ \A i \in DOMAIN steps : steps[i] # "action_staged"
    BY DEF IInv, OnceInv
<1>9. OnceInv'
  <2>1. \A d \in Reviewer : answer'[d].told = "staged" => result' \in {"staged", "none"} /\ done' = Told
      BY <1>1, <1>2, <1>5, <1>6 DEF IInv, OnceInv
  <2>2. \A i \in DOMAIN steps' : steps'[i] = "action_staged" =>
            result' \in {"staged", "none"} /\ done' = Told
      BY <1>1, <1>2, <1>6, <1>7 DEF IInv, OnceInv
  <2>3. \A d \in Reviewer : answer'[d].told = "created" =>
            answer'[d].of \in events' \/ row'.deleted = TRUE
      BY <1>1, <1>2, <1>3 DEF IInv, OnceInv
  <2>4. \A e \in events' : Creator(e)'
      BY <1>1, <1>4 DEF IInv, OnceInv
  <2>5. \A d \in Reviewer : statement'[d].op = "createEvent" =>
            \A e \in statement'[d].seen.events : Creator(e)'
      BY <1>2, <1>3, <1>4 DEF IInv, OnceInv, Seen
  <2> QED
      BY <2>1, <2>2, <2>3, <2>4, <2>5 DEF OnceInv, Seen
<1>10. HandledOnce'
  <2>1. \A d, e \in Reviewer : answer'[d].told = "staged" /\ answer'[e].told = "staged" => d = e
      BY <1>2, <1>5, <1>8 DEF IInv, HandledOnce
  <2>2. \A i, j \in DOMAIN steps' :
            steps'[i] = "action_staged" /\ steps'[j] = "action_staged" => i = j
      BY <1>5, <1>7, <1>8 DEF IInv, HandledOnce
  <2>3. \A d, e \in Reviewer : answer'[d].told = "created" /\ answer'[e] = answer'[d] => d = e
      BY <1>2, <1>3 DEF IInv, HandledOnce
  <2>4. \A d \in Reviewer : answer'[d].told = "already_created" => Creator(answer[d].of)'
    <3> SUFFICES ASSUME NEW d \in Reviewer, NEW e, answer'[d].told = "already_created",
                        e = answer'[d].of
                 PROVE  Creator(e)'
        OBVIOUS
    <3>1. d # c /\ answer'[d] = answer[d]
        BY <1>2, <1>3
    <3> QED
        BY <1>4, <3>1 DEF IInv, HandledOnce, Creator
  <2> QED
      BY <2>1, <2>2, <2>3, <2>4 DEF HandledOnce, Creator
<1> QED
    BY <1>2, <1>9, <1>10

LEMMA CallersKeep ==
    ASSUME IInv, Executor \/ Reviews \/ Uploader \/ Purge
    PROVE  ProtocolInv' /\ OnceInv' /\ HandledOnce'
<1>1. /\ "executor" \in Caller \ Reviewer /\ "uploader" \in Caller \ Reviewer
      /\ "purge" \in Caller \ Reviewer /\ Reviewer \subseteq Caller
    BY TablesAssumption DEF Caller
<1>2. MaxSteps \in Nat /\ done \in Nat
    BY TablesAssumption DEF IInv, TypeInv, Shape
<1>3. CASE Executor
  <2>1. PICK op, arg : /\ Start("executor", op, arg, now) /\ done <= Saved
                       /\ op \in {"setStatus", "appendStep"} => done < 2 * MaxSteps
      BY <1>2, <1>3 DEF Executor, Saved
  <2> QED
      BY <1>1, <2>1, StartsKeep
<1>4. CASE Reviews
  <2>1. PICK c \in Reviewer, t \in 0..now : \E op, arg :
            Start(c, op, arg, t) /\ done = Told /\ answer[c] = Untold
      BY <1>4 DEF Reviews, Silent
  <2> QED
      BY <1>1, <2>1, StartsKeep
<1>5. CASE Uploader
    BY <1>1, <1>5, StartsKeep DEF Uploader
<1>6. CASE Purge
    BY <1>1, <1>6, StartsKeep DEF Purge
<1> QED
    BY <1>3, <1>4, <1>5, <1>6

LEMMA NextKeeps == IInv /\ [Next]_vars => IInv'
<1> SUFFICES ASSUME IInv, [Next]_vars PROVE IInv'
    OBVIOUS
<1>1. TypeInv'
    BY NextKeepsTypes DEF IInv
<1>2. CASE Tell
  <2>1. UNCHANGED <<now, tables, statement, answer>> /\ done' = Told /\ done = Saved
      BY <1>2 DEF Tell
  <2>2. statement["executor"].op = "idle"
      BY <1>2 DEF Tell, Idle
  <2>3. Saved # Told
      BY TablesAssumption DEF Saved, Told
  <2>4. ProtocolInv'
      BY <2>1, <2>2, <2>3 DEF IInv, ProtocolInv
  <2>5. OnceInv' /\ HandledOnce'
      BY <2>1, <2>3 DEF IInv, OnceInv, HandledOnce, tables, Creator, Seen
  <2> QED
      BY <1>1, <2>4, <2>5 DEF IInv
<1>3. CASE Tick \/ UNCHANGED vars
  <2>1. UNCHANGED <<row, steps, result, events, statement, answer, done>>
      BY <1>3 DEF Tick, vars, tables
  <2>2. ProtocolInv' /\ OnceInv' /\ HandledOnce'
      BY <2>1 DEF IInv, ProtocolInv, OnceInv, HandledOnce, Creator, Seen
  <2> QED
      BY <1>1, <2>2 DEF IInv
<1>4. CASE \E c \in Reviewer : CreateEvent(c) \/ StageAction(c)
    BY <1>1, <1>4, CreateEventKeeps, StageActionKeeps DEF IInv
<1>5. CASE \E c \in {"executor", "uploader", "purge"} : Tombstone(c)
    BY <1>1, <1>5, TombstoneKeeps DEF IInv
<1> QED
    BY <1>1, <1>2, <1>3, <1>4, <1>5, StatementsKeep, CallersKeep DEF Next, IInv

\* For any reviewers and overlap of their requests with each other, a deletion
\* and the purge: one of them stages the action, one creates an event, and nobody
\* is told of an event that nobody created.
THEOREM OnceTheorem == Spec => []HandledOnce
<1>1. IInv => HandledOnce
    BY DEF IInv
<1> QED
    BY <1>1, InitHolds, NextKeeps, PTL DEF Spec


-----------------------------------------------------------------------------
(* Reads                                                                    *)

\* Until a run is deleted nothing is taken out of its tables.
Growth ==
    /\ row.deleted = FALSE
    /\ \A i \in DOMAIN steps : i \in DOMAIN steps' /\ steps'[i] = steps[i]
    /\ events \subseteq events'
    /\ result # "none" => result' # "none"
    /\ done = Told /\ result = "staged" => result' = "staged"

\* A step added at the end of a trace leaves the others where they are.
LEMMA AppendGrows ==
    ASSUME NEW seq \in Seq(Step), NEW step \in Step
    PROVE  /\ \A i \in DOMAIN seq : i \in DOMAIN Append(seq, step) /\ Append(seq, step)[i] = seq[i]
           /\ step \in ToSet(Append(seq, step))
<1>1. /\ DOMAIN seq = 1..Len(seq) /\ Len(seq) \in Nat
      /\ DOMAIN Append(seq, step) = 1..(Len(seq) + 1)
      /\ \A i \in 1..Len(seq) : Append(seq, step)[i] = seq[i]
      /\ Append(seq, step)[Len(seq) + 1] = step
    OBVIOUS
<1>2. Len(seq) + 1 \in DOMAIN Append(seq, step)
    BY <1>1
<1> QED
    BY <1>1, <1>2 DEF ToSet

LEMMA NextGrows ==
    ASSUME IInv, [Next]_vars, row'.deleted = FALSE
    PROVE  Growth
<1>1. steps \in Seq(Step) /\ row \in [status : Status, deleted : BOOLEAN]
      /\ "executor" \in Caller /\ Reviewer \subseteq Caller /\ done \in Nat
    BY DEF IInv, TypeInv, Shape, Caller
<1>2. CASE UNCHANGED tables
    BY <1>2 DEF Growth, tables
<1>3. CASE SetStatus \/ AppendStep \/ SaveResults \/ MarkFailed
  <2>1. done # Told
    <3>1. statement["executor"].op # "idle"
        BY <1>3 DEF SetStatus, AppendStep, SaveResults, MarkFailed, Ends
    <3> QED
        BY <1>1, <3>1, TablesAssumption DEF IInv, ProtocolInv, Told, Saved
  <2>2. row.deleted = FALSE /\ events' = events
      BY <1>1, <1>3 DEF SetStatus, AppendStep, SaveResults, MarkFailed
  <2>3. \/ steps' = steps
        \/ \E step \in Step : steps' = Append(steps, step)
    <3>1. statement["executor"].op = "appendStep" => Arg("executor") \in Step
        BY <1>1, Args DEF IInv, Step
    <3> QED
        BY <1>3, <3>1 DEF SetStatus, AppendStep, SaveResults, MarkFailed, Ends, Step
  <2>4. \A i \in DOMAIN steps : i \in DOMAIN steps' /\ steps'[i] = steps[i]
      BY <1>1, <2>3, AppendGrows
  <2>5. result' # result => result' # "none"
    <3>1. statement["executor"].op = "saveResults" => Arg("executor") # "none"
        BY <1>1, Args DEF IInv
    <3> QED
        BY <1>3, <3>1 DEF SetStatus, AppendStep, SaveResults, MarkFailed, Ends
  <2> QED
      BY <2>1, <2>2, <2>4, <2>5 DEF Growth
<1>4. ASSUME NEW c \in Reviewer, CreateEvent(c) \/ StageAction(c)
      PROVE  Growth
  <2>1. /\ row.deleted = FALSE /\ events \subseteq events'
        /\ steps' = steps \/ steps' = Append(steps, "action_staged")
        /\ result' = result \/ result' = "staged"
      BY <1>4 DEF CreateEvent, StageAction
  <2>2. \A i \in DOMAIN steps : i \in DOMAIN steps' /\ steps'[i] = steps[i]
      BY <1>1, <2>1, AppendGrows DEF Step
  <2> QED
      BY <2>1, <2>2 DEF Growth
<1>5. ASSUME NEW c \in {"executor", "uploader", "purge"}, Tombstone(c)
      PROVE  FALSE
    BY <1>1, <1>5 DEF Tombstone, NotYetGone
<1>6. CASE Executor \/ Tell \/ Reviews \/ Uploader \/ Purge \/ Tick
    BY <1>2, <1>6 DEF Executor, Tell, Reviews, Uploader, Purge, Tick, Start, tables
<1>7. CASE UNCHANGED vars
    BY <1>2, <1>7 DEF vars
<1> QED
    BY <1>3, <1>4, <1>5, <1>6, <1>7 DEF Next

\* Who is told that an event exists finds it there.
LEMMA EventsHeard ==
    ASSUME IInv, row.deleted = FALSE, NEW c \in Reviewer,
           answer[c].told \in {"created", "already_created"}
    PROVE  answer[c].of \in events
<1>1. CASE answer[c].told = "created"
    BY <1>1 DEF IInv, OnceInv
<1>2. CASE answer[c].told = "already_created"
  <2>1. PICK d \in Reviewer : answer[d] = [told |-> "created", of |-> answer[c].of]
      BY <1>2 DEF IInv, HandledOnce
  <2> QED
      BY <2>1 DEF IInv, OnceInv
<1> QED
    BY <1>1, <1>2

\* What is in the tables of a run that is not deleted fits its status, and the
\* reviewer who was told so finds the action staged.
ContentsInv ==
    row.deleted = FALSE =>
        /\ row.status = "completed" => result # "none"
        /\ row.status = "failed" => "failed" \in ToSet(steps)
        /\ \A c \in Reviewer : answer[c].told = "staged" =>
              result = "staged" /\ "action_staged" \in ToSet(steps)

\* A step stays in the trace.
LEMMA StepsStay ==
    ASSUME Growth, NEW step
    PROVE  step \in ToSet(steps) => step \in ToSet(steps')
BY DEF Growth, ToSet

LEMMA NextKeepsContents ==
    ASSUME IInv, ContentsInv, [Next]_vars
    PROVE  ContentsInv'
<1> SUFFICES ASSUME row'.deleted = FALSE
             PROVE  /\ row'.status = "completed" => result' # "none"
                    /\ row'.status = "failed" => "failed" \in ToSet(steps')
                    /\ \A c \in Reviewer : answer'[c].told = "staged" =>
                          result' = "staged" /\ "action_staged" \in ToSet(steps')
    BY DEF ContentsInv
<1>1. Growth
    BY NextGrows
<1>2. /\ steps \in Seq(Step) /\ row \in [status : Status, deleted : BOOLEAN]
      /\ "executor" \in Caller /\ Reviewer \subseteq Caller
    BY DEF IInv, TypeInv, Shape, Caller
<1>3. "failed" \in ToSet(steps) => "failed" \in ToSet(steps')
    BY <1>1, StepsStay
<1>4. ASSUME NEW c \in Reviewer, answer'[c] = answer[c], answer'[c].told = "staged"
      PROVE  result' = "staged" /\ "action_staged" \in ToSet(steps')
  <2>1. result = "staged" /\ "action_staged" \in ToSet(steps) /\ done = Told
      BY <1>1, <1>4 DEF Growth, ContentsInv, IInv, OnceInv
  <2> QED
      BY <1>1, <2>1, StepsStay DEF Growth
<1>5. CASE UNCHANGED <<row, answer>>
    BY <1>1, <1>3, <1>4, <1>5 DEF Growth, ContentsInv
<1>6. CASE SetStatus \/ AppendStep \/ SaveResults \/ MarkFailed
  <2>1. row.deleted = FALSE
      BY <1>1 DEF Growth
  <2>2. /\ statement["executor"].op = "setStatus" => Arg("executor") \in Stage
        /\ statement["executor"].op = "saveResults" => Arg("executor") # "none"
      BY <1>2, Args DEF IInv
  <2>3. \A c \in Reviewer : answer'[c] = answer[c]
    <3>1. PICK op, told : Ends("executor", op, told)
        BY <1>6 DEF SetStatus, AppendStep, SaveResults, MarkFailed
    <3>2. "executor" \notin Reviewer
        BY TablesAssumption
    <3>3. \A d \in Caller : answer'[d] = IF d = "executor"
                                           THEN [told |-> told, of |-> Arg("executor")]
                                           ELSE answer[d]
        BY <1>2, <3>1, Ended
    <3> QED
        BY <1>2, <3>2, <3>3
  <2>4. CASE SetStatus
    <3>1. row'.status \in Stage
        BY <1>2, <2>1, <2>2, <2>4 DEF SetStatus, Ends
    <3> QED
        BY <1>4, <2>3, <3>1, TablesAssumption
  <2>5. CASE AppendStep
      BY <1>1, <1>3, <1>4, <2>1, <2>3, <2>5 DEF AppendStep, ContentsInv, Growth
  <2>6. CASE SaveResults
    <3>1. row'.status = "completed" /\ result' # "none"
        BY <1>2, <2>1, <2>2, <2>6 DEF SaveResults, Ends
    <3> QED
        BY <1>4, <2>3, <3>1
  <2>7. CASE MarkFailed
    <3>1. row'.status = "failed" /\ steps' = Append(steps, "failed")
        BY <1>2, <2>1, <2>7 DEF MarkFailed
    <3>2. "failed" \in ToSet(steps')
        BY <1>2, <3>1, AppendGrows DEF Step
    <3> QED
        BY <1>4, <2>3, <3>1, <3>2
  <2> QED
      BY <1>6, <2>4, <2>5, <2>6, <2>7
<1>7. ASSUME NEW c \in Reviewer, CreateEvent(c) \/ StageAction(c)
      PROVE  /\ row'.status = "completed" => result' # "none"
             /\ row'.status = "failed" => "failed" \in ToSet(steps')
             /\ \A d \in Reviewer : answer'[d].told = "staged" =>
                   result' = "staged" /\ "action_staged" \in ToSet(steps')
  <2>1. row' = row /\ row.deleted = FALSE
      BY <1>1, <1>7 DEF CreateEvent, StageAction, Growth
  <2>2. PICK op, told : /\ Ends(c, op, told)
                        /\ told = "staged" => StageAction(c) /\ Stages(c)
      BY <1>7 DEF CreateEvent, StageAction, EventAnswer
  <2>3. \A d \in Caller : answer'[d] = IF d = c THEN [told |-> told, of |-> Arg(c)] ELSE answer[d]
      BY <1>2, <2>2, Ended
  <2>4. ASSUME StageAction(c), Stages(c)
        PROVE  result' = "staged" /\ "action_staged" \in ToSet(steps')
      BY <1>2, <2>4, AppendGrows DEF StageAction, Step
  <2>5. ASSUME NEW d \in Reviewer, answer'[d].told = "staged"
        PROVE  result' = "staged" /\ "action_staged" \in ToSet(steps')
    <3>1. CASE d = c
        BY <1>2, <2>2, <2>3, <2>4, <2>5, <3>1
    <3>2. CASE d # c
        BY <1>2, <1>4, <2>3, <2>5, <3>2
    <3> QED
        BY <3>1, <3>2
  <2> QED
      BY <1>1, <1>3, <2>1, <2>5 DEF ContentsInv, Growth
<1>8. ASSUME NEW c \in {"executor", "uploader", "purge"}, Tombstone(c)
      PROVE  FALSE
    BY <1>2, <1>8 DEF Tombstone, NotYetGone
<1>9. CASE Executor \/ Tell \/ Reviews \/ Uploader \/ Purge \/ Tick
    BY <1>5, <1>9 DEF Executor, Tell, Reviews, Uploader, Purge, Tick, Start, tables
<1>10. CASE UNCHANGED vars
    BY <1>5, <1>10 DEF vars, tables
<1> QED
    BY <1>6, <1>7, <1>8, <1>9, <1>10 DEF Next

\* The tables always fit what a read that shows details has begun with, and so
\* does each detail once it is read.
ViewInv ==
    /\ view.began \in BOOLEAN /\ view.details \in BOOLEAN /\ view.unread \subseteq Detail
    /\ DOMAIN view = DOMAIN Unread
    /\ view.details = TRUE /\ row.deleted = FALSE =>
          /\ StepsFit(steps) /\ ResultFits(result) /\ EventsFit(events)
          /\ "steps" \notin view.unread => StepsFit(view.steps)
          /\ "result" \notin view.unread => ResultFits(view.result)
          /\ "events" \notin view.unread => EventsFit(view.events)

ReadInv == IInv /\ ContentsInv /\ ViewInv

\* What fits goes on fitting while the tables grow.
LEMMA FitsStill ==
    ASSUME Growth, IInv, UNCHANGED view, StepsFit(steps), ResultFits(result), EventsFit(events)
    PROVE  StepsFit(steps)' /\ ResultFits(result)' /\ EventsFit(events)'
<1>1. StepsFit(steps')
    BY StepsStay DEF StepsFit, Growth
<1>2. ResultFits(result')
  <2>1. ASSUME NEW c \in Reviewer, view.had.answer[c].told = "staged"
        PROVE  result' = "staged"
    <3>1. result = "staged" /\ "action_staged" \in ToSet(steps)
        BY <2>1 DEF ResultFits, StepsFit
    <3>2. done = Told
        BY <3>1 DEF IInv, OnceInv, ToSet
    <3> QED
        BY <3>1, <3>2 DEF Growth
  <2> QED
      BY <2>1 DEF ResultFits, Growth
<1>3. EventsFit(events')
    BY DEF EventsFit, Growth
<1> QED
    BY <1>1, <1>2, <1>3 DEF StepsFit, ResultFits, EventsFit

\* What the row is read with fits the tables at that moment.
LEMMA ReadRowKeeps ==
    ASSUME ReadInv, ReadRow
    PROVE  ViewInv'
<1>1. UNCHANGED <<row, steps, result, events, answer>>
    BY DEF ReadRow, vars, tables
<1>2. PICK t \in 0..now : view' = [Unread EXCEPT
           !.began = TRUE,
           !.status = IF t >= Expiry /\ row.status # "deleted" THEN "expired" ELSE row.status,
           !.details = ~(t >= Expiry) /\ ~row.deleted,
           !.unread = IF ~(t >= Expiry) /\ ~row.deleted THEN Detail ELSE {},
           !.had = [steps |-> steps, answer |-> answer]]
    BY DEF ReadRow
<1>3. /\ view'.began = TRUE /\ view'.details = (~(t >= Expiry) /\ ~row.deleted)
      /\ view'.unread = IF ~(t >= Expiry) /\ ~row.deleted THEN Detail ELSE {}
      /\ DOMAIN view' = DOMAIN Unread
      /\ view'.had = [steps |-> steps, answer |-> answer]
      /\ view'.status = IF t >= Expiry /\ row.status # "deleted" THEN "expired" ELSE row.status
    BY <1>2 DEF Unread
<1>4. ASSUME view'.details = TRUE, row'.deleted = FALSE
      PROVE  /\ StepsFit(steps)' /\ ResultFits(result)' /\ EventsFit(events)'
             /\ view'.unread = Detail
  <2>1. view'.status = row.status /\ row.deleted = FALSE /\ view'.unread = Detail
      BY <1>1, <1>3, <1>4
  <2>2. StepsFit(steps)'
      BY <1>1, <1>3, <2>1 DEF StepsFit, ReadInv, ContentsInv
  <2>3. ResultFits(result)'
      BY <1>1, <1>3, <2>1 DEF ResultFits, ReadInv, ContentsInv
  <2>4. EventsFit(events)'
    <3>1. \A c \in Reviewer : answer[c].told \in {"created", "already_created"}
                                 => answer[c].of \in events
        BY <2>1, EventsHeard DEF ReadInv
    <3> QED
        BY <1>1, <1>3, <3>1 DEF EventsFit
  <2> QED
      BY <2>1, <2>2, <2>3, <2>4
<1> QED
    BY <1>3, <1>4 DEF ViewInv, Detail

\* A detail that is read is what the tables have.
LEMMA ReadDetailKeeps ==
    ASSUME ReadInv, NEW d \in Detail, ReadDetail(d)
    PROVE  ViewInv'
<1>1. UNCHANGED <<row, steps, result, events>>
    BY DEF ReadDetail, vars, tables
<1>2. DOMAIN view = DOMAIN Unread /\ {"began", "status", "details", "unread", "steps",
          "result", "events", "had"} = DOMAIN Unread
    BY DEF ReadInv, ViewInv, Unread
<1>3. /\ view'.began = view.began /\ view'.details = view.details
      /\ view'.unread = view.unread \ {d} /\ DOMAIN view' = DOMAIN view
      /\ view'.had = view.had /\ view'.status = view.status
      /\ view'.steps = IF d = "steps" THEN steps ELSE view.steps
      /\ view'.result = IF d = "result" THEN result ELSE view.result
      /\ view'.events = IF d = "events" THEN events ELSE view.events
  <2>1. view' = [view EXCEPT ![d] = Stored[d], !.unread = @ \ {d}]
      BY DEF ReadDetail
  <2>2. CASE d = "steps"
      BY <1>2, <2>1, <2>2 DEF Stored
  <2>3. CASE d = "result"
      BY <1>2, <2>1, <2>3 DEF Stored
  <2>4. CASE d = "events"
      BY <1>2, <2>1, <2>4 DEF Stored
  <2> QED
      BY <2>2, <2>3, <2>4 DEF Detail
<1>4. view.details = TRUE /\ row.deleted = FALSE =>
            StepsFit(steps)' /\ ResultFits(result)' /\ EventsFit(events)'
    BY <1>1, <1>3 DEF ReadInv, ViewInv, StepsFit, ResultFits, EventsFit
<1>5. ASSUME view.details = TRUE, row.deleted = FALSE
      PROVE  /\ "steps" \notin view'.unread => StepsFit(view.steps)'
             /\ "result" \notin view'.unread => ResultFits(view.result)'
             /\ "events" \notin view'.unread => EventsFit(view.events)'
  <2>1. "steps" \notin view'.unread => StepsFit(view.steps)'
    <3>1. CASE d = "steps"
        BY <1>1, <1>3, <1>5, <3>1 DEF ReadInv, ViewInv, StepsFit
    <3>2. CASE d # "steps"
        BY <1>3, <1>5, <3>2 DEF ReadInv, ViewInv, StepsFit
    <3> QED
        BY <3>1, <3>2
  <2>2. "result" \notin view'.unread => ResultFits(view.result)'
    <3>1. CASE d = "result"
        BY <1>1, <1>3, <1>5, <3>1 DEF ReadInv, ViewInv, ResultFits
    <3>2. CASE d # "result"
        BY <1>3, <1>5, <3>2 DEF ReadInv, ViewInv, ResultFits
    <3> QED
        BY <3>1, <3>2
  <2>3. "events" \notin view'.unread => EventsFit(view.events)'
    <3>1. CASE d = "events"
        BY <1>1, <1>3, <1>5, <3>1 DEF ReadInv, ViewInv, EventsFit
    <3>2. CASE d # "events"
        BY <1>3, <1>5, <3>2 DEF ReadInv, ViewInv, EventsFit
    <3> QED
        BY <3>1, <3>2
  <2> QED
      BY <2>1, <2>2, <2>3
<1>6. /\ view'.began \in BOOLEAN /\ view'.details \in BOOLEAN
      /\ view'.unread \subseteq Detail /\ DOMAIN view' = DOMAIN Unread
    BY <1>2, <1>3 DEF ReadInv, ViewInv
<1> QED
    BY <1>1, <1>3, <1>4, <1>5, <1>6 DEF ViewInv

LEMMA NextKeepsReading ==
    ReadInv /\ [NextReading]_<<vars, view>> => ReadInv'
<1> SUFFICES ASSUME ReadInv, [NextReading]_<<vars, view>> PROVE ReadInv'
    OBVIOUS
<1>1. [Next]_vars
    BY DEF NextReading, Reading, ReadRow, ReadDetail
<1>2. IInv' /\ ContentsInv'
    BY <1>1, NextKeeps, NextKeepsContents DEF ReadInv
<1>3. CASE UNCHANGED view
  <2>1. ASSUME view'.details = TRUE, row'.deleted = FALSE
        PROVE  Growth /\ view.details = TRUE /\ row.deleted = FALSE
      BY <1>1, <1>3, <2>1, NextGrows DEF ReadInv, Growth
  <2>2. ASSUME view'.details = TRUE, row'.deleted = FALSE
        PROVE  StepsFit(steps)' /\ ResultFits(result)' /\ EventsFit(events)'
      BY <1>3, <2>1, <2>2, FitsStill DEF ReadInv, ViewInv
  <2>3. ASSUME view'.details = TRUE, row'.deleted = FALSE
        PROVE  /\ "steps" \notin view'.unread => StepsFit(view.steps)'
               /\ "result" \notin view'.unread => ResultFits(view.result)'
               /\ "events" \notin view'.unread => EventsFit(view.events)'
      BY <1>3, <2>1, <2>3 DEF ReadInv, ViewInv, StepsFit, ResultFits, EventsFit
  <2>4. ViewInv'
      BY <1>3, <2>2, <2>3 DEF ReadInv, ViewInv
  <2> QED
      BY <1>2, <2>4 DEF ReadInv
<1>4. CASE ReadRow
    BY <1>2, <1>4, ReadRowKeeps DEF ReadInv
<1>5. ASSUME NEW d \in Detail, ReadDetail(d)
      PROVE  ReadInv'
    BY <1>2, <1>5, ReadDetailKeeps DEF ReadInv
<1> QED
    BY <1>3, <1>4, <1>5 DEF NextReading, Reading

LEMMA InitReads == InitReading => ReadInv
<1> SUFFICES ASSUME InitReading PROVE ReadInv
    OBVIOUS
<1>1. IInv
    BY InitHolds DEF InitReading
<1>2. ContentsInv
  <2>1. row.status \in Stage
      BY DEF InitReading, Init
  <2>2. \A c \in Reviewer : answer[c].told = "nothing"
      BY DEF InitReading, Init, Untold, Caller
  <2> QED
      BY <2>1, <2>2, TablesAssumption DEF ContentsInv
<1>3. ViewInv
    BY DEF InitReading, Unread, ViewInv
<1> QED
    BY <1>1, <1>2, <1>3 DEF ReadInv

\* For any reviewers, stages and clocks, and however the four queries of a read
\* fall among the statements on the run: unless the run is deleted, the read is
\* whole.
THEOREM ReadTheorem == SpecReading => []ReadIsWhole
<1>1. ReadInv => ReadIsWhole
  <2> SUFFICES ASSUME ReadInv, view.details, view.unread = {}, ~row.deleted
               PROVE  StepsFit(view.steps) /\ ResultFits(view.result) /\ EventsFit(view.events)
      BY DEF ReadIsWhole
  <2>1. view.details = TRUE /\ row.deleted = FALSE
      BY DEF ReadInv, ViewInv, IInv, TypeInv, Shape
  <2> QED
      BY <2>1 DEF ReadInv, ViewInv
<1> QED
    BY <1>1, InitReads, NextKeepsReading, PTL DEF SpecReading
=============================================================================
