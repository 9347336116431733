--------------------------- MODULE RetentionProofs ---------------------------
(* No document is lost and none comes back, for any runs, deletions, purges   *)
(* and faults, and any batch.                                                 *)
EXTENDS Retention, FiniteSetTheorems, TLAPS

Worker == Deleter \cup Purger

-----------------------------------------------------------------------------
(* The inductive invariant                                                  *)

RowType ==
    [status : {"absent", "running", "ended", "deleted", "expired"},
     left : Int, key : BOOLEAN, deleted : BOOLEAN]

Point == {"idle", "tombstone", "expire", "list", "blob", "job", "putOff"}
WorkType == [at : Point, todo : Seq(Run)]

Shape ==
    /\ row \in [Run -> RowType]
    /\ blob \subseteq Run
    /\ Jobs \subseteq Run
    /\ work \in [Worker -> WorkType]
    /\ read = [p \in Reader |-> [at |-> read[p].at, of |-> read[p].of]]

\* A run in progress has its key, a deleted one has none, and every document is
\* known by the one or by a job.
RowInv ==
    /\ \A r \in Run : /\ row[r].status = "running" => row[r].key = TRUE
                      /\ row[r].deleted = TRUE =>
                             row[r].key = FALSE /\ row[r].status \in {"deleted", "expired"}
    /\ \A r \in blob : row[r].key = TRUE \/ r \in Jobs
    /\ \A r \in Jobs : row[r].deleted = TRUE

\* Who is cleaning up does so for deleted runs only, and who is about to delete
\* a job has deleted its document, which nobody can store again.  Delete now has
\* one run.
WorkOk(w) ==
    /\ w.at \in {"tombstone", "expire", "blob", "job", "putOff"} => w.todo # <<>>
    /\ w.at \in {"blob", "job", "putOff"} =>
           \A i \in 1..Len(w.todo) : row[w.todo[i]].deleted = TRUE
    /\ w.at = "job" => w.todo[1] \notin blob
    /\ w.at = "tombstone" => Len(w.todo) = 1

WorkInv == \A p \in Worker : WorkOk(work[p])

IInv == Shape /\ RowInv /\ WorkInv

\* Initially there are no runs, documents, jobs and invocations.
LEMMA InitHolds == Init => IInv
<1> SUFFICES ASSUME Init PROVE IInv
    OBVIOUS
<1>1. Jobs = {}
    BY DEF Init, Jobs
<1>2. Shape
  <2>1. row \in [Run -> RowType]
      BY RetentionAssumption DEF Init, RowType
  <2>2. work \in [Worker -> WorkType]
    <3>1. Idle \in WorkType
      <4>1. <<>> \in Seq(Run)
          OBVIOUS
      <4> QED
          BY <4>1 DEF Idle, WorkType, Point
    <3> QED
        BY <3>1 DEF Init, Worker
  <2>3. read = [p \in Reader |-> [at |-> read[p].at, of |-> read[p].of]]
      BY DEF Init
  <2> QED
      BY <1>1, <2>1, <2>2, <2>3 DEF Init, Shape
<1>3. RowInv
    BY <1>1 DEF Init, RowInv
<1>4. WorkInv
    BY DEF Init, WorkInv, WorkOk, Worker, Idle
<1> QED
    BY <1>2, <1>3, <1>4 DEF IInv

\* A document nobody knows of does not exist, and a backlog of nothing hides none.
LEMMA InvImplies == IInv => NoLostDocument
<1> SUFFICES ASSUME IInv PROVE NoLostDocument
    OBVIOUS
<1>1. \A r \in blob : row[r].key \/ r \in Jobs
    BY DEF IInv, RowInv
<1>2. ASSUME Backlog = 0, NEW r \in blob, Gone(r) PROVE FALSE
  <2>1. IsFiniteSet(Candidates) /\ IsFiniteSet(Jobs)
      BY RetentionAssumption, FS_Subset DEF Candidates, IInv, Shape
  <2>2. Cardinality(Candidates) \in Nat /\ Cardinality(Jobs) \in Nat
      BY <2>1, FS_CardinalityType
  <2>3. Cardinality(Candidates) = 0 /\ Cardinality(Jobs) = 0
      BY <1>2, <2>2 DEF Backlog
  <2>4. Candidates = {} /\ Jobs = {}
      BY <2>1, <2>3, FS_EmptySet
  <2>5. r \in Run /\ row[r] \in RowType
      BY DEF IInv, Shape
  <2>6. CASE row[r].deleted = TRUE
      BY <2>4, <2>5, <2>6 DEF IInv, RowInv
  <2>7. CASE row[r].deleted = FALSE
      BY <1>2, <2>4, <2>5, <2>7 DEF Candidates, Gone
  <2> QED
      BY <2>5, <2>6, <2>7 DEF RowType
<1> QED
    BY <1>1, <1>2 DEF NoLostDocument

-----------------------------------------------------------------------------
(* Lists                                                                    *)

\* Going on with the next run of a list.
LEMMA TailOf ==
    ASSUME NEW list \in Seq(Run), list # <<>>
    PROVE  /\ list[1] \in Run /\ Head(list) = list[1] /\ Len(list) \in Nat \ {0}
           /\ Tail(list) \in Seq(Run) /\ Len(Tail(list)) = Len(list) - 1
           /\ \A i \in 1..Len(Tail(list)) : i + 1 \in 1..Len(list) /\ Tail(list)[i] = list[i + 1]
OBVIOUS

\* A list of runs is made of them.
LEMMA ListOf ==
    ASSUME NEW S \in SUBSET Run, NEW n \in Nat, NEW order, NEW list \in InOrder(S, n, order)
    PROVE  list \in Seq(Run) /\ \A i \in 1..Len(list) : list[i] \in S
<1>1. list \in [1..n -> S]
    BY DEF InOrder
<1>2. list \in Seq(Run) /\ Len(list) = n
    BY <1>1
<1> QED
    BY <1>1, <1>2

-----------------------------------------------------------------------------
(* What a step does to rows, documents and jobs                             *)

\* A deleted run stays deleted and nothing of it comes back.
Final ==
    \A r \in Run : row[r].deleted = TRUE =>
        /\ row'[r].deleted = TRUE /\ row'[r].status = row[r].status /\ row'[r].key = FALSE
        /\ r \in blob' => r \in blob
        /\ r \in Jobs' => r \in Jobs

Data == row \in [Run -> RowType] /\ blob \subseteq Run /\ Jobs \subseteq Run /\ RowInv

\* Nothing happens to them.
LEMMA SameData == IInv /\ UNCHANGED <<row, blob, job>> => Data' /\ Final
<1> SUFFICES ASSUME IInv, UNCHANGED <<row, blob, job>> PROVE Data' /\ Final
    OBVIOUS
<1>1. Jobs' = Jobs
    BY DEF Jobs
<1> QED
    BY <1>1 DEF IInv, Shape, RowInv, Data, Final

\* One row changes.
LEMMA RowMoves ==
    ASSUME IInv, NEW r \in Run, NEW new \in RowType, row[r].deleted = FALSE,
           row' = [row EXCEPT ![r] = new], UNCHANGED <<blob, job>>,
           new.status = "running" => new.key = TRUE, new.deleted = FALSE,
           row[r].key = TRUE => new.key = TRUE
    PROVE  Data' /\ Final
<1>1. Jobs' = Jobs /\ blob' = blob
    BY DEF Jobs
<1>2. \A s \in Run : row'[s] = IF s = r THEN new ELSE row[s]
    BY DEF IInv, Shape
<1>3. row' \in [Run -> RowType] /\ blob' \subseteq Run /\ Jobs' \subseteq Run
    BY <1>1 DEF IInv, Shape
<1>4. RowInv'
    BY <1>1, <1>2 DEF IInv, Shape, RowInv
<1>5. Final
    BY <1>1, <1>2 DEF IInv, Shape, RowInv, Final
<1> QED
    BY <1>3, <1>4, <1>5 DEF Data

\* The key of a run becomes a job.
LEMMA TombstoneMoves ==
    ASSUME IInv, NEW r \in Run, NEW to \in {"deleted", "expired"}, row[r].deleted = FALSE,
           Tombstone(r, to), UNCHANGED blob
    PROVE  Data' /\ Final /\ row'[r].deleted = TRUE
<1>1. Jobs' = Jobs \cup {r}
    BY DEF Tombstone, Jobs
<1> DEFINE new == [row[r] EXCEPT !.status = to, !.key = FALSE, !.deleted = TRUE]
<1>2. /\ row' = [row EXCEPT ![r] = new] /\ new \in RowType
      /\ new.status = to /\ new.key = FALSE /\ new.deleted = TRUE
    BY DEF Tombstone, IInv, Shape, RowType
<1> HIDE DEF new
<1>3. \A s \in Run : row'[s] = IF s = r THEN new ELSE row[s]
    BY <1>2 DEF IInv, Shape
<1>4. row' \in [Run -> RowType] /\ blob' \subseteq Run /\ Jobs' \subseteq Run
    BY <1>1, <1>2 DEF IInv, Shape
<1>5. RowInv'
    BY <1>1, <1>2, <1>3 DEF IInv, Shape, RowInv
<1>6. Final
    BY <1>1, <1>2, <1>3 DEF IInv, Shape, RowInv, Final
<1> QED
    BY <1>2, <1>3, <1>4, <1>5, <1>6 DEF Data

\* A document is deleted.
LEMMA BlobMoves == IInv /\ UNCHANGED <<row, job>> /\ blob' \subseteq blob => Data' /\ Final
<1> SUFFICES ASSUME IInv, UNCHANGED <<row, job>>, blob' \subseteq blob PROVE Data' /\ Final
    OBVIOUS
<1>1. Jobs' = Jobs
    BY DEF Jobs
<1> QED
    BY <1>1 DEF IInv, Shape, RowInv, Data, Final

\* Jobs go, but not those of documents that are there.
LEMMA JobsMove ==
    IInv /\ UNCHANGED <<row, blob>> /\ Jobs' \subseteq Jobs /\ Jobs \ Jobs' \subseteq Run \ blob
        => Data' /\ Final
BY DEF IInv, Shape, RowInv, Data, Final

-----------------------------------------------------------------------------
(* What a step does to the invocations                                      *)

\* What was true of an invocation stays true.
LEMMA OkStays ==
    ASSUME IInv, Final, NEW w \in WorkType, WorkOk(w)
    PROVE  WorkOk(w)'
<1>1. ASSUME NEW i \in 1..Len(w.todo), row[w.todo[i]].deleted = TRUE
      PROVE  w.todo[i] \in Run /\ row'[w.todo[i]].deleted = TRUE
    BY <1>1 DEF Final, WorkType
<1>2. w.at \in {"blob", "job", "putOff"} =>
          \A i \in 1..Len(w.todo) : row'[w.todo[i]].deleted = TRUE
    BY <1>1 DEF WorkOk
<1>3. w.at = "job" => w.todo[1] \notin blob'
  <2> SUFFICES ASSUME w.at = "job" PROVE w.todo[1] \notin blob'
      OBVIOUS
  <2>1. w.todo # <<>> /\ w.todo \in Seq(Run)
      BY DEF WorkOk, WorkType
  <2>2. 1 \in 1..Len(w.todo)
      BY <2>1, TailOf
  <2>3. w.todo[1] \in Run /\ row[w.todo[1]].deleted = TRUE /\ w.todo[1] \notin blob
      BY <2>1, <2>2, TailOf DEF WorkOk
  <2> QED
      BY <2>3 DEF Final
<1> QED
    BY <1>2, <1>3 DEF WorkOk

\* One invocation moves and the others stay right.
LEMMA WorkMoves ==
    ASSUME IInv, Data', Final, UNCHANGED read, NEW p \in Worker, NEW w \in WorkType,
           work' = [work EXCEPT ![p] = w], WorkOk(w)'
    PROVE  IInv'
<1>1. work' \in [Worker -> WorkType]
    BY DEF IInv, Shape
<1>2. ASSUME NEW q \in Worker PROVE WorkOk(work[q])'
  <2>1. CASE q = p
    <3>1. work'[q] = w
        BY <2>1 DEF IInv, Shape
    <3> QED
        BY <3>1 DEF WorkOk
  <2>2. CASE q # p
    <3>1. work'[q] = work[q]
        BY <2>2 DEF IInv, Shape
    <3>2. WorkOk(work[q])
        BY DEF IInv, WorkInv
    <3> QED
        BY <3>1, <3>2, OkStays DEF IInv, Shape, WorkOk
  <2> QED
      BY <2>1, <2>2
<1>3. WorkInv'
    BY <1>2 DEF WorkInv
<1>4. Shape'
    BY <1>1 DEF Data, IInv, Shape
<1> QED
    BY <1>3, <1>4 DEF Data, IInv

\* An invocation ends.
LEMMA LeaveKeeps ==
    ASSUME IInv, Data', Final, UNCHANGED read, NEW p \in Worker, Leave(p)
    PROVE  IInv'
<1>1. <<>> \in Seq(Run)
    OBVIOUS
<1>2. Idle \in WorkType
    BY <1>1 DEF Idle, WorkType, Point
<1>3. WorkOk(Idle)'
    BY DEF Idle, WorkOk
<1> QED
    BY <1>2, <1>3, WorkMoves DEF Leave, Idle

\* An invocation makes the next call for the same run.
LEMMA GotoKeeps ==
    ASSUME IInv, Data', Final, UNCHANGED read, NEW p \in Worker, NEW point \in Point \ {"tombstone"},
           Goto(p, point), work[p].todo # <<>>,
           point \in {"blob", "job", "putOff"} =>
               \A i \in 1..Len(work[p].todo) : row'[work[p].todo[i]].deleted = TRUE,
           point = "job" => work[p].todo[1] \notin blob'
    PROVE  IInv'
<1> DEFINE w == [at |-> point, todo |-> work[p].todo]
<1>1. work[p] \in WorkType
    BY DEF IInv, Shape
<1>2. w \in WorkType
    BY <1>1 DEF WorkType
<1>3. work' = [work EXCEPT ![p] = w]
  <2>1. w = [work[p] EXCEPT !.at = point]
      BY <1>1 DEF WorkType
  <2> HIDE DEF w
  <2> QED
      BY <2>1 DEF Goto, IInv, Shape
<1>4. PICK v \in WorkType : v = w
    BY <1>2
<1>5. WorkOk(v)'
    BY <1>4 DEF WorkOk
<1> HIDE DEF w
<1> QED
    BY <1>3, <1>4, <1>5, WorkMoves

\* An invocation goes on with its next run, or has no other.
LEMMA ProceedKeeps ==
    ASSUME IInv, Data', Final, UNCHANGED read, NEW p \in Worker, work[p].todo # <<>>,
           NEW point \in {"idle", "expire", "blob"}, NEW last \in {"idle", "list"},
           Proceed(p, point, last),
           point = "blob" => \A i \in 1..Len(work[p].todo) : row[work[p].todo[i]].deleted = TRUE
    PROVE  IInv'
<1> DEFINE rest == Tail(work[p].todo)
           w == [at |-> IF rest = <<>> THEN last ELSE point, todo |-> rest]
<1>1. work[p].todo \in Seq(Run)
    BY DEF IInv, Shape, WorkType
<1>2. /\ rest \in Seq(Run)
      /\ \A i \in 1..Len(rest) : i + 1 \in 1..Len(work[p].todo) /\ rest[i] = work[p].todo[i + 1]
    BY <1>1, TailOf
<1>3. work' = [work EXCEPT ![p] = w]
    BY DEF Proceed
<1>4. point = "blob" => \A i \in 1..Len(rest) : rest[i] \in Run /\ row[rest[i]].deleted = TRUE
    BY <1>2
<1> HIDE DEF rest
<1>5. w \in WorkType
  <2>1. w.at \in Point
      BY DEF Point
  <2> QED
      BY <1>2, <2>1 DEF WorkType
<1>6. PICK v \in WorkType : v = w
    BY <1>5
<1>7. WorkOk(v)'
    BY <1>4, <1>6 DEF WorkOk, Final
<1> HIDE DEF w
<1> QED
    BY <1>3, <1>6, <1>7, WorkMoves

\* An invocation takes up a list of runs.
LEMMA ListKeeps ==
    ASSUME IInv, Data', Final, UNCHANGED read, NEW p \in Worker, NEW at \in Point,
           NEW list \in Seq(Run), work' = [work EXCEPT ![p] = [at |-> at, todo |-> list]],
           at \in {"tombstone", "expire", "blob"} => list # <<>>,
           at = "tombstone" => Len(list) = 1,
           at = "blob" => \A i \in 1..Len(list) : row'[list[i]].deleted = TRUE,
           at \notin {"job", "putOff"}
    PROVE  IInv'
<1>1. PICK v \in WorkType : v = [at |-> at, todo |-> list]
    BY DEF WorkType
<1>2. WorkOk(v)'
    BY <1>1 DEF WorkOk
<1> QED
    BY <1>1, <1>2, WorkMoves

-----------------------------------------------------------------------------
(* The actions                                                              *)

\* The run an invocation works on.
LEMMA CurrentRun ==
    ASSUME IInv, NEW p \in Worker, work[p].at \in {"tombstone", "expire", "blob", "job", "putOff"}
    PROVE  /\ work[p].todo # <<>> /\ work[p].todo \in Seq(Run)
           /\ Current(p) \in Run /\ Current(p) = work[p].todo[1] /\ 1 \in 1..Len(work[p].todo)
           /\ work[p].at \in {"blob", "job", "putOff"} =>
                  \A i \in 1..Len(work[p].todo) : row[work[p].todo[i]].deleted = TRUE
<1>1. work[p] \in WorkType /\ WorkOk(work[p])
    BY DEF IInv, Shape, WorkInv
<1>2. work[p].todo # <<>> /\ work[p].todo \in Seq(Run)
    BY <1>1 DEF WorkType, WorkOk
<1> QED
    BY <1>1, <1>2, TailOf DEF WorkOk, Current

\* No invocation of a deletion or purge moves; a reader may.
LEMMA NobodyMoves ==
    ASSUME IInv, Data', Final, UNCHANGED work,
           read' = [p \in Reader |-> [at |-> read'[p].at, of |-> read'[p].of]]
    PROVE  IInv'
<1>1. Shape'
    BY DEF Data, IInv, Shape
<1>2. ASSUME NEW p \in Worker PROVE WorkOk(work[p])'
  <2>1. work[p] \in WorkType /\ WorkOk(work[p]) /\ work'[p] = work[p]
      BY DEF IInv, Shape, WorkInv
  <2> QED
      BY <2>1, OkStays DEF WorkOk
<1>3. WorkInv'
    BY <1>2 DEF WorkInv
<1> QED
    BY <1>1, <1>3 DEF Data, IInv

\* The executor's calls.  A run that is deleted is not running.
LEMMA ExecutorKeeps ==
    ASSUME IInv, NEW r \in Run, Admit(r) \/ StoreDocument(r) \/ Finish(r)
    PROVE  IInv' /\ Final
<1>1. /\ row[r] \in RowType /\ row[r].deleted \in BOOLEAN
      /\ row[r].status \in {"absent", "running"}
      /\ UNCHANGED <<job, work, read>> /\ Jobs' = Jobs
    BY DEF IInv, Shape, RowType, Admit, StoreDocument, Finish, Jobs
<1>2. row[r].deleted = FALSE
    BY <1>1 DEF IInv, RowInv
<1>3. CASE Admit(r)
  <2> DEFINE new == [row[r] EXCEPT !.status = "running", !.key = TRUE]
  <2>1. /\ new \in RowType /\ row' = [row EXCEPT ![r] = new] /\ UNCHANGED <<blob, job>>
        /\ new.key = TRUE /\ new.deleted = FALSE
      BY <1>1, <1>2, <1>3 DEF Admit, RowType, IInv, Shape
  <2> HIDE DEF new
  <2> QED
      BY <1>1, <1>2, <2>1, RowMoves, NobodyMoves DEF IInv, Shape
<1>4. CASE Finish(r)
  <2> DEFINE new == [row[r] EXCEPT !.status = "ended"]
  <2>1. /\ new \in RowType /\ row' = [row EXCEPT ![r] = new] /\ UNCHANGED <<blob, job>>
        /\ new.key = row[r].key /\ new.deleted = FALSE /\ new.status # "running"
      BY <1>1, <1>2, <1>4 DEF Finish, RowType, IInv, Shape
  <2> HIDE DEF new
  <2> QED
      BY <1>1, <1>2, <2>1, RowMoves, NobodyMoves DEF IInv, Shape
<1>5. CASE StoreDocument(r)
  <2>1. row[r].key = TRUE /\ row' = row /\ blob' = blob \cup {r}
      BY <1>5 DEF StoreDocument, IInv, RowInv
  <2>2. Data'
      BY <1>1, <2>1 DEF IInv, Shape, RowInv, Data
  <2>3. Final
      BY <1>1, <1>2, <2>1 DEF IInv, Shape, RowInv, Final
  <2> QED
      BY <1>1, <2>2, <2>3, NobodyMoves DEF IInv, Shape
<1> QED
    BY <1>3, <1>4, <1>5

\* Delete now begins.
LEMMA AskKeeps == ASSUME IInv, NEW p \in Deleter, NEW r \in Run, Ask(p, r) PROVE IInv' /\ Final
<1>1. /\ work' = [work EXCEPT ![p] = [at |-> "tombstone", todo |-> <<r>>]]
      /\ UNCHANGED <<row, blob, job>> /\ UNCHANGED read
    BY DEF Ask
<1>2. Data' /\ Final
    BY <1>1, SameData
<1>3. <<r>> \in Seq(Run) /\ Len(<<r>>) = 1 /\ <<r>> # <<>>
    OBVIOUS
<1> QED
    BY <1>1, <1>2, <1>3, ListKeeps DEF Worker, Point

LEMMA DeleteRowKeeps == ASSUME IInv, NEW p \in Worker, DeleteRow(p) PROVE IInv' /\ Final
<1> DEFINE r == Current(p)
<1>1. work[p].at = "tombstone" /\ UNCHANGED blob /\ UNCHANGED read
    BY DEF DeleteRow, At
<1>2. /\ work[p].todo # <<>> /\ r \in Run /\ r = work[p].todo[1]
      /\ Len(work[p].todo) = 1
    BY <1>1, CurrentRun DEF IInv, WorkInv, WorkOk
<1>3. row[r].deleted \in BOOLEAN
    BY <1>2 DEF IInv, Shape, RowType
<1> HIDE DEF r
<1>4. \/ row[r].deleted = FALSE /\ Tombstone(r, "deleted") /\ Goto(p, "blob")
      \/ row[r].deleted = FALSE /\ Tombstone(r, "deleted") /\ Leave(p)
      \/ UNCHANGED <<row, job>> /\ Leave(p)
    BY <1>3 DEF DeleteRow, r
<1>5. CASE row[r].deleted = FALSE /\ Tombstone(r, "deleted")
  <2>1. Data' /\ Final /\ row'[r].deleted = TRUE
      BY <1>1, <1>2, <1>5, TombstoneMoves
  <2>2. \A i \in 1..Len(work[p].todo) : row'[work[p].todo[i]].deleted = TRUE
      BY <1>2, <2>1
  <2> QED
      BY <1>1, <1>2, <1>4, <2>1, <2>2, GotoKeeps, LeaveKeeps, SameData DEF Point
<1>6. CASE UNCHANGED <<row, job>> /\ Leave(p)
    BY <1>1, <1>6, SameData, LeaveKeeps
<1> QED
    BY <1>4, <1>5, <1>6

LEMMA DeleteDocumentKeeps ==
    ASSUME IInv, NEW p \in Worker, DeleteDocument(p) PROVE IInv' /\ Final
<1> DEFINE r == Current(p)
<1>1. work[p].at = "blob" /\ UNCHANGED <<row, job>> /\ UNCHANGED read
    BY DEF DeleteDocument, At
<1>2. /\ work[p].todo # <<>> /\ r = work[p].todo[1]
      /\ \A i \in 1..Len(work[p].todo) : row'[work[p].todo[i]].deleted = TRUE
    BY <1>1, CurrentRun
<1> HIDE DEF r
<1>3. \/ blob' = blob \ {r} /\ Goto(p, "job")
      \/ blob' \in {blob, blob \ {r}} /\ Goto(p, "putOff")
    BY DEF DeleteDocument, r
<1>4. Data' /\ Final
    BY <1>1, <1>3, BlobMoves
<1> QED
    BY <1>1, <1>2, <1>3, <1>4, GotoKeeps DEF Point

LEMMA DeleteJobKeeps == ASSUME IInv, NEW p \in Worker, DeleteJob(p) PROVE IInv' /\ Final
<1> DEFINE r == Current(p)
<1>1. work[p].at = "job" /\ UNCHANGED <<row, blob>> /\ UNCHANGED read
    BY DEF DeleteJob, At
<1>2. /\ work[p].todo # <<>> /\ r \in Run /\ r \notin blob
      /\ \A i \in 1..Len(work[p].todo) : row[work[p].todo[i]].deleted = TRUE
    BY <1>1, CurrentRun DEF IInv, WorkInv, WorkOk
<1>3. Jobs' \in {Jobs, Jobs \ {r}}
      /\ \/ Proceed(p, After(p), "idle")
         \/ Goto(p, "putOff")
    BY DEF DeleteJob, Jobs
<1> HIDE DEF r
<1>4. Data' /\ Final
    BY <1>1, <1>2, <1>3, JobsMove
<1>5. After(p) \in {"idle", "expire", "blob"}
    BY DEF After
<1>6. CASE Proceed(p, After(p), "idle")
    BY <1>1, <1>2, <1>4, <1>5, <1>6, ProceedKeeps
<1>7. CASE Goto(p, "putOff")
    BY <1>1, <1>2, <1>4, <1>7, GotoKeeps DEF Point
<1> QED
    BY <1>3, <1>4, <1>6, <1>7

LEMMA PutOffKeeps == ASSUME IInv, NEW p \in Worker, PutOff(p) PROVE IInv' /\ Final
<1>1. work[p].at = "putOff" /\ UNCHANGED <<row, blob>> /\ UNCHANGED read
    BY DEF PutOff, At
<1>2. /\ work[p].todo # <<>>
      /\ \A i \in 1..Len(work[p].todo) : row[work[p].todo[i]].deleted = TRUE
    BY <1>1, CurrentRun
<1>3. Jobs' = Jobs /\ (Proceed(p, After(p), "idle") \/ Leave(p))
    BY DEF PutOff, Later, Jobs
<1>4. Data' /\ Final
    BY <1>1, <1>3, JobsMove
<1>5. After(p) \in {"idle", "expire", "blob"}
    BY DEF After
<1> QED
    BY <1>1, <1>2, <1>3, <1>4, <1>5, ProceedKeeps, LeaveKeeps

LEMMA ExpireRowKeeps == ASSUME IInv, NEW p \in Worker, ExpireRow(p) PROVE IInv' /\ Final
<1> DEFINE r == Current(p)
<1>1. /\ work[p].at = "expire" /\ Proceed(p, "expire", "list")
      /\ UNCHANGED blob /\ UNCHANGED read
    BY DEF ExpireRow, At
<1>2. work[p].todo # <<>> /\ r \in Run
    BY <1>1, CurrentRun
<1>3. row[r].deleted \in BOOLEAN
    BY <1>2 DEF IInv, Shape, RowType
<1> HIDE DEF r
<1>4. (row[r].deleted = FALSE /\ Tombstone(r, "expired")) \/ UNCHANGED <<row, job>>
    BY <1>3 DEF ExpireRow, r
<1>5. Data' /\ Final
    BY <1>1, <1>2, <1>4, TombstoneMoves, SameData
<1> QED
    BY <1>1, <1>2, <1>5, ProceedKeeps

LEMMA ListJobsKeeps == ASSUME IInv, NEW p \in Worker, ListJobs(p) PROVE IInv' /\ Final
<1> DEFINE due == {r \in Jobs : job[r] <= 0}
           n == IF Cardinality(due) < Batch THEN Cardinality(due) ELSE Batch
<1>1. UNCHANGED <<row, blob, job>> /\ UNCHANGED read
    BY DEF ListJobs
<1>2. Data' /\ Final
    BY <1>1, SameData
<1>3. due \in SUBSET Run /\ \A r \in due : row'[r].deleted = TRUE
    BY <1>1 DEF IInv, Shape, RowInv
<1>4. n \in Nat
  <2>1. Cardinality(due) \in Nat
      BY <1>3, RetentionAssumption, FS_Subset, FS_CardinalityType
  <2> QED
      BY <2>1, RetentionAssumption
<1>5. PICK first \in InOrder(due, n, OldestFirst) :
          work' = [work EXCEPT ![p] = IF first = <<>> THEN Idle
                                      ELSE [at |-> "blob", todo |-> first]]
    BY DEF ListJobs
<1> HIDE DEF due, n
<1>6. first \in Seq(Run) /\ \A i \in 1..Len(first) : row'[first[i]].deleted = TRUE
    BY <1>3, <1>4, ListOf
<1>7. CASE first = <<>>
    BY <1>1, <1>2, <1>5, <1>7, LeaveKeeps DEF Leave
<1>8. CASE first # <<>>
  <2>1. work' = [work EXCEPT ![p] = [at |-> "blob", todo |-> first]]
      BY <1>5, <1>8
  <2> QED
      BY <1>1, <1>2, <1>6, <1>8, <2>1, ListKeeps DEF Point
<1> QED
    BY <1>7, <1>8

LEMMA PurgeKeeps == ASSUME IInv, NEW p \in Purger, Purge(p) PROVE IInv' /\ Final
<1>1. UNCHANGED <<row, blob, job>> /\ UNCHANGED read
    BY DEF Purge
<1>2. Data' /\ Final
    BY <1>1, SameData
<1>3. Candidates \in SUBSET Run /\ Cardinality(Candidates) \in Nat
    BY RetentionAssumption, FS_Subset, FS_CardinalityType DEF Candidates
<1>4. PICK list \in InOrder(Candidates, Cardinality(Candidates), ById) :
          work' = [work EXCEPT ![p] = [at |-> IF list = <<>> THEN "list" ELSE "expire",
                                       todo |-> list]]
    BY DEF Purge
<1>5. list \in Seq(Run)
    BY <1>3, ListOf
<1> DEFINE at == IF list = <<>> THEN "list" ELSE "expire"
<1>6. at \in Point /\ at \in {"list", "expire"} /\ (at = "expire" => list # <<>>)
    BY DEF Point
<1>7. work' = [work EXCEPT ![p] = [at |-> at, todo |-> list]]
    BY <1>4
<1> HIDE DEF at
<1> QED
    BY <1>1, <1>2, <1>5, <1>6, <1>7, ListKeeps DEF Worker

LEMMA DieKeeps == ASSUME IInv, NEW p \in Worker, Die(p) PROVE IInv' /\ Final
<1>1. UNCHANGED <<row, blob, job>> /\ UNCHANGED read /\ Leave(p)
    BY DEF Die
<1> QED
    BY <1>1, SameData, LeaveKeeps

\* Readers change nothing but themselves.
LEMMA ReadersKeep ==
    ASSUME IInv, NEW p \in Reader, Reading(p) \/ \E r \in Run : ReadRow(p, r)
    PROVE  IInv' /\ Final
<1>1. UNCHANGED <<row, blob, job>> /\ UNCHANGED work
    BY DEF Reading, Fetch, Recheck, Serve, ReadRow, ReadOnly
<1>2. PICK point, of : read' = [read EXCEPT ![p] = [at |-> point, of |-> of]]
  <2>1. read = [q \in Reader |-> [at |-> read[q].at, of |-> read[q].of]]
      BY DEF IInv, Shape
  <2>2. ASSUME NEW point, Reads(p, point)
        PROVE  read' = [read EXCEPT ![p] = [at |-> point, of |-> read[p].of]]
    <3>1. read[p] = [at |-> read[p].at, of |-> read[p].of]
        BY <2>1
    <3>2. [read[p] EXCEPT !.at = point] = [at |-> point, of |-> read[p].of]
        BY <3>1
    <3>3. read' = [read EXCEPT ![p] = [read[p] EXCEPT !.at = point]]
        BY <2>1, <2>2 DEF Reads
    <3> QED
        BY <3>2, <3>3
  <2>3. CASE \E r \in Run : ReadRow(p, r)
      BY <2>3 DEF ReadRow
  <2>4. CASE Reading(p)
      BY <2>2, <2>4 DEF Reading, Fetch, Recheck, Serve
  <2> QED
      BY <2>3, <2>4
<1>3. read' = [q \in Reader |-> [at |-> read'[q].at, of |-> read'[q].of]]
    BY <1>2 DEF IInv, Shape
<1>4. Data' /\ Final
    BY <1>1, SameData
<1> QED
    BY <1>1, <1>3, <1>4, NobodyMoves

\* Time passes.
LEMMA TickKeeps == IInv /\ Tick => IInv' /\ Final
<1> SUFFICES ASSUME IInv, Tick PROVE IInv' /\ Final
    OBVIOUS
<1>1. Jobs' = Jobs /\ UNCHANGED <<blob, work, read>>
    BY DEF Tick, Older, Jobs
<1>2. ASSUME NEW r \in Run
      PROVE  /\ row'[r] \in RowType /\ row'[r].status = row[r].status
             /\ row'[r].key = row[r].key /\ row'[r].deleted = row[r].deleted
  <2>1. row[r] \in RowType
      BY DEF IInv, Shape
  <2> QED
      BY <2>1 DEF Tick, RowType
<1>3. row' \in [Run -> RowType]
    BY <1>2 DEF Tick
<1>4. Data' /\ Final
    BY <1>1, <1>2, <1>3 DEF IInv, Shape, RowInv, Data, Final
<1> QED
    BY <1>1, <1>4, NobodyMoves DEF IInv, Shape

-----------------------------------------------------------------------------
(* The theorems                                                             *)

\* Every step keeps the invariant and brings nothing back.
LEMMA NextKeeps == IInv /\ [Next]_vars => IInv' /\ Final
<1> SUFFICES ASSUME IInv, [Next]_vars PROVE IInv' /\ Final
    OBVIOUS
<1>1. CASE UNCHANGED vars
    BY <1>1, SameData, NobodyMoves DEF vars, IInv, Shape
<1>2. ASSUME NEW p \in Worker, Working(p) PROVE IInv' /\ Final
    BY <1>2, DeleteRowKeeps, DeleteDocumentKeeps, DeleteJobKeeps, PutOffKeeps, ExpireRowKeeps,
       ListJobsKeeps DEF Working
<1>3. CASE Next
    BY <1>2, <1>3, ExecutorKeeps, AskKeeps, PurgeKeeps, DieKeeps, ReadersKeep, TickKeeps
       DEF Next, Worker
<1> QED
    BY <1>1, <1>3

\* A reader that makes up its mind to serve has just seen that the run is active.
LEMMA ServedIsActive ==
    ASSUME IInv, Next, NEW p \in Reader, read'[p].at = "serve", read[p].at # "serve"
    PROVE  ~ Gone(read[p].of)
<1>1. PICK q \in Reader : Reading(q) \/ \E r \in Run : ReadRow(q, r)
    BY DEF Next, Admit, StoreDocument, Finish, Ask, Purge, Working, DeleteRow, DeleteDocument,
           DeleteJob, PutOff, ExpireRow, ListJobs, Die, Tick
<1>2. p = q
    BY <1>1 DEF IInv, Shape, Reading, Fetch, Recheck, Serve, ReadRow, Reads
<1> QED
    BY <1>1, <1>2 DEF IInv, Shape, Reading, Fetch, Recheck, Serve, ReadRow, Reads

\* For any runs, invocations, faults and batch: a document in the store is known to
\* its run's row or to a cleanup job, and counted in the backlog once it must go.
THEOREM DocumentTheorem == Spec => []NoLostDocument
BY InitHolds, NextKeeps, InvImplies, PTL DEF Spec

\* Nothing of a deleted run is ever stored, keyed or scheduled again, and what was
\* fetched before a deletion or an expiry is not served after it.
THEOREM FinalTheorem == Spec => NothingComesBack
<1> DEFINE Step ==
        /\ \A r \in Run : row[r].deleted =>
               /\ row'[r].status = row[r].status /\ ~ row'[r].key
               /\ r \in blob' => r \in blob
               /\ r \in Jobs' => r \in Jobs
        /\ \A p \in Reader : read'[p].at = "serve" /\ read[p].at # "serve" =>
               ~ Gone(read[p].of)
<1>1. IInv /\ [Next]_vars => [Step]_vars
  <2> SUFFICES ASSUME IInv, Next PROVE Step
      OBVIOUS
  <2>1. Final
      BY NextKeeps
  <2>2. ASSUME NEW r \in Run, row[r].deleted PROVE row[r].deleted = TRUE
      BY <2>2 DEF IInv, Shape, RowType
  <2>3. ASSUME NEW r \in Run, row[r].deleted PROVE row'[r].key = FALSE
      BY <2>1, <2>2, <2>3 DEF Final
  <2>4. \A r \in Run : row[r].deleted =>
            /\ row'[r].status = row[r].status /\ ~ row'[r].key
            /\ r \in blob' => r \in blob
            /\ r \in Jobs' => r \in Jobs
      BY <2>1, <2>2, <2>3 DEF Final
  <2> QED
      BY <2>4, ServedIsActive
<1>2. IInv /\ [Next]_vars => IInv'
    BY NextKeeps
<1> QED
    BY <1>1, <1>2, InitHolds, PTL DEF Spec, NothingComesBack

-----------------------------------------------------------------------------
(* The types                                                                *)

\* What TypeOK says and the invariant does not: the numbers stay in their ranges
\* and a reader at work has a run.
Numbers ==
    /\ \A r \in Run : row[r].left \in 0..Lifetime
    /\ job \in [Jobs -> Due]
    /\ \A p \in Reader : read[p].at # "idle" => read[p].of \in Run
    /\ faults \in 0..MaxFaults

\* Rows keep the time that is left to them.
SameLeft == \A r \in Run : row'[r].left = row[r].left

\* There are not more jobs than runs, and a job may be due at once or later.
LEMMA DueAre ==
    /\ Cardinality(Run) \in Nat
    /\ {0, Backoff} \subseteq Due
    /\ \A n \in Int : n \in Due <=> - Cardinality(Run) <= n /\ n <= 1
<1>1. Cardinality(Run) \in Nat
    BY RetentionAssumption, FS_CardinalityType
<1> QED
    BY <1>1 DEF Due, Backoff

\* No job is so overdue that its number leaves the range.
LEMMA OlderIsDue == IInv /\ Numbers => Older \in [Jobs -> Due]
<1> SUFFICES ASSUME IInv, Numbers PROVE Older \in [Jobs -> Due]
    OBVIOUS
<1> DEFINE dues == {job[r] - 1 : r \in Jobs}
           before(due) == {other \in dues : due <= other /\ other < 0}
           rank(due) == IF due >= 0 THEN due ELSE - Cardinality(before(due))
<1>1. Cardinality(Run) \in Nat
    BY DueAre
<1>2. \A r \in Jobs : job[r] \in Int /\ job[r] <= 1
    BY <1>1 DEF Numbers, Due, Backoff
<1>3. IsFiniteSet(dues) /\ Cardinality(dues) <= Cardinality(Run)
  <2> DEFINE f == [r \in Jobs |-> job[r] - 1]
  <2>1. f \in Surjection(Jobs, dues)
    BY DEF Surjection
  <2> HIDE DEF f, dues
  <2>2. Jobs \in SUBSET Run
    BY DEF IInv, Shape
  <2>3. IsFiniteSet(Jobs) /\ Cardinality(Jobs) <= Cardinality(Run)
    BY <2>2, RetentionAssumption, FS_Subset
  <2>4. IsFiniteSet(dues) /\ Cardinality(dues) <= Cardinality(Jobs)
    BY <2>1, <2>3, FS_Surjection
  <2>5. Cardinality(dues) \in Nat /\ Cardinality(Jobs) \in Nat
    BY <2>3, <2>4, FS_CardinalityType
  <2> QED
    BY <1>1, <2>3, <2>4, <2>5
<1>4. ASSUME NEW r \in Jobs PROVE rank(job[r] - 1) \in Due
  <2>1. job[r] - 1 \in Int /\ job[r] - 1 <= 0
    BY <1>2
  <2>2. CASE job[r] - 1 >= 0
    <3>1. \A n \in Int : n <= 0 /\ n >= 0 => n = 0
      OBVIOUS
    <3>2. rank(job[r] - 1) = job[r] - 1
      BY <2>2
    <3> HIDE DEF rank
    <3>3. rank(job[r] - 1) = 0
      BY <2>1, <2>2, <3>1, <3>2
    <3> QED
      BY <3>3, DueAre
  <2>3. CASE ~ (job[r] - 1 >= 0)
    <3> DEFINE S == before(job[r] - 1)
    <3>1. S \in SUBSET dues
      OBVIOUS
    <3>2. rank(job[r] - 1) = - Cardinality(S)
      BY <2>3
    <3> HIDE DEF S, dues
    <3>3. IsFiniteSet(S) /\ Cardinality(S) <= Cardinality(dues)
      BY <1>3, <3>1, FS_Subset
    <3>4. Cardinality(S) \in Nat /\ Cardinality(dues) \in Nat
      BY <1>3, <3>3, FS_CardinalityType
    <3>5. - Cardinality(S) \in Int /\ - Cardinality(Run) <= - Cardinality(S) /\ - Cardinality(S) <= 1
      BY <1>1, <1>3, <3>3, <3>4
    <3>6. - Cardinality(S) \in Due
      BY <3>5, DueAre
    <3> QED
      BY <3>2, <3>6
  <2> QED
    BY <2>2, <2>3
<1>5. Older = [r \in Jobs |-> rank(job[r] - 1)]
    BY DEF Older
<1> HIDE DEF rank
<1> QED
    BY <1>4, <1>5

\* A call that fails is one of those that may.
LEMMA FaultsStay == Numbers /\ (Fails \/ Succeeds) => faults' \in 0..MaxFaults
BY RetentionAssumption DEF Numbers, Fails, Succeeds

\* Moving a key to a job leaves the time and gives the job its number.
LEMMA TombstoneNumbers ==
    ASSUME IInv, Numbers, NEW r \in Run, NEW to, Tombstone(r, to)
    PROVE  SameLeft /\ job' \in [Jobs' -> Due]
<1>1. job' = [s \in Jobs \cup {r} |-> IF s = r THEN 0 ELSE job[s]]
    BY DEF Tombstone
<1>2. Jobs' = Jobs \cup {r}
    BY <1>1 DEF Jobs
<1>3. job' \in [Jobs \cup {r} -> Due]
    BY <1>1, DueAre DEF Numbers
<1>4. SameLeft
  <2> SUFFICES ASSUME NEW s \in Run PROVE row'[s].left = row[s].left
    BY DEF SameLeft
  <2>1. row[s] \in RowType /\ row[r] \in RowType
    BY DEF IInv, Shape
  <2> QED
    BY <2>1 DEF Tombstone, RowType, IInv, Shape
<1> QED
    BY <1>2, <1>3, <1>4

\* What an invocation does to the rows and the jobs.
LEMMA WorkerNumbers ==
    ASSUME IInv, Numbers, NEW p \in Worker, Working(p) \/ Die(p)
    PROVE  Numbers'
<1>1. /\ faults' \in 0..MaxFaults /\ UNCHANGED read
    BY FaultsStay DEF Working, DeleteRow, DeleteDocument, DeleteJob, PutOff, ExpireRow, ListJobs,
       Die, Numbers, Fails, Succeeds
<1>2. SameLeft /\ job' \in [Jobs' -> Due]
  <2>1. CASE UNCHANGED <<row, job>>
    BY <2>1 DEF Numbers, SameLeft, Jobs
  <2>2. CASE DeleteRow(p) \/ ExpireRow(p)
    <3>1. Current(p) \in Run
      BY <2>2, CurrentRun DEF DeleteRow, ExpireRow, At
    <3> QED
      BY <2>1, <2>2, <3>1, TombstoneNumbers DEF DeleteRow, ExpireRow
  <2>3. CASE DeleteJob(p)
    <3>1. row' = row /\ (job' = job \/ job' = [r \in Jobs \ {Current(p)} |-> job[r]])
      BY <2>3 DEF DeleteJob
    <3> QED
      BY <3>1 DEF Numbers, SameLeft, Jobs
  <2>4. CASE PutOff(p)
    <3>1. row' = row /\ (job' = job \/ job' = Later(Current(p)))
      BY <2>4 DEF PutOff
    <3>2. Later(Current(p)) \in [Jobs -> Due]
      BY DueAre DEF Later, Numbers
    <3> QED
      BY <3>1, <3>2 DEF Numbers, SameLeft, Jobs
  <2> QED
    BY <2>1, <2>2, <2>3, <2>4 DEF Working, Die, DeleteDocument, ListJobs
<1> QED
    BY <1>1, <1>2 DEF Numbers, SameLeft

\* What the executor, the one who asks and the purge do.
LEMMA CallerNumbers ==
    ASSUME IInv, Numbers,
           \/ \E r \in Run : Admit(r) \/ StoreDocument(r) \/ Finish(r)
           \/ \E p \in Worker, r \in Run : Ask(p, r)
           \/ \E p \in Worker : Purge(p)
    PROVE  Numbers'
<1>1. UNCHANGED <<job, read, faults>>
    BY DEF Admit, StoreDocument, Finish, Ask, Purge
<1>2. SameLeft
  <2> SUFFICES ASSUME NEW s \in Run PROVE row'[s].left = row[s].left
    BY DEF SameLeft
  <2>1. row[s] \in RowType /\ row \in [Run -> RowType]
    BY DEF IInv, Shape
  <2>2. ASSUME NEW r \in Run, Admit(r) PROVE row'[s].left = row[s].left
    BY <2>1, <2>2 DEF Admit, RowType
  <2>3. ASSUME NEW r \in Run, Finish(r) PROVE row'[s].left = row[s].left
    BY <2>1, <2>3 DEF Finish, RowType
  <2> QED
    BY <2>2, <2>3 DEF StoreDocument, Ask, Purge
<1> QED
    BY <1>1, <1>2 DEF Numbers, SameLeft, Jobs

\* A reader that is at work keeps the run it has read.
LEMMA ReaderNumbers ==
    ASSUME IInv, Numbers, NEW p \in Reader, Reading(p) \/ \E r \in Run : ReadRow(p, r)
    PROVE  Numbers'
<1>1. UNCHANGED <<row, job, faults>>
    BY DEF Reading, Fetch, Recheck, Serve, ReadRow, ReadOnly
<1>2. read = [q \in Reader |-> [at |-> read[q].at, of |-> read[q].of]]
    BY DEF IInv, Shape
<1>3. ASSUME NEW q \in Reader, read'[q].at # "idle" PROVE read'[q].of \in Run
  <2>1. CASE \E r \in Run : ReadRow(p, r)
    BY <1>2, <1>3, <2>1 DEF ReadRow, Numbers
  <2>2. ASSUME NEW point, Reads(p, point), read[p].at # "idle" PROVE read'[q].of \in Run
    <3>1. read'[q].of = read[q].of /\ (q # p => read'[q].at = read[q].at)
      BY <1>2, <2>2 DEF Reads
    <3> QED
      BY <1>3, <2>2, <3>1 DEF Numbers
  <2>3. CASE Reading(p)
    <3>1. read[p].at # "idle"
      BY <2>3 DEF Reading, Fetch, Recheck, Serve, ReadAt
    <3> QED
      BY <2>2, <2>3, <3>1 DEF Reading, Fetch, Recheck, Serve
  <2> QED
    BY <2>1, <2>3
<1> QED
    BY <1>1, <1>3 DEF Numbers, Jobs

\* Time never runs below zero.
LEMMA TickNumbers == IInv /\ Numbers /\ Tick => Numbers'
<1> SUFFICES ASSUME IInv, Numbers, Tick PROVE Numbers'
    OBVIOUS
<1>1. Jobs' = Jobs /\ job' = Older /\ UNCHANGED <<read, faults>>
    BY DEF Tick, Older, Jobs
<1>2. ASSUME NEW r \in Run PROVE row'[r].left \in 0..Lifetime
  <2>1. row[r] \in RowType /\ row[r].left \in 0..Lifetime
    BY DEF IInv, Shape, Numbers
  <2>2. row'[r] = IF row[r].status = "absent" \/ row[r].left = 0 THEN row[r]
                  ELSE [row[r] EXCEPT !.left = @ - 1]
    BY DEF Tick
  <2>3. row'[r].left = row[r].left \/ (row[r].left # 0 /\ row'[r].left = row[r].left - 1)
    BY <2>1, <2>2 DEF RowType
  <2> QED
    BY <2>1, <2>3, RetentionAssumption
<1> QED
    BY <1>1, <1>2, OlderIsDue DEF Numbers

\* Initially all the time is left and there is no job.
LEMMA InitNumbers == Init => Numbers
<1> SUFFICES ASSUME Init PROVE Numbers
    OBVIOUS
<1>1. Jobs = {} /\ job = <<>>
    BY DEF Init, Jobs
<1>2. job \in [Jobs -> Due]
    BY <1>1
<1> QED
    BY <1>2, RetentionAssumption DEF Init, Numbers

\* For any runs, lifetime, batch and faults the rows, jobs and invocations have
\* their shapes: no time is below zero, no job is more overdue than the number of
\* runs, and whoever works on a list of runs has one that is not empty.
THEOREM TypeTheorem == Spec => []TypeOK
<1>1. IInv /\ Numbers /\ [Next]_vars => Numbers'
  <2> SUFFICES ASSUME IInv, Numbers, [Next]_vars PROVE Numbers'
    OBVIOUS
  <2>1. CASE UNCHANGED vars
    BY <2>1 DEF vars, Numbers, Jobs
  <2> QED
    BY <2>1, CallerNumbers, WorkerNumbers, ReaderNumbers, TickNumbers DEF Next, Worker
<1>2. IInv /\ Numbers => TypeOK
  <2> SUFFICES ASSUME IInv, Numbers PROVE TypeOK
    OBVIOUS
  <2>1. ASSUME NEW p \in DOMAIN work, ~ At(p, "idle"), ~ At(p, "list") PROVE work[p].todo # <<>>
    <3>1. work[p] \in WorkType /\ WorkOk(work[p])
      BY DEF IInv, Shape, WorkInv
    <3> QED
      BY <2>1, <3>1 DEF At, WorkType, Point, WorkOk
  <2>2. row \in [Run -> [status : {"absent", "running", "ended", "deleted", "expired"},
                         left : 0..Lifetime, key : BOOLEAN, deleted : BOOLEAN]]
    BY DEF IInv, Shape, RowType, Numbers
  <2> QED
    BY <2>1, <2>2 DEF TypeOK, IInv, Shape, Numbers, ReadAt
<1> QED
    BY <1>1, <1>2, InitHolds, InitNumbers, NextKeeps, PTL DEF Spec

=============================================================================
