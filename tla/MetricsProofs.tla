--------------------------- MODULE MetricsProofs ---------------------------
(* What the public pages of metrics are made of: the limits of the reads    *)
(* and what the snapshots show, for any number of readers, processes,       *)
(* browsers and changes (MetricsReads), and the figures of the runs, for    *)
(* any runs, submissions, results and lengths of time (RunFigures).         *)
EXTENDS MetricsReads, RunFigures, FiniteSetTheorems, TLAPS

-----------------------------------------------------------------------------
(* MetricsReads: the shapes.                                                *)

Point == {"begin", "locked", "lookup", "join", "fill", "done", "failed"}

Request ==
    [at : Point, now : Nat, process : Process, bucket : Bucket, global : Nat,
     left : Nat, seen : SUBSET Change, had : SUBSET Change, joined : Reader \cup {Nobody}]

Entries ==
    [kind : {"none"}] \cup [kind : {"pending"}, by : Reader]
        \cup [kind : {"payload"}, seen : SUBSET Change, expires : Nat]

WindowRow == [global : Nat, bucket : [Bucket -> Nat]]

\* A request that is somewhere has all the fields, and began before.
RequestOk(x) ==
    /\ x.at \in Point \cup {"idle", "denied"}
    /\ x.at \notin {"idle", "denied", "failed"} => x \in Request /\ x.now <= now

TypeInv ==
    /\ now \in 0..MaxTime
    /\ DOMAIN windows \subseteq 0..MaxWindow /\ windows \in [DOMAIN windows -> WindowRow]
    /\ holder \in [0..MaxWindow -> Reader \cup {Nobody}]
    /\ committed \in [Change -> Nat]
    /\ dropped \in [Change -> SUBSET Process]
    /\ cache \in [Process -> Entries]
    /\ reader = [r \in Reader |-> reader[r]] /\ \A r \in Reader : RequestOk(reader[r])
    /\ faults \in 0..MaxFaults

\* So it is known when it began.
LEMMA AtWork ==
    ASSUME TypeInv, NEW r \in Reader, reader[r].at \notin {"idle", "denied", "failed"}
    PROVE  reader[r] \in Request /\ reader[r].now <= now /\ reader[r].now \in 0..MaxTime
BY MetricsAssumption DEF TypeInv, RequestOk, Request

\* The fields that two requests share, save those named.
SameFields(y, x, F) ==
    /\ "at" \notin F => y.at = x.at
    /\ y.now = x.now /\ y.process = x.process /\ y.bucket = x.bucket
    /\ "global" \notin F => y.global = x.global
    /\ "left" \notin F => y.left = x.left
    /\ "seen" \notin F => y.seen = x.seen
    /\ "had" \notin F => y.had = x.had
    /\ "joined" \notin F => y.joined = x.joined

\* A request after one of its fields has changed.
LEMMA SetAt ==
    ASSUME NEW x \in Request, NEW a \in Point
    PROVE  /\ [x EXCEPT !.at = a] \in Request /\ [x EXCEPT !.at = a].at = a
           /\ SameFields([x EXCEPT !.at = a], x, {"at"})
BY DEF Request, SameFields

\* The same for another field.
LEMMA SetGlobal ==
    ASSUME NEW x \in Request, NEW n \in Nat
    PROVE  /\ [x EXCEPT !.global = n] \in Request /\ [x EXCEPT !.global = n].global = n
           /\ SameFields([x EXCEPT !.global = n], x, {"global"})
BY DEF Request, SameFields

\* The same for another field.
LEMMA SetLeft ==
    ASSUME NEW x \in Request, NEW n \in Nat
    PROVE  /\ [x EXCEPT !.left = n] \in Request /\ [x EXCEPT !.left = n].left = n
           /\ SameFields([x EXCEPT !.left = n], x, {"left"})
BY DEF Request, SameFields

\* The same for another field.
LEMMA SetSeen ==
    ASSUME NEW x \in Request, NEW S \in SUBSET Change
    PROVE  /\ [x EXCEPT !.seen = S] \in Request /\ [x EXCEPT !.seen = S].seen = S
           /\ SameFields([x EXCEPT !.seen = S], x, {"seen"})
BY DEF Request, SameFields

\* The same for another field.
LEMMA SetHad ==
    ASSUME NEW x \in Request, NEW S \in SUBSET Change
    PROVE  /\ [x EXCEPT !.had = S] \in Request /\ [x EXCEPT !.had = S].had = S
           /\ SameFields([x EXCEPT !.had = S], x, {"had"})
BY DEF Request, SameFields

\* The same for another field.
LEMMA SetJoined ==
    ASSUME NEW x \in Request, NEW j \in Reader \cup {Nobody}
    PROVE  /\ [x EXCEPT !.joined = j] \in Request /\ [x EXCEPT !.joined = j].joined = j
           /\ SameFields([x EXCEPT !.joined = j], x, {"joined"})
BY DEF Request, SameFields

\* A request with the lock.
LEMMA SetLocked ==
    ASSUME NEW x \in Request, NEW a \in Point, NEW n \in Nat
    PROVE  LET y == [x EXCEPT !.at = a, !.global = n]
           IN  y \in Request /\ y.at = a /\ y.global = n /\ SameFields(y, x, {"at", "global"})
<1> DEFINE u == [x EXCEPT !.at = a]
<1>1. [x EXCEPT !.at = a, !.global = n] = [u EXCEPT !.global = n]
    OBVIOUS
<1>2. u \in Request /\ u.at = a /\ SameFields(u, x, {"at"})
    BY SetAt
<1> HIDE DEF u
<1> QED
    BY <1>1, <1>2, SetGlobal DEF SameFields

\* A request that has read a source.
LEMMA SetRead ==
    ASSUME NEW x \in Request, NEW n \in Nat, NEW S \in SUBSET Change
    PROVE  LET y == [x EXCEPT !.left = n, !.seen = S]
           IN  y \in Request /\ y.left = n /\ y.seen = S /\ SameFields(y, x, {"left", "seen"})
<1> DEFINE u == [x EXCEPT !.left = n]
<1>1. [x EXCEPT !.left = n, !.seen = S] = [u EXCEPT !.seen = S]
    OBVIOUS
<1>2. u \in Request /\ u.left = n /\ SameFields(u, x, {"left"})
    BY SetLeft
<1> HIDE DEF u
<1> QED
    BY <1>1, <1>2, SetSeen DEF SameFields

\* A request whose snapshot is settled.
LEMMA SetSettled ==
    ASSUME NEW x \in Request, NEW a \in Point, NEW n \in Nat, NEW S \in SUBSET Change
    PROVE  LET y == [x EXCEPT !.at = a, !.left = n, !.seen = S]
           IN  /\ y \in Request /\ y.at = a /\ y.seen = S
               /\ SameFields(y, x, {"at", "left", "seen"})
<1> DEFINE u == [x EXCEPT !.at = a]
<1>1. [x EXCEPT !.at = a, !.left = n, !.seen = S] = [u EXCEPT !.left = n, !.seen = S]
    OBVIOUS
<1>2. u \in Request /\ u.at = a /\ SameFields(u, x, {"at"})
    BY SetAt
<1> HIDE DEF u
<1>3. LET y == [u EXCEPT !.left = n, !.seen = S]
      IN  y \in Request /\ y.left = n /\ y.seen = S /\ SameFields(y, u, {"left", "seen"})
    BY <1>2, SetRead
<1> QED
    BY <1>1, <1>2, <1>3 DEF SameFields

\* A request that has looked into the cache.
LEMMA SetTold ==
    ASSUME NEW x \in Request, NEW a \in Point, NEW H \in SUBSET Change
    PROVE  LET y == [[x EXCEPT !.had = H] EXCEPT !.at = a]
           IN  y \in Request /\ y.at = a /\ y.had = H /\ SameFields(y, x, {"at", "had"})
<1> DEFINE h == [x EXCEPT !.had = H]
<1>1. h \in Request /\ h.had = H /\ SameFields(h, x, {"had"})
    BY SetHad
<1> HIDE DEF h
<1>2. LET y == [h EXCEPT !.at = a]
      IN  y \in Request /\ y.at = a /\ SameFields(y, h, {"at"})
    BY <1>1, SetAt
<1> QED
    BY <1>1, <1>2 DEF SameFields, h

\* One that found a snapshot there.
LEMMA SetShown ==
    ASSUME NEW x \in Request, NEW a \in Point, NEW H \in SUBSET Change, NEW S \in SUBSET Change
    PROVE  LET y == [[x EXCEPT !.had = H] EXCEPT !.at = a, !.seen = S]
           IN  /\ y \in Request /\ y.at = a /\ y.had = H /\ y.seen = S
               /\ SameFields(y, x, {"at", "had", "seen"})
<1> DEFINE h == [x EXCEPT !.had = H]
           k == [h EXCEPT !.at = a]
<1>1. [h EXCEPT !.at = a, !.seen = S] = [k EXCEPT !.seen = S]
    OBVIOUS
<1>2. k \in Request /\ k.at = a /\ k.had = H /\ SameFields(k, x, {"at", "had"})
    BY SetTold
<1> HIDE DEF k
<1> QED
    BY <1>1, <1>2, SetSeen DEF SameFields

\* One that waits for the snapshot another makes.
LEMMA SetWaiting ==
    ASSUME NEW x \in Request, NEW a \in Point, NEW H \in SUBSET Change,
           NEW j \in Reader \cup {Nobody}
    PROVE  LET y == [[x EXCEPT !.had = H] EXCEPT !.at = a, !.joined = j]
           IN  /\ y \in Request /\ y.at = a /\ y.had = H /\ y.joined = j
               /\ SameFields(y, x, {"at", "had", "joined"})
<1> DEFINE h == [x EXCEPT !.had = H]
           k == [h EXCEPT !.at = a]
<1>1. [h EXCEPT !.at = a, !.joined = j] = [k EXCEPT !.joined = j]
    OBVIOUS
<1>2. k \in Request /\ k.at = a /\ k.had = H /\ SameFields(k, x, {"at", "had"})
    BY SetTold
<1> HIDE DEF k
<1> QED
    BY <1>1, <1>2, SetJoined DEF SameFields

\* One request changes.
LEMMA Becoming ==
    ASSUME TypeInv, NEW r \in Reader, NEW new, Becomes(r, new)
    PROVE  /\ reader' = [q \in Reader |-> reader'[q]] /\ reader'[r] = new
           /\ \A q \in Reader : q # r => reader'[q] = reader[q]
BY DEF Becomes, TypeInv

\* The types are kept by a step after which each request still has its fields.
LEMMA TypeKept ==
    ASSUME TypeInv, UNCHANGED now, UNCHANGED <<windows, holder>>, UNCHANGED changes,
           cache' \in [Process -> Entries], faults' \in 0..MaxFaults,
           reader' = [q \in Reader |-> reader'[q]],
           \A q \in Reader : reader'[q] = reader[q] \/ RequestOk(reader'[q])
    PROVE  TypeInv'
BY DEF TypeInv, RequestOk, changes

-----------------------------------------------------------------------------
(* The windows.                                                             *)

\* A later instant is not in an earlier window.
LEMMA WindowMonotone ==
    ASSUME NEW s \in Nat, NEW t \in Nat, s <= t
    PROVE  WindowOf(s) \in Nat /\ WindowOf(t) \in Nat /\ WindowOf(s) <= WindowOf(t)
<1>1. Window \in Nat \ {0}
    BY MetricsAssumption
<1> DEFINE p == s \div Window
           q == t \div Window
<1>2. p \in Nat /\ Window * p <= s
    BY <1>1
<1>3. q \in Nat /\ t < Window * (q + 1)
    BY <1>1
<1> HIDE DEF p, q
<1>4. ASSUME q < p PROVE FALSE
  <2>1. Window * (q + 1) <= Window * p
    BY <1>1, <1>2, <1>3, <1>4
  <2>2. Window * p \in Nat /\ Window * (q + 1) \in Nat
    BY <1>1, <1>2, <1>3
  <2> QED
    BY <1>2, <1>3, <2>1, <2>2
<1> QED
    BY <1>2, <1>3, <1>4 DEF WindowOf, p, q

\* The window of a request is one of those there are, and not a future one.
LEMMA WindowsAre ==
    ASSUME TypeInv, NEW r \in Reader, reader[r].at \notin {"idle", "denied", "failed"}
    PROVE  MyWindow(r) \in 0..MaxWindow /\ MyWindow(r) <= WindowOf(now) /\ WindowOf(now) \in Nat
<1>1. reader[r].now \in 0..MaxTime /\ reader[r].now <= now /\ now \in 0..MaxTime
    BY AtWork DEF TypeInv
<1>2. MaxTime \in Nat
    BY MetricsAssumption
<1>3. MyWindow(r) \in Nat /\ MyWindow(r) <= WindowOf(now) /\ WindowOf(now) \in Nat
    BY <1>1, WindowMonotone DEF MyWindow
<1>4. MaxWindow \in Nat /\ MyWindow(r) <= MaxWindow
    BY <1>1, <1>2, WindowMonotone DEF MyWindow, MaxWindow
<1> QED
    BY <1>3, <1>4

AllowedOf(b, w) == {r \in AllowedIn(w) : reader[r].bucket = b}

\* Requests at the limiter are not so late that their window is gone; the one that
\* has the lock knows how many its window has counted.
LockInv ==
    \A r \in Reader :
        /\ reader[r].at \in {"begin", "locked"} => WindowOf(now) <= MyWindow(r) + Keep
        /\ reader[r].at = "locked" =>
               /\ MyWindow(r) \in DOMAIN windows /\ holder[MyWindow(r)] = r
               /\ reader[r].global = windows[MyWindow(r)].global

\* A window counts no fewer reads than it allowed, and no more as long as no call
\* failed; a window that is not there allowed none, or is too old to be made again.
CountOk(w) ==
    /\ IsFiniteSet(AllowedIn(w))
    /\ Cardinality(AllowedIn(w)) <= GlobalLimit
    /\ \A b \in Bucket : Cardinality(AllowedOf(b, w)) <= BucketLimit
    /\ w \notin DOMAIN windows => AllowedIn(w) = {} \/ w + Keep < WindowOf(now)
    /\ w \in DOMAIN windows =>
           /\ Cardinality(AllowedIn(w)) <= windows[w].global
           /\ \A b \in Bucket : Cardinality(AllowedOf(b, w)) <= windows[w].bucket[b]
           /\ faults = MaxFaults =>
                  /\ windows[w].global = Cardinality(AllowedIn(w))
                  /\ \A b \in Bucket : windows[w].bucket[b] = Cardinality(AllowedOf(b, w))

CountInv == \A w \in 0..MaxWindow : CountOk(w)

\* Nobody new is allowed, with the same window and browser as before.
NoneNew ==
    \A q \in Reader : Allowed(q)' =>
        Allowed(q) /\ reader'[q].now = reader[q].now /\ reader'[q].bucket = reader[q].bucket

\* And nobody fewer.
NoneLess == \A q \in Reader : Allowed(q) => Allowed(q)'

\* How many are allowed does not grow then.
LEMMA AllowedShrinks ==
    ASSUME NoneNew, NEW w, IsFiniteSet(AllowedIn(w))
    PROVE  /\ IsFiniteSet(AllowedIn(w)') /\ AllowedIn(w)' \subseteq AllowedIn(w)
           /\ Cardinality(AllowedIn(w)') <= Cardinality(AllowedIn(w))
           /\ \A b : Cardinality(AllowedOf(b, w)') <= Cardinality(AllowedOf(b, w))
           /\ Cardinality(AllowedIn(w)) \in Nat /\ Cardinality(AllowedIn(w)') \in Nat
           /\ \A b : Cardinality(AllowedOf(b, w)) \in Nat /\ Cardinality(AllowedOf(b, w)') \in Nat
           /\ NoneLess => AllowedIn(w)' = AllowedIn(w)
                          /\ \A b : AllowedOf(b, w)' = AllowedOf(b, w)
<1>1. AllowedIn(w)' \in SUBSET AllowedIn(w)
    BY DEF NoneNew, AllowedIn, MyWindow
<1>2. \A b : /\ AllowedOf(b, w)' \in SUBSET AllowedOf(b, w)
             /\ AllowedOf(b, w) \in SUBSET AllowedIn(w)
    BY <1>1 DEF NoneNew, AllowedIn, AllowedOf
<1>3. NoneLess => AllowedIn(w)' = AllowedIn(w)
    BY <1>1 DEF NoneNew, NoneLess, AllowedIn, MyWindow
<1>4. NoneLess => \A b : AllowedOf(b, w)' = AllowedOf(b, w)
    BY <1>3 DEF NoneNew, NoneLess, AllowedOf, AllowedIn
<1>5. \A b : IsFiniteSet(AllowedOf(b, w))
    BY <1>2, FS_Subset
<1>6. /\ IsFiniteSet(AllowedIn(w)') /\ Cardinality(AllowedIn(w)') <= Cardinality(AllowedIn(w))
      /\ \A b : IsFiniteSet(AllowedOf(b, w)')
                /\ Cardinality(AllowedOf(b, w)') <= Cardinality(AllowedOf(b, w))
    BY <1>1, <1>2, <1>5, FS_Subset
<1>7. /\ Cardinality(AllowedIn(w)) \in Nat /\ Cardinality(AllowedIn(w)') \in Nat
      /\ \A b : Cardinality(AllowedOf(b, w)) \in Nat /\ Cardinality(AllowedOf(b, w)') \in Nat
    BY <1>5, <1>6, FS_CardinalityType
<1> QED
    BY <1>1, <1>3, <1>4, <1>6, <1>7

\* A window whose counters are as they were, or larger after a failure, is right
\* about those who are still allowed.
LEMMA CountKept ==
    ASSUME TypeInv, NEW w \in 0..MaxWindow, CountOk(w), NoneNew,
           faults' \in 0..faults, faults' = faults => NoneLess, WindowOf(now) \in Nat,
           WindowOf(now') \in Nat, WindowOf(now) <= WindowOf(now'),
           w \in DOMAIN windows' => w \in DOMAIN windows /\ windows' \in [DOMAIN windows' -> WindowRow],
           w \in DOMAIN windows' =>
               \/ windows'[w] = windows[w]
               \/ /\ faults' # faults /\ windows'[w].global >= windows[w].global
                  /\ \A b \in Bucket : windows'[w].bucket[b] >= windows[w].bucket[b],
           w \in DOMAIN windows \ DOMAIN windows' => w + Keep < WindowOf(now')
    PROVE  CountOk(w)'
<1>1. /\ IsFiniteSet(AllowedIn(w)') /\ AllowedIn(w)' \subseteq AllowedIn(w)
      /\ Cardinality(AllowedIn(w)') <= Cardinality(AllowedIn(w))
      /\ \A b : Cardinality(AllowedOf(b, w)') <= Cardinality(AllowedOf(b, w))
      /\ Cardinality(AllowedIn(w)) \in Nat /\ Cardinality(AllowedIn(w)') \in Nat
      /\ \A b : Cardinality(AllowedOf(b, w)) \in Nat /\ Cardinality(AllowedOf(b, w)') \in Nat
      /\ NoneLess => AllowedIn(w)' = AllowedIn(w)
                     /\ \A b : AllowedOf(b, w)' = AllowedOf(b, w)
    BY AllowedShrinks DEF CountOk
<1>2. GlobalLimit \in Nat /\ BucketLimit \in Nat /\ Keep \in Nat /\ w \in Nat /\ faults \in 0..MaxFaults
      /\ MaxFaults \in Nat
    BY MetricsAssumption DEF TypeInv
<1>3. Cardinality(AllowedIn(w)') <= GlobalLimit
      /\ \A b \in Bucket : Cardinality(AllowedOf(b, w)') <= BucketLimit
    BY <1>1, <1>2 DEF CountOk
<1>4. w \notin DOMAIN windows' => AllowedIn(w)' = {} \/ w + Keep < WindowOf(now')
  <2>1. CASE w \in DOMAIN windows
    BY <2>1
  <2>2. CASE w \notin DOMAIN windows
    BY <1>1, <1>2, <2>2 DEF CountOk
  <2> QED
    BY <2>1, <2>2
<1>5. ASSUME w \in DOMAIN windows'
      PROVE  /\ Cardinality(AllowedIn(w)') <= windows'[w].global
             /\ \A b \in Bucket : Cardinality(AllowedOf(b, w)') <= windows'[w].bucket[b]
             /\ faults' = MaxFaults =>
                  /\ windows'[w].global = Cardinality(AllowedIn(w)')
                  /\ \A b \in Bucket : windows'[w].bucket[b] = Cardinality(AllowedOf(b, w)')
  <2>1. /\ windows[w] \in WindowRow /\ windows'[w] \in WindowRow
        /\ Cardinality(AllowedIn(w)) <= windows[w].global
        /\ \A b \in Bucket : Cardinality(AllowedOf(b, w)) <= windows[w].bucket[b]
    BY <1>5 DEF TypeInv, CountOk
  <2>2. /\ windows[w].global \in Nat /\ windows'[w].global \in Nat
        /\ \A b \in Bucket : windows[w].bucket[b] \in Nat /\ windows'[w].bucket[b] \in Nat
    BY <2>1 DEF WindowRow
  <2>3. windows'[w].global >= windows[w].global
        /\ \A b \in Bucket : windows'[w].bucket[b] >= windows[w].bucket[b]
    BY <1>5, <2>2
  <2>4. Cardinality(AllowedIn(w)') <= windows'[w].global
    BY <1>1, <2>1, <2>2, <2>3
  <2>5. \A b \in Bucket : Cardinality(AllowedOf(b, w)') <= windows'[w].bucket[b]
    BY <1>1, <2>1, <2>2, <2>3
  <2>6. faults' = MaxFaults => faults = MaxFaults /\ windows'[w] = windows[w] /\ NoneLess
    BY <1>2, <1>5
  <2> QED
    BY <1>1, <1>5, <2>4, <2>5, <2>6 DEF CountOk
<1> QED
    BY <1>1, <1>3, <1>4, <1>5 DEF CountOk

\* The limiter is right after a step elsewhere.
LEMMA LimitsKept ==
    ASSUME TypeInv, LockInv, CountInv, UNCHANGED <<now, windows, holder>>,
           faults' \in 0..faults, NoneNew, faults' = faults => NoneLess,
           \A q \in Reader :
               /\ reader'[q].at = "locked" => reader'[q] = reader[q]
               /\ reader'[q].at = "begin" => reader'[q] = reader[q] \/ reader'[q].now = now
    PROVE  LockInv' /\ CountInv'
<1>1. now \in Nat /\ Keep \in Nat /\ WindowOf(now) \in Nat /\ windows \in [DOMAIN windows -> WindowRow]
    BY MetricsAssumption, WindowMonotone DEF TypeInv
<1>2. LockInv'
  <2> SUFFICES ASSUME NEW q \in Reader
               PROVE  /\ reader'[q].at \in {"begin", "locked"} =>
                             WindowOf(now) <= WindowOf(reader'[q].now) + Keep
                      /\ reader'[q].at = "locked" =>
                             /\ WindowOf(reader'[q].now) \in DOMAIN windows
                             /\ holder[WindowOf(reader'[q].now)] = q
                             /\ reader'[q].global = windows[WindowOf(reader'[q].now)].global
    BY DEF LockInv, MyWindow
  <2>1. CASE reader'[q] = reader[q]
    BY <2>1 DEF LockInv, MyWindow
  <2>2. CASE reader'[q].now = now /\ reader'[q].at = "begin"
    BY <1>1, <2>2
  <2> QED
    BY <2>1, <2>2
<1>3. ASSUME NEW w \in 0..MaxWindow PROVE CountOk(w)'
  <2>1. CountOk(w)
    BY DEF CountInv
  <2> QED
    BY <1>1, <2>1, CountKept
<1> QED
    BY <1>2, <1>3 DEF CountInv

-----------------------------------------------------------------------------
(* The snapshots.                                                           *)

Committed == {c \in Change : committed[c] <= now}

\* A promised snapshot is being made by a reader of that process.
PromiseInv ==
    \A p \in Process : cache[p].kind = "pending" =>
        At(cache[p].by, "fill") /\ reader[cache[p].by].process = p

\* A snapshot shows the changes for which its process dropped the cache, and those
\* committed before it was begun.
SnapshotInv ==
    \A p \in Process : cache[p].kind = "payload" =>
        /\ cache[p].expires <= now + TTL
        /\ \A c \in Change : /\ p \in dropped[c] => c \in cache[p].seen
                             /\ committed[c] + TTL < cache[p].expires => c \in cache[p].seen

\* What a snapshot in the making shows: also the changes for which the cache was
\* dropped, as long as it is the one that was promised.
MakerOk(r) ==
    /\ reader[r].joined = Nobody
    /\ reader[r].had \subseteq reader[r].seen \cap Committed
    /\ \A c \in Change : committed[c] < reader[r].now => c \in reader[r].seen
    /\ MyCache(r) = Filling(r) => Told(r) \subseteq reader[r].seen

\* Who waits does so for a snapshot that shows what it must show.
JoinerOk(r) ==
    /\ reader[r].joined \in Reader /\ At(reader[r].joined, "fill")
    /\ reader[r].had \subseteq reader[reader[r].joined].seen \cap Committed

ShownOk(r) ==
    /\ reader[r].had \subseteq reader[r].seen
    /\ reader[r].joined = Nobody =>
           \A c \in Change : committed[c] + TTL <= reader[r].now => c \in reader[r].seen

ReadersInv ==
    \A r \in Reader :
        /\ reader[r].at \in {"begin", "locked", "lookup"} =>
               reader[r].seen = Change /\ reader[r].joined = Nobody
        /\ At(r, "fill") => MakerOk(r)
        /\ At(r, "join") => JoinerOk(r)
        /\ At(r, "done") => ShownOk(r)

DroppedInv == \A c \in Change : dropped[c] # {} => committed[c] <= now

FreshInv == PromiseInv /\ SnapshotInv /\ ReadersInv /\ DroppedInv

IInv == TypeInv /\ LockInv /\ CountInv /\ FreshInv

\* Nothing happens to the snapshots while a request is with the limiter.
LEMMA FreshKept ==
    ASSUME TypeInv, FreshInv, UNCHANGED <<now, committed, dropped, cache>>,
           \A q \in Reader :
               \/ reader'[q] = reader[q]
               \/ /\ reader[q].at \in {"idle", "begin", "locked"}
                  /\ \/ reader'[q].at \in {"denied", "failed"}
                     \/ /\ reader'[q].at \in {"begin", "locked", "lookup"}
                        /\ reader'[q].seen = Change /\ reader'[q].joined = Nobody
    PROVE  FreshInv'
<1>1. \A q \in Reader : reader[q].at = "fill" => reader'[q] = reader[q]
    OBVIOUS
<1>2. PromiseInv'
    BY <1>1 DEF FreshInv, PromiseInv, At, TypeInv, Entries
<1>3. SnapshotInv' /\ DroppedInv'
    BY DEF FreshInv, SnapshotInv, DroppedInv
<1>4. ASSUME NEW q \in Reader
      PROVE  /\ reader'[q].at \in {"begin", "locked", "lookup"} =>
                    reader'[q].seen = Change /\ reader'[q].joined = Nobody
             /\ At(q, "fill")' => MakerOk(q)'
             /\ At(q, "join")' => JoinerOk(q)'
             /\ At(q, "done")' => ShownOk(q)'
  <2>1. CASE reader'[q] = reader[q]
    <3>1. At(q, "fill")' => MakerOk(q)'
      BY <2>1 DEF FreshInv, ReadersInv, At, MakerOk, Committed, MyCache, Filling, Told
    <3>2. At(q, "join")' => JoinerOk(q)'
      BY <1>1, <2>1 DEF FreshInv, ReadersInv, At, JoinerOk, Committed
    <3>3. At(q, "done")' => ShownOk(q)'
      BY <2>1 DEF FreshInv, ReadersInv, At, ShownOk
    <3> QED
      BY <2>1, <3>1, <3>2, <3>3 DEF FreshInv, ReadersInv
  <2>2. CASE reader'[q] # reader[q]
    BY <2>2 DEF At
  <2> QED
    BY <2>1, <2>2
<1> QED
    BY <1>2, <1>3, <1>4 DEF FreshInv, ReadersInv

-----------------------------------------------------------------------------
(* The limiter                                                              *)

\* A request comes in.
LEMMA BeginKeeps == ASSUME IInv, NEW r \in Reader, Begin(r) PROVE IInv'
<1>1. PICK p \in Process, b \in Bucket : Becomes(r,
           [at |-> "begin", now |-> now, process |-> p, bucket |-> b, global |-> 0,
            left |-> Sources, seen |-> Change, had |-> {}, joined |-> Nobody])
    BY DEF Begin
<1> DEFINE new == [at |-> "begin", now |-> now, process |-> p, bucket |-> b, global |-> 0,
                   left |-> Sources, seen |-> Change, had |-> {}, joined |-> Nobody]
<1>2. /\ new \in Request /\ new.at = "begin" /\ new.now = now
      /\ new.seen = Change /\ new.joined = Nobody
  <2>1. now \in Nat /\ Sources \in Nat
    BY MetricsAssumption DEF IInv, TypeInv
  <2> QED
    BY <2>1 DEF Request, Point
<1>3. now <= now /\ reader[r].at = "idle" /\ UNCHANGED <<now, limiter, changes, cache, faults>>
    BY DEF Begin, At, IInv, TypeInv
<1> HIDE DEF new
<1>4. /\ reader' = [q \in Reader |-> reader'[q]] /\ reader'[r] = new
      /\ \A q \in Reader : q # r => reader'[q] = reader[q]
    BY <1>1, Becoming DEF IInv, new
<1>5. TypeInv'
  <2>1. RequestOk(new)
    BY <1>2, <1>3 DEF RequestOk, Point
  <2>2. RequestOk(reader'[r])
    BY <1>4, <2>1
  <2> QED
    BY <1>3, <1>4, <2>2, TypeKept DEF IInv, TypeInv, limiter
<1>6. NoneNew /\ NoneLess /\ faults \in 0..faults
  <2>1. ~ Allowed(r) /\ ~ Allowed(r)'
    BY <1>2, <1>3, <1>4 DEF Allowed
  <2>2. faults \in 0..faults
    BY MetricsAssumption DEF IInv, TypeInv
  <2> QED
    BY <1>4, <2>1, <2>2 DEF NoneNew, NoneLess, Allowed
<1>7. LockInv' /\ CountInv'
    BY <1>2, <1>3, <1>4, <1>6, LimitsKept DEF IInv, limiter
<1>8. FreshInv'
    BY <1>2, <1>3, <1>4, FreshKept DEF IInv, changes
<1> QED
    BY <1>5, <1>7, <1>8 DEF IInv

\* The windows too old are deleted, and that of the request is there and counts
\* what it counted.
LEMMA SweptAre ==
    ASSUME TypeInv, LockInv, NEW r \in Reader, reader[r].at = "begin"
    PROVE  LET w == MyWindow(r)
               swept == Swept(w)
           IN  /\ swept \in [DOMAIN swept -> WindowRow] /\ w \in DOMAIN swept
               /\ DOMAIN swept \subseteq DOMAIN windows \cup {w} /\ w \in 0..MaxWindow
               /\ \A v \in DOMAIN windows :
                      IF v \in DOMAIN swept THEN swept[v] = windows[v]
                      ELSE v + Keep < WindowOf(now) /\ v # w
               /\ w \notin DOMAIN windows => swept[w] = EmptyWindow
<1> DEFINE w == MyWindow(r)
           swept == Swept(w)
<1>1. w \in 0..MaxWindow /\ w <= WindowOf(now) /\ WindowOf(now) \in Nat /\ Keep \in Nat
    BY WindowsAre, MetricsAssumption
<1>2. MaxWindow \in Nat /\ DOMAIN windows \subseteq 0..MaxWindow
  <2>1. MaxTime \in Nat /\ 0 \in Nat /\ 0 <= MaxTime
    BY MetricsAssumption
  <2> QED
    BY <2>1, WindowMonotone DEF MaxWindow, TypeInv
<1>3. EmptyWindow \in WindowRow
    BY DEF EmptyWindow, WindowRow
<1> HIDE DEF w
<1>4. DOMAIN swept = {v \in DOMAIN windows : v + Keep >= w} \cup {w}
    BY DEF Swept
<1>5. \A v \in DOMAIN swept :
          swept[v] = IF v \in DOMAIN windows /\ v + Keep >= w THEN windows[v] ELSE EmptyWindow
    BY DEF Swept
<1>6. w + Keep >= w
    BY <1>1
<1>7. swept \in [DOMAIN swept -> WindowRow]
  <2>1. swept = [v \in DOMAIN swept |-> swept[v]]
    BY DEF Swept
  <2>2. \A v \in DOMAIN swept : swept[v] \in WindowRow
    BY <1>3, <1>5 DEF TypeInv
  <2> HIDE DEF swept
  <2> QED
    BY <2>1, <2>2
<1> HIDE DEF swept
<1>8. \A v \in DOMAIN windows :
          IF v \in DOMAIN swept THEN swept[v] = windows[v]
          ELSE v + Keep < WindowOf(now) /\ v # w
    BY <1>1, <1>2, <1>4, <1>5, <1>6
<1>9. w \notin DOMAIN windows => swept[w] = EmptyWindow
    BY <1>4, <1>5
<1> QED
    BY <1>1, <1>4, <1>7, <1>8, <1>9 DEF w, swept

\* A window that is made was never used.
LEMMA LockKeeps == ASSUME IInv, NEW r \in Reader, Lock(r) PROVE IInv'
<1> DEFINE w == MyWindow(r)
           swept == Swept(w)
           new == [reader[r] EXCEPT !.at = "locked", !.global = swept[w].global]
<1>1. reader[r].at = "begin" /\ reader[r] \in Request /\ reader[r].now <= now
    BY AtWork DEF Lock, At, IInv
<1>2. /\ swept \in [DOMAIN swept -> WindowRow] /\ w \in DOMAIN swept
      /\ DOMAIN swept \subseteq DOMAIN windows \cup {w} /\ w \in 0..MaxWindow
      /\ \A v \in DOMAIN windows : IF v \in DOMAIN swept THEN swept[v] = windows[v]
                                   ELSE v + Keep < WindowOf(now) /\ v # w
      /\ w \notin DOMAIN windows => swept[w] = EmptyWindow
    BY <1>1, SweptAre DEF IInv
<1>3. /\ windows' = swept /\ UNCHANGED <<now, committed, dropped, cache, faults>>
      /\ \A v \in {w} \cup (DOMAIN windows \ DOMAIN swept) : holder[v] = Nobody
      /\ \/ Leave(r, "denied") /\ UNCHANGED holder
         \/ holder' = [holder EXCEPT ![w] = r] /\ Becomes(r, new)
    BY DEF Lock, changes
<1> HIDE DEF swept
<1>4. /\ new \in Request /\ new.at = "locked" /\ new.global = swept[w].global
      /\ SameFields(new, reader[r], {"at", "global"})
  <2>1. swept[w].global \in Nat /\ "locked" \in Point
    BY <1>2 DEF WindowRow, Point
  <2> HIDE DEF w
  <2> QED
    BY <1>1, <2>1, SetLocked
<1> HIDE DEF new
<1>5. PICK x : Becomes(r, x) /\ \/ x = [at |-> "denied"] /\ UNCHANGED holder
                                \/ x = new /\ holder' = [holder EXCEPT ![w] = r]
    BY <1>3 DEF Leave
<1>6. /\ reader' = [q \in Reader |-> reader'[q]] /\ reader'[r] = x
      /\ \A q \in Reader : q # r => reader'[q] = reader[q]
    BY <1>5, Becoming DEF IInv
<1>7. /\ x.at \in {"denied", "locked"}
      /\ x.at = "locked" => x = new /\ holder' = [holder EXCEPT ![w] = r]
      /\ holder' = holder \/ holder' = [holder EXCEPT ![w] = r]
    BY <1>4, <1>5
<1>8. reader[r].seen = Change /\ reader[r].joined = Nobody
    BY <1>1 DEF IInv, FreshInv, ReadersInv
<1>9. FreshInv'
  <2>1. x.at = "denied" \/ (x.at = "locked" /\ x.seen = Change /\ x.joined = Nobody)
    BY <1>4, <1>7, <1>8 DEF SameFields
  <2> QED
    BY <1>1, <1>3, <1>6, <2>1, FreshKept DEF IInv
<1>10. RequestOk(x)
    BY <1>1, <1>4, <1>7 DEF RequestOk, SameFields, Point
<1>11. TypeInv'
  <2>1. DOMAIN windows' \subseteq 0..MaxWindow /\ windows' \in [DOMAIN windows' -> WindowRow]
    BY <1>2, <1>3 DEF IInv, TypeInv
  <2>2. holder' \in [0..MaxWindow -> Reader \cup {Nobody}]
    BY <1>5 DEF IInv, TypeInv
  <2>3. \A q \in Reader : RequestOk(reader[q])'
    BY <1>3, <1>6, <1>10 DEF IInv, TypeInv, RequestOk
  <2> QED
    BY <1>3, <1>6, <2>1, <2>2, <2>3 DEF IInv, TypeInv
<1>12. LockInv'
  <2> SUFFICES ASSUME NEW q \in Reader
               PROVE  /\ reader'[q].at \in {"begin", "locked"} =>
                             WindowOf(now) <= WindowOf(reader'[q].now) + Keep
                      /\ reader'[q].at = "locked" =>
                             /\ WindowOf(reader'[q].now) \in DOMAIN swept
                             /\ holder'[WindowOf(reader'[q].now)] = q
                             /\ reader'[q].global = swept[WindowOf(reader'[q].now)].global
    BY <1>3 DEF LockInv, MyWindow
  <2>1. CASE q = r
    <3>1. reader'[q] = x
      BY <1>6, <2>1
    <3>2. CASE x.at = "denied"
      BY <3>1, <3>2
    <3>3. CASE x.at = "locked"
      <4>1. x = new /\ x.now = reader[r].now /\ WindowOf(x.now) = w
        BY <1>4, <1>7, <3>3 DEF SameFields, MyWindow
      <4>2. holder'[w] = r
        BY <1>2, <1>7, <3>3 DEF IInv, TypeInv
      <4>3. WindowOf(now) <= w + Keep
        BY <1>1 DEF IInv, LockInv
      <4> QED
        BY <1>2, <1>4, <2>1, <3>1, <4>1, <4>2, <4>3
    <3> QED
      BY <1>7, <3>2, <3>3
  <2>2. CASE q # r
    <3>1. reader'[q] = reader[q] /\ WindowOf(reader[q].now) = MyWindow(q)
      BY <1>6, <2>2 DEF MyWindow
    <3>2. reader[q].at \in {"begin", "locked"} => WindowOf(now) <= MyWindow(q) + Keep
      BY DEF IInv, LockInv
    <3>3. ASSUME reader[q].at = "locked"
          PROVE  /\ MyWindow(q) \in DOMAIN swept /\ holder'[MyWindow(q)] = q
                 /\ reader[q].global = swept[MyWindow(q)].global
      <4>1. /\ MyWindow(q) \in DOMAIN windows /\ holder[MyWindow(q)] = q
            /\ reader[q].global = windows[MyWindow(q)].global
        BY <3>3 DEF IInv, LockInv
      <4>2. q # Nobody
        BY MetricsAssumption
      <4>3. MyWindow(q) # w /\ MyWindow(q) \in DOMAIN swept
        BY <1>3, <4>1, <4>2
      <4>4. holder'[MyWindow(q)] = holder[MyWindow(q)]
        BY <1>7, <4>1, <4>3 DEF IInv, TypeInv
      <4> QED
        BY <1>2, <4>1, <4>3, <4>4
    <3> QED
      BY <3>1, <3>2, <3>3
  <2> QED
    BY <2>1, <2>2
<1>13. NoneNew /\ NoneLess /\ faults' \in 0..faults
  <2>1. ~ Allowed(r) /\ ~ Allowed(r)'
    BY <1>1, <1>6, <1>7 DEF Allowed
  <2>2. faults' \in 0..faults
    BY <1>3, MetricsAssumption DEF IInv, TypeInv
  <2> QED
    BY <1>6, <2>1, <2>2 DEF NoneNew, NoneLess, Allowed
<1>14. ASSUME NEW v \in 0..MaxWindow PROVE CountOk(v)'
  <2>1. WindowOf(now) \in Nat /\ CountOk(v) /\ now' = now
    BY <1>1, <1>3, WindowsAre DEF IInv, CountInv
  <2>2. CASE v \in DOMAIN swept => v \in DOMAIN windows
    <3>1. v \in DOMAIN windows' => windows'[v] = windows[v]
      BY <1>2, <1>3, <2>2
    <3>2. v \in DOMAIN windows \ DOMAIN windows' => v + Keep < WindowOf(now')
      BY <1>2, <1>3
    <3>3. windows' \in [DOMAIN windows' -> WindowRow]
      BY <1>2, <1>3
    <3> QED
      BY <1>3, <1>13, <2>1, <2>2, <3>1, <3>2, <3>3, CountKept DEF IInv
  <2>3. CASE v \in DOMAIN swept /\ v \notin DOMAIN windows
    <3>1. v = w /\ swept[v] = EmptyWindow
      BY <1>2, <2>3
    <3>2. ~ (v + Keep < WindowOf(now))
      <4>1. WindowOf(now) <= w + Keep
        BY <1>1 DEF IInv, LockInv
      <4>2. w + Keep \in Nat
        BY <1>2, MetricsAssumption
      <4> QED
        BY <2>1, <3>1, <4>1, <4>2
    <3>3. AllowedIn(v) = {}
      BY <2>1, <2>3, <3>2 DEF CountOk
    <3>4. AllowedIn(v)' = {}
      BY <1>13, <3>3 DEF NoneNew, AllowedIn, MyWindow
    <3>5. \A b : AllowedOf(b, v)' = {}
      BY <3>4 DEF AllowedOf
    <3>6. swept[v].global = 0 /\ \A b \in Bucket : swept[v].bucket[b] = 0
      BY <3>1 DEF EmptyWindow
    <3>7. GlobalLimit \in Nat /\ BucketLimit \in Nat
      BY MetricsAssumption
    <3> QED
      BY <1>3, <2>3, <3>4, <3>5, <3>6, <3>7, FS_EmptySet DEF CountOk
  <2> QED
    BY <2>2, <2>3
<1> QED
    BY <1>9, <1>11, <1>12, <1>14 DEF IInv, CountInv

\* What a window counts of one more read that is allowed.
LEMMA CountedIs ==
    ASSUME TypeInv, LockInv, NEW r \in Reader, reader[r].at = "locked", Within(r)
    PROVE  LET w == MyWindow(r)
               b == reader[r].bucket
           IN  /\ w \in DOMAIN windows /\ w \in 0..MaxWindow /\ b \in Bucket
               /\ DOMAIN Counted(r) = DOMAIN windows
               /\ Counted(r) \in [DOMAIN windows -> WindowRow]
               /\ \A v \in DOMAIN windows : v # w => Counted(r)[v] = windows[v]
               /\ Counted(r)[w].global = windows[w].global + 1
               /\ \A c \in Bucket : Counted(r)[w].bucket[c] =
                      windows[w].bucket[c] + (IF c = b THEN 1 ELSE 0)
               /\ windows[w].global < GlobalLimit /\ windows[w].bucket[b] < BucketLimit
<1> DEFINE w == MyWindow(r)
           b == reader[r].bucket
           new == [global |-> windows[w].global + 1,
                   bucket |-> [windows[w].bucket EXCEPT ![b] = @ + 1]]
<1>1. w \in DOMAIN windows /\ windows[w] \in WindowRow /\ reader[r].global = windows[w].global
    BY DEF LockInv, TypeInv
<1>2. b \in Bucket /\ w \in 0..MaxWindow
    BY <1>1, AtWork DEF Request, TypeInv
<1>3. Counted(r) = [v \in DOMAIN windows |-> IF v = w THEN new ELSE windows[v]]
    BY <1>1, <1>2 DEF Counted, TypeInv
<1>4. windows[w].global < GlobalLimit /\ windows[w].bucket[b] < BucketLimit
    BY <1>1 DEF Within
<1> HIDE DEF w, b
<1>5. /\ new \in WindowRow /\ new.global = windows[w].global + 1
      /\ \A c \in Bucket : new.bucket[c] = windows[w].bucket[c] + (IF c = b THEN 1 ELSE 0)
    BY <1>1, <1>2 DEF WindowRow
<1> HIDE DEF new
<1>6. /\ DOMAIN Counted(r) = DOMAIN windows /\ Counted(r) \in [DOMAIN windows -> WindowRow]
      /\ Counted(r)[w] = new /\ \A v \in DOMAIN windows : v # w => Counted(r)[v] = windows[v]
    BY <1>1, <1>3, <1>5 DEF TypeInv
<1> QED
    BY <1>1, <1>2, <1>4, <1>5, <1>6 DEF w, b

\* The one that has the lock leaves it.
LEMMA DecideKeeps == ASSUME IInv, NEW r \in Reader, Decide(r) PROVE IInv'
<1> DEFINE w == MyWindow(r)
           b == reader[r].bucket
           new == [reader[r] EXCEPT !.at = "lookup", !.global = 0]
<1>1. /\ reader[r].at = "locked" /\ reader[r] \in Request /\ reader[r].now <= now
      /\ w \in DOMAIN windows /\ holder[w] = r /\ w \in 0..MaxWindow /\ b \in Bucket
      /\ faults \in Nat /\ MaxFaults \in Nat /\ GlobalLimit \in Nat /\ BucketLimit \in Nat
  <2>1. reader[r].at = "locked" /\ reader[r] \in Request /\ reader[r].now <= now
    BY AtWork DEF Decide, At, IInv
  <2>2. w \in DOMAIN windows /\ holder[w] = r
    BY <2>1 DEF IInv, LockInv
  <2>3. w \in 0..MaxWindow /\ b \in Bucket
    BY <2>1, <2>2 DEF IInv, TypeInv, Request
  <2>4. /\ faults \in Nat /\ MaxFaults \in Nat /\ GlobalLimit \in Nat /\ BucketLimit \in Nat
    BY MetricsAssumption DEF IInv, TypeInv
  <2> QED
    BY <2>1, <2>2, <2>3, <2>4
<1>2. /\ UNCHANGED <<now, committed, dropped, cache>>
      /\ holder' = [holder EXCEPT ![w] = IF @ = r THEN Nobody ELSE @]
      /\ \/ /\ windows' = Counted(r) /\ faults' = faults /\ Within(r) /\ Becomes(r, new)
         \/ windows' = windows /\ faults' = faults /\ Leave(r, "denied")
         \/ /\ windows' = windows \/ (windows' = Counted(r) /\ Within(r))
            /\ faults > 0 /\ faults' = faults - 1 /\ Leave(r, "failed")
    BY DEF Decide, changes, Admitted, Fails, Counted
<1>3. /\ new \in Request /\ new.at = "lookup" /\ SameFields(new, reader[r], {"at", "global"})
  <2>1. 0 \in Nat /\ "lookup" \in Point
    BY DEF Point
  <2> QED
    BY <1>1, <2>1, SetLocked
<1> HIDE DEF w, b, new
<1>4. PICK x : /\ Becomes(r, x)
               /\ x.at \in {"denied", "failed", "lookup"}
               /\ x.at = "lookup" <=> x = new
               /\ \/ x = new /\ windows' = Counted(r) /\ Within(r) /\ faults' = faults
                  \/ x.at = "denied" /\ windows' = windows /\ faults' = faults
                  \/ /\ x.at = "failed" /\ faults > 0 /\ faults' = faults - 1
                     /\ windows' = windows \/ (windows' = Counted(r) /\ Within(r))
  <2>1. CASE Becomes(r, new) /\ windows' = Counted(r) /\ Within(r) /\ faults' = faults
    BY <1>3, <2>1
  <2>2. CASE windows' = windows /\ faults' = faults /\ Leave(r, "denied")
    <3> DEFINE d == [at |-> "denied"]
    <3>1. d.at = "denied" /\ Becomes(r, d) /\ d # new
      BY <1>3, <2>2 DEF Leave
    <3> HIDE DEF d
    <3> QED
      BY <2>2, <3>1
  <2>3. CASE /\ windows' = windows \/ (windows' = Counted(r) /\ Within(r))
             /\ faults > 0 /\ faults' = faults - 1 /\ Leave(r, "failed")
    <3> DEFINE d == [at |-> "failed"]
    <3>1. d.at = "failed" /\ Becomes(r, d) /\ d # new
      BY <1>3, <2>3 DEF Leave
    <3> HIDE DEF d
    <3> QED
      BY <2>3, <3>1
  <2> QED
    BY <1>2, <2>1, <2>2, <2>3
<1>5. /\ reader' = [q \in Reader |-> reader'[q]] /\ reader'[r] = x
      /\ \A q \in Reader : q # r => reader'[q] = reader[q]
    BY <1>4, Becoming DEF IInv
<1>6. /\ holder' \in [0..MaxWindow -> Reader \cup {Nobody}]
      /\ \A v \in 0..MaxWindow : v # w => holder'[v] = holder[v]
    BY <1>1, <1>2 DEF IInv, TypeInv
<1>7. /\ DOMAIN windows' = DOMAIN windows /\ windows' \in [DOMAIN windows' -> WindowRow]
      /\ \A v \in DOMAIN windows : v # w => windows'[v] = windows[v]
  <2>1. CASE windows' = windows
    BY <2>1 DEF IInv, TypeInv
  <2>2. CASE windows' = Counted(r) /\ Within(r)
    BY <1>1, <2>2, CountedIs DEF IInv, w
  <2> QED
    BY <1>4, <2>1, <2>2
<1>8. FreshInv'
  <2>1. reader[r].seen = Change /\ reader[r].joined = Nobody
    BY <1>1 DEF IInv, FreshInv, ReadersInv
  <2>2. x.at = "lookup" => x.seen = Change /\ x.joined = Nobody
    BY <1>3, <1>4, <2>1 DEF SameFields
  <2> QED
    BY <1>1, <1>2, <1>4, <1>5, <2>2, FreshKept DEF IInv
<1>9. TypeInv'
  <2>1. RequestOk(x)
    BY <1>1, <1>3, <1>4 DEF RequestOk, SameFields, Point
  <2>2. \A q \in Reader : RequestOk(reader[q])'
    BY <1>2, <1>5, <2>1 DEF IInv, TypeInv, RequestOk
  <2>3. faults' \in 0..MaxFaults
    BY <1>1, <1>4 DEF IInv, TypeInv
  <2> QED
    BY <1>2, <1>5, <1>6, <1>7, <2>2, <2>3 DEF IInv, TypeInv
<1>10. LockInv'
  <2> SUFFICES ASSUME NEW q \in Reader
               PROVE  /\ reader'[q].at \in {"begin", "locked"} =>
                             WindowOf(now) <= WindowOf(reader'[q].now) + Keep
                      /\ reader'[q].at = "locked" =>
                             /\ WindowOf(reader'[q].now) \in DOMAIN windows'
                             /\ holder'[WindowOf(reader'[q].now)] = q
                             /\ reader'[q].global = windows'[WindowOf(reader'[q].now)].global
    BY <1>2 DEF LockInv, MyWindow
  <2>1. CASE q = r
    BY <1>4, <1>5, <2>1
  <2>2. CASE q # r
    <3>1. reader'[q] = reader[q] /\ WindowOf(reader[q].now) = MyWindow(q)
      BY <1>5, <2>2 DEF MyWindow
    <3>2. reader[q].at \in {"begin", "locked"} => WindowOf(now) <= MyWindow(q) + Keep
      BY DEF IInv, LockInv
    <3>3. ASSUME reader[q].at = "locked"
          PROVE  /\ MyWindow(q) \in DOMAIN windows' /\ holder'[MyWindow(q)] = q
                 /\ reader[q].global = windows'[MyWindow(q)].global
      <4>1. /\ MyWindow(q) \in DOMAIN windows /\ holder[MyWindow(q)] = q
            /\ reader[q].global = windows[MyWindow(q)].global
        BY <3>3 DEF IInv, LockInv
      <4>2. MyWindow(q) # w /\ MyWindow(q) \in 0..MaxWindow
        BY <1>1, <2>2, <4>1 DEF IInv, TypeInv
      <4> QED
        BY <1>6, <1>7, <4>1, <4>2
    <3> QED
      BY <3>1, <3>2, <3>3
  <2> QED
    BY <2>1, <2>2
<1>11. ~ Allowed(r) /\ (Allowed(r)' <=> x = new)
    BY <1>1, <1>4, <1>5 DEF Allowed
<1>12. ASSUME NEW v \in 0..MaxWindow PROVE CountOk(v)'
  <2>1. WindowOf(now) \in Nat /\ CountOk(v) /\ now' = now
    BY <1>1, <1>2, WindowsAre DEF IInv, CountInv
  <2>2. CASE x # new
    <3>1. NoneNew /\ NoneLess
      BY <1>5, <1>11, <2>2 DEF NoneNew, NoneLess, Allowed
    <3>2. faults' \in 0..faults
      BY <1>1, <1>4
    <3>3. v \in DOMAIN windows' =>
              \/ windows'[v] = windows[v]
              \/ /\ faults' # faults /\ windows'[v].global >= windows[v].global
                 /\ \A c \in Bucket : windows'[v].bucket[c] >= windows[v].bucket[c]
      <4>1. CASE windows' = windows
        BY <4>1
      <4>2. CASE x.at = "failed" /\ faults' = faults - 1 /\ windows' = Counted(r) /\ Within(r)
        <5>1. v # w => windows'[v] = windows[v] \/ v \notin DOMAIN windows'
          BY <1>7
        <5>2. ASSUME v = w
              PROVE  /\ windows'[v].global = windows[v].global + 1
                     /\ \A c \in Bucket : windows'[v].bucket[c] =
                            windows[v].bucket[c] + (IF c = b THEN 1 ELSE 0)
          BY <1>1, <4>2, <5>2, CountedIs DEF IInv, w, b
        <5>3. v = w => windows[v].global \in Nat
                       /\ \A c \in Bucket : windows[v].bucket[c] \in Nat
          <6>1. windows[w] \in WindowRow
            BY <1>1 DEF IInv, TypeInv
          <6> QED
            BY <6>1 DEF WindowRow
        <5>4. v = w => /\ windows'[v].global >= windows[v].global
                       /\ \A c \in Bucket : windows'[v].bucket[c] >= windows[v].bucket[c]
          BY <5>2, <5>3
        <5>5. faults' # faults
          BY <1>1, <4>2
        <5> QED
          BY <5>1, <5>4, <5>5
      <4> QED
        BY <1>4, <2>2, <4>1, <4>2
    <3> QED
      BY <1>7, <2>1, <3>1, <3>2, <3>3, CountKept DEF IInv
  <2>3. CASE x = new
    <3>1. /\ x.at = "lookup" /\ windows' = Counted(r) /\ Within(r) /\ faults' = faults
          /\ x.now = reader[r].now /\ x.bucket = b
      <4>1. x.at = "lookup"
        BY <1>3, <2>3
      <4> QED
        BY <1>3, <1>4, <2>3, <4>1 DEF SameFields, b
    <3>2. /\ windows[w].global < GlobalLimit /\ windows[w].bucket[b] < BucketLimit
          /\ windows'[w].global = windows[w].global + 1
          /\ \A c \in Bucket : windows'[w].bucket[c] =
                 windows[w].bucket[c] + (IF c = b THEN 1 ELSE 0)
      BY <1>1, <3>1, CountedIs DEF IInv, w, b
    <3>3. windows[w].global \in Nat /\ \A c \in Bucket : windows[w].bucket[c] \in Nat
      <4>1. windows[w] \in WindowRow
        BY <1>1 DEF IInv, TypeInv
      <4> QED
        BY <4>1 DEF WindowRow
    <3>4. \A q \in Reader : q # r => (Allowed(q)' <=> Allowed(q)) /\ reader'[q] = reader[q]
      BY <1>5 DEF Allowed
    <3>5. AllowedIn(v)' = IF v = w THEN AllowedIn(v) \cup {r} ELSE AllowedIn(v)
      BY <1>5, <1>11, <2>3, <3>1, <3>4 DEF AllowedIn, MyWindow, w
    <3>6. r \notin AllowedIn(v)
      BY <1>11 DEF AllowedIn
    <3>7. \A c : AllowedOf(c, v)' = IF v = w /\ c = b THEN AllowedOf(c, v) \cup {r}
                                    ELSE AllowedOf(c, v)
      <4> SUFFICES ASSUME NEW c
                   PROVE  AllowedOf(c, v)' = IF v = w /\ c = b THEN AllowedOf(c, v) \cup {r}
                                             ELSE AllowedOf(c, v)
        OBVIOUS
      <4>1. AllowedOf(c, v)' = {q \in AllowedIn(v)' : reader'[q].bucket = c}
        BY DEF AllowedOf
      <4>2. \A q \in AllowedIn(v) : q \in Reader /\ q # r /\ reader'[q].bucket = reader[q].bucket
        BY <3>4, <3>6 DEF AllowedIn
      <4>3. reader'[r].bucket = b
        BY <1>5, <3>1
      <4> QED
        BY <3>5, <4>1, <4>2, <4>3 DEF AllowedOf
    <3>8. \A c : IsFiniteSet(AllowedOf(c, v)) /\ r \notin AllowedOf(c, v)
      <4>1. \A c : AllowedOf(c, v) \in SUBSET AllowedIn(v)
        BY DEF AllowedOf
      <4> QED
        BY <2>1, <3>6, <4>1, FS_Subset DEF CountOk
    <3>9. CASE v # w
      BY <1>2, <1>7, <2>1, <3>1, <3>5, <3>7, <3>9 DEF CountOk
    <3>10. CASE v = w
      <4>1. /\ IsFiniteSet(AllowedIn(v)')
            /\ Cardinality(AllowedIn(v)') = Cardinality(AllowedIn(v)) + 1
            /\ Cardinality(AllowedIn(v)) \in Nat
        BY <2>1, <3>5, <3>6, <3>10, FS_AddElement, FS_CardinalityType DEF CountOk
      <4>2. \A c : /\ Cardinality(AllowedOf(c, v)) \in Nat
                   /\ Cardinality(AllowedOf(c, v)') =
                          Cardinality(AllowedOf(c, v)) + (IF c = b THEN 1 ELSE 0)
        <5> SUFFICES ASSUME NEW c
                     PROVE  /\ Cardinality(AllowedOf(c, v)) \in Nat
                            /\ Cardinality(AllowedOf(c, v)') =
                                   Cardinality(AllowedOf(c, v)) + (IF c = b THEN 1 ELSE 0)
          OBVIOUS
        <5>1. Cardinality(AllowedOf(c, v)) \in Nat
          BY <3>8, FS_CardinalityType
        <5>2. Cardinality(AllowedOf(c, v) \cup {r}) = Cardinality(AllowedOf(c, v)) + 1
          BY <3>8, FS_AddElement
        <5> QED
          BY <3>7, <3>10, <5>1, <5>2
      <4>3. /\ Cardinality(AllowedIn(v)) <= windows[v].global
            /\ \A c \in Bucket : Cardinality(AllowedOf(c, v)) <= windows[v].bucket[c]
            /\ \A c \in Bucket : Cardinality(AllowedOf(c, v)) <= BucketLimit
            /\ faults = MaxFaults =>
                   /\ windows[v].global = Cardinality(AllowedIn(v))
                   /\ \A c \in Bucket : windows[v].bucket[c] = Cardinality(AllowedOf(c, v))
        BY <1>1, <2>1, <3>10 DEF CountOk
      <4>4. Cardinality(AllowedIn(v)') <= GlobalLimit
            /\ Cardinality(AllowedIn(v)') <= windows'[v].global
        BY <1>1, <3>2, <3>3, <3>10, <4>1, <4>3
      <4>5. \A c \in Bucket : /\ Cardinality(AllowedOf(c, v)') <= BucketLimit
                              /\ Cardinality(AllowedOf(c, v)') <= windows'[v].bucket[c]
        BY <1>1, <3>2, <3>3, <3>10, <4>2, <4>3
      <4>6. faults' = MaxFaults =>
                /\ windows'[v].global = Cardinality(AllowedIn(v)')
                /\ \A c \in Bucket : windows'[v].bucket[c] = Cardinality(AllowedOf(c, v)')
        BY <3>1, <3>2, <3>3, <3>10, <4>1, <4>2, <4>3
      <4> QED
        BY <1>1, <1>7, <3>10, <4>1, <4>4, <4>5, <4>6 DEF CountOk
    <3> QED
      BY <3>9, <3>10
  <2> QED
    BY <2>2, <2>3
<1> QED
    BY <1>8, <1>9, <1>10, <1>12 DEF IInv, CountInv

-----------------------------------------------------------------------------
(* The cache                                                                *)

\* A request that is allowed stays allowed, with its window and its browser.
LEMMA SameAllowed ==
    ASSUME NEW F,
           \A q \in Reader :
               \/ reader'[q] = reader[q]
               \/ Allowed(q) /\ Allowed(q)' /\ SameFields(reader'[q], reader[q], F)
    PROVE  NoneNew /\ NoneLess
<1>1. \A q \in Reader : Allowed(q) <=> Allowed(q)'
    BY DEF Allowed
<1> QED
    BY <1>1 DEF NoneNew, NoneLess, SameFields

\* What is promised is right after the step of a reader that neither makes a
\* snapshot nor begins one, as the entries stay.
LEMMA PromisesStay ==
    ASSUME TypeInv, PromiseInv, UNCHANGED cache,
           \A q \in Reader : reader[q].at = "fill" =>
               reader'[q].at = "fill" /\ reader'[q].process = reader[q].process
    PROVE  PromiseInv'
BY DEF PromiseInv, At, TypeInv, Entries

\* Each reader that stays where it is sees its snapshot as before, if the makers
\* do.
LEMMA ReaderStays ==
    ASSUME TypeInv, ReadersInv, UNCHANGED <<now, committed, dropped>>, NEW q \in Reader,
           reader'[q] = reader[q],
           cache'[reader[q].process] = Filling(q) => cache[reader[q].process] = Filling(q),
           At(q, "join") => reader'[reader[q].joined] = reader[reader[q].joined]
    PROVE  /\ reader'[q].at \in {"begin", "locked", "lookup"} =>
                  reader'[q].seen = Change /\ reader'[q].joined = Nobody
           /\ At(q, "fill")' => MakerOk(q)'
           /\ At(q, "join")' => JoinerOk(q)'
           /\ At(q, "done")' => ShownOk(q)'
<1>1. At(q, "fill")' => MakerOk(q)'
    BY DEF ReadersInv, At, MakerOk, Committed, MyCache, Filling, Told
<1>2. At(q, "join")' => JoinerOk(q)'
    BY DEF ReadersInv, At, JoinerOk, Committed
<1>3. At(q, "done")' => ShownOk(q)'
    BY DEF ReadersInv, At, ShownOk
<1> QED
    BY <1>1, <1>2, <1>3 DEF ReadersInv

\* A reader finds a snapshot, one that is being made, or neither.
LEMMA LookupKeeps == ASSUME IInv, NEW r \in Reader, Lookup(r) PROVE IInv'
<1> DEFINE p == reader[r].process
           entry == cache[p]
           H == Told(r)
<1>1. /\ reader[r].at = "lookup" /\ reader[r] \in Request /\ reader[r].now <= now
      /\ reader[r].seen = Change /\ reader[r].joined = Nobody
      /\ UNCHANGED <<now, windows, holder, committed, dropped, faults>>
    BY AtWork DEF Lookup, At, limiter, changes, IInv, FreshInv, ReadersInv
<1>2. p \in Process /\ entry \in Entries /\ now \in Nat /\ reader[r].now \in Nat
    BY <1>1 DEF Request, IInv, TypeInv
<1>3. H \in SUBSET Change /\ H \subseteq Committed
    BY <1>2 DEF Told, Committed, IInv, FreshInv, DroppedInv
<1>4. \/ /\ entry.kind = "payload" /\ entry.expires > reader[r].now /\ UNCHANGED cache
         /\ Becomes(r, [[reader[r] EXCEPT !.had = H] EXCEPT !.at = "done", !.seen = entry.seen])
      \/ /\ entry.kind = "pending" /\ UNCHANGED cache
         /\ Becomes(r, [[reader[r] EXCEPT !.had = H] EXCEPT !.at = "join", !.joined = entry.by])
      \/ /\ entry.kind # "pending" /\ Entry(r, Filling(r))
         /\ Becomes(r, [[reader[r] EXCEPT !.had = H] EXCEPT !.at = "fill"])
    BY DEF Lookup, MyCache
<1>5. {"done", "join", "fill"} \subseteq Point
    BY DEF Point
<1>6. ASSUME NEW x \in Request, Becomes(r, x), x.at \in {"done", "join", "fill"}, NEW F,
             SameFields(x, reader[r], F), cache' \in [Process -> Entries]
      PROVE  /\ reader'[r] = x /\ \A q \in Reader : q # r => reader'[q] = reader[q]
             /\ TypeInv' /\ LockInv' /\ CountInv'
  <2>1. /\ reader' = [q \in Reader |-> reader'[q]] /\ reader'[r] = x
        /\ \A q \in Reader : q # r => reader'[q] = reader[q]
    BY <1>6, Becoming DEF IInv
  <2>2. RequestOk(reader'[r])
    BY <1>1, <1>5, <1>6, <2>1 DEF RequestOk, SameFields
  <2>3. TypeInv'
    BY <1>1, <1>6, <2>1, <2>2, TypeKept DEF IInv, changes, TypeInv
  <2>4. Allowed(r) /\ Allowed(r)' /\ SameFields(reader'[r], reader[r], F)
    BY <1>1, <1>6, <2>1 DEF Allowed
  <2>5. NoneNew /\ NoneLess
    BY <2>1, <2>4, SameAllowed
  <2>6. faults' \in 0..faults
    BY <1>1 DEF IInv, TypeInv
  <2>7. LockInv' /\ CountInv'
    BY <1>1, <1>6, <2>1, <2>5, <2>6, LimitsKept DEF IInv
  <2> QED
    BY <2>1, <2>3, <2>7
<1> HIDE DEF H
<1>7. CASE /\ entry.kind = "payload" /\ entry.expires > reader[r].now /\ UNCHANGED cache
           /\ Becomes(r, [[reader[r] EXCEPT !.had = H] EXCEPT !.at = "done", !.seen = entry.seen])
  <2> DEFINE x == [[reader[r] EXCEPT !.had = H] EXCEPT !.at = "done", !.seen = entry.seen]
  <2>1. /\ entry.seen \in SUBSET Change /\ entry.expires \in Nat
    BY <1>2, <1>7 DEF Entries
  <2>2. /\ x \in Request /\ x.at = "done" /\ x.had = H /\ x.seen = entry.seen
        /\ SameFields(x, reader[r], {"at", "had", "seen"})
    <3>1. reader[r] \in Request /\ "done" \in Point /\ H \in SUBSET Change
      BY <1>1, <1>3, <1>5
    <3> HIDE DEF entry
    <3> QED
      BY <2>1, <3>1, SetShown
  <2> HIDE DEF x
  <2>3. /\ reader'[r] = x /\ \A q \in Reader : q # r => reader'[q] = reader[q]
        /\ TypeInv' /\ LockInv' /\ CountInv'
    BY <1>6, <1>7, <2>2 DEF x, IInv, TypeInv
  <2>4. /\ \A c \in Change : p \in dropped[c] => c \in entry.seen
        /\ \A c \in Change : committed[c] + TTL < entry.expires => c \in entry.seen
    BY <1>2, <1>7 DEF IInv, FreshInv, SnapshotInv
  <2>5. ShownOk(r)'
    <3>1. H \subseteq entry.seen
      BY <2>4 DEF H, Told
    <3>2. ASSUME NEW c \in Change, committed[c] + TTL <= reader[r].now PROVE c \in entry.seen
      <4>1. committed[c] + TTL \in Nat
        BY MetricsAssumption DEF IInv, TypeInv
      <4> QED
        BY <1>2, <1>7, <2>1, <2>4, <3>2, <4>1
    <3>3. x.now = reader[r].now
      BY <2>2 DEF SameFields
    <3> QED
      BY <1>1, <2>2, <2>3, <3>1, <3>2, <3>3 DEF ShownOk
  <2>6. PromiseInv' /\ SnapshotInv' /\ DroppedInv'
    <3>1. PromiseInv'
      BY <1>1, <1>7, <2>3, PromisesStay DEF IInv, FreshInv
    <3> QED
      BY <1>1, <1>7, <3>1 DEF IInv, FreshInv, SnapshotInv, DroppedInv
  <2>7. ReadersInv'
    <3>1. ASSUME NEW q \in Reader, q # r
          PROVE  /\ reader'[q].at \in {"begin", "locked", "lookup"} =>
                        reader'[q].seen = Change /\ reader'[q].joined = Nobody
                 /\ At(q, "fill")' => MakerOk(q)'
                 /\ At(q, "join")' => JoinerOk(q)'
                 /\ At(q, "done")' => ShownOk(q)'
      <4>1. At(q, "join") => reader'[reader[q].joined] = reader[reader[q].joined]
        BY <1>1, <2>3 DEF IInv, FreshInv, ReadersInv, JoinerOk, At
      <4> QED
        BY <1>1, <1>7, <2>3, <3>1, <4>1, ReaderStays DEF IInv, FreshInv
    <3> QED
      BY <2>2, <2>3, <2>5, <3>1 DEF ReadersInv, At
  <2> QED
    BY <2>3, <2>6, <2>7 DEF IInv, FreshInv
<1>8. CASE /\ entry.kind = "pending" /\ UNCHANGED cache
           /\ Becomes(r, [[reader[r] EXCEPT !.had = H] EXCEPT !.at = "join", !.joined = entry.by])
  <2> DEFINE j == entry.by
             x == [[reader[r] EXCEPT !.had = H] EXCEPT !.at = "join", !.joined = j]
  <2>1. j \in Reader /\ entry = Filling(j)
    BY <1>2, <1>8 DEF Entries, Filling
  <2>2. /\ x \in Request /\ x.at = "join" /\ x.had = H /\ x.joined = j
        /\ SameFields(x, reader[r], {"at", "had", "joined"})
    <3>1. reader[r] \in Request /\ "join" \in Point /\ H \in SUBSET Change
      BY <1>1, <1>3, <1>5
    <3> HIDE DEF j
    <3> QED
      BY <2>1, <3>1, SetWaiting
  <2> HIDE DEF x
  <2>3. /\ reader'[r] = x /\ \A q \in Reader : q # r => reader'[q] = reader[q]
        /\ TypeInv' /\ LockInv' /\ CountInv'
    BY <1>6, <1>8, <2>2 DEF x, IInv, TypeInv
  <2>4. reader[j].at = "fill" /\ reader[j].process = p
    BY <1>2, <1>8 DEF IInv, FreshInv, PromiseInv, At
  <2>5. H \subseteq reader[j].seen
    <3>1. Told(j) \subseteq reader[j].seen
      BY <2>1, <2>4 DEF IInv, FreshInv, ReadersInv, At, MakerOk, MyCache
    <3> QED
      BY <2>4, <3>1 DEF H, Told
  <2>6. JoinerOk(r)'
    <3>1. j # r /\ reader'[j] = reader[j]
      BY <1>1, <2>1, <2>3, <2>4
    <3>2. Committed' = Committed
      BY <1>1 DEF Committed
    <3>3. reader'[r].joined = j /\ reader'[r].had = H
      BY <2>2, <2>3
    <3> QED
      BY <1>3, <2>1, <2>4, <2>5, <3>1, <3>2, <3>3 DEF JoinerOk, At
  <2>7. PromiseInv' /\ SnapshotInv' /\ DroppedInv'
    <3>1. PromiseInv'
      BY <1>1, <1>8, <2>3, PromisesStay DEF IInv, FreshInv
    <3> QED
      BY <1>1, <1>8, <3>1 DEF IInv, FreshInv, SnapshotInv, DroppedInv
  <2>8. ReadersInv'
    <3>1. ASSUME NEW q \in Reader, q # r
          PROVE  /\ reader'[q].at \in {"begin", "locked", "lookup"} =>
                        reader'[q].seen = Change /\ reader'[q].joined = Nobody
                 /\ At(q, "fill")' => MakerOk(q)'
                 /\ At(q, "join")' => JoinerOk(q)'
                 /\ At(q, "done")' => ShownOk(q)'
      <4>1. At(q, "join") => reader'[reader[q].joined] = reader[reader[q].joined]
        BY <1>1, <2>3 DEF IInv, FreshInv, ReadersInv, JoinerOk, At
      <4> QED
        BY <1>1, <1>8, <2>3, <3>1, <4>1, ReaderStays DEF IInv, FreshInv
    <3> QED
      BY <2>2, <2>3, <2>6, <3>1 DEF ReadersInv, At
  <2> QED
    BY <2>3, <2>7, <2>8 DEF IInv, FreshInv
<1>9. CASE /\ entry.kind # "pending" /\ Entry(r, Filling(r))
           /\ Becomes(r, [[reader[r] EXCEPT !.had = H] EXCEPT !.at = "fill"])
  <2> DEFINE x == [[reader[r] EXCEPT !.had = H] EXCEPT !.at = "fill"]
  <2>1. /\ x \in Request /\ x.at = "fill" /\ x.had = H /\ SameFields(x, reader[r], {"at", "had"})
    BY <1>1, <1>3, <1>5, SetTold
  <2>2. /\ cache' \in [Process -> Entries] /\ cache'[p] = Filling(r)
        /\ \A o \in Process : o # p => cache'[o] = cache[o]
    <3>1. Filling(r) \in Entries
      BY DEF Filling, Entries
    <3> QED
      BY <1>2, <1>9, <3>1 DEF Entry, IInv, TypeInv
  <2> HIDE DEF x
  <2>3. /\ reader'[r] = x /\ \A q \in Reader : q # r => reader'[q] = reader[q]
        /\ TypeInv' /\ LockInv' /\ CountInv'
    BY <1>6, <1>9, <2>1, <2>2 DEF x
  <2>4. x.seen = Change /\ x.joined = Nobody /\ x.process = p /\ x.now = reader[r].now
    BY <1>1, <2>1 DEF SameFields
  <2>5. MakerOk(r)'
    <3>1. Committed' = Committed /\ Told(r)' \subseteq Change
      BY <1>1 DEF Committed, Told
    <3> QED
      BY <1>3, <2>1, <2>3, <2>4, <3>1 DEF MakerOk
  <2>6. PromiseInv'
    <3> SUFFICES ASSUME NEW o \in Process, cache'[o].kind = "pending"
                 PROVE  reader'[cache'[o].by].at = "fill" /\ reader'[cache'[o].by].process = o
      BY DEF PromiseInv, At
    <3>1. CASE o = p
      BY <2>1, <2>2, <2>3, <2>4, <3>1 DEF At, Filling
    <3>2. CASE o # p
      <4>1. /\ cache'[o] = cache[o] /\ At(cache[o].by, "fill")
            /\ reader[cache[o].by].process = o /\ cache[o].by \in Reader
        BY <2>2, <3>2 DEF IInv, FreshInv, PromiseInv, TypeInv, Entries
      <4>2. cache[o].by # r
        BY <1>1, <4>1 DEF At
      <4> QED
        BY <2>3, <4>1, <4>2 DEF At
    <3> QED
      BY <3>1, <3>2
  <2>7. SnapshotInv' /\ DroppedInv'
    <3>1. cache'[p].kind # "payload"
      BY <2>2 DEF Filling
    <3> QED
      BY <1>1, <2>2, <3>1 DEF IInv, FreshInv, SnapshotInv, DroppedInv
  <2>8. ReadersInv'
    <3>1. ASSUME NEW q \in Reader, q # r
          PROVE  /\ reader'[q].at \in {"begin", "locked", "lookup"} =>
                        reader'[q].seen = Change /\ reader'[q].joined = Nobody
                 /\ At(q, "fill")' => MakerOk(q)'
                 /\ At(q, "join")' => JoinerOk(q)'
                 /\ At(q, "done")' => ShownOk(q)'
      <4>1. At(q, "join") => reader'[reader[q].joined] = reader[reader[q].joined]
        BY <1>1, <2>3 DEF IInv, FreshInv, ReadersInv, JoinerOk, At
      <4>2. cache'[reader[q].process] = Filling(q) => cache[reader[q].process] = Filling(q)
        <5>1. Filling(q) # Filling(r)
          BY <3>1 DEF Filling
        <5>2. cache' = [cache EXCEPT ![p] = Filling(r)]
          BY <1>9 DEF Entry
        <5>3. DOMAIN cache = Process /\ DOMAIN cache' = Process
          BY <2>2 DEF IInv, TypeInv
        <5>4. CASE reader[q].process = p
          BY <2>2, <5>1, <5>4
        <5>5. CASE reader[q].process # p
          BY <5>2, <5>5 DEF IInv, TypeInv
        <5> QED
          BY <5>4, <5>5
      <4> QED
        BY <1>1, <2>3, <3>1, <4>1, <4>2, ReaderStays DEF IInv, FreshInv
    <3> QED
      BY <2>1, <2>3, <2>5, <3>1 DEF ReadersInv, At
  <2> QED
    BY <2>3, <2>6, <2>7, <2>8 DEF IInv, FreshInv
<1> QED
  <2> HIDE DEF p, entry
  <2> QED
    BY <1>4, <1>7, <1>8, <1>9

\* A source is read: what the snapshot has seen was committed.
LEMMA ReadSourceKeeps == ASSUME IInv, NEW r \in Reader, ReadSource(r) PROVE IInv'
<1> DEFINE S == reader[r].seen \cap Committed
           n == reader[r].left - 1
           y == reader[r]
           x == [y EXCEPT !.left = n, !.seen = S]
<1>1. /\ reader[r].at = "fill" /\ reader[r] \in Request /\ reader[r].now <= now
      /\ UNCHANGED <<now, windows, holder, committed, dropped, cache, faults>>
    BY AtWork DEF ReadSource, At, limiter, changes, IInv
<1>2. Becomes(r, x)
    BY DEF ReadSource, Committed
<1>3. n \in Nat /\ S \in SUBSET Change /\ now \in Nat /\ reader[r].now \in Nat
    BY <1>1 DEF ReadSource, Request, IInv, TypeInv
<1>4. /\ x \in Request /\ x.seen = S /\ SameFields(x, reader[r], {"left", "seen"})
  <2>1. y \in Request
    BY <1>1
  <2> HIDE DEF n, S, y
  <2>2. x \in Request /\ x.left = n /\ x.seen = S /\ SameFields(x, y, {"left", "seen"})
    BY <1>3, <2>1, SetRead
  <2> QED
    BY <2>2 DEF y
<1> HIDE DEF x
<1>5. /\ reader' = [q \in Reader |-> reader'[q]] /\ reader'[r] = x
      /\ \A q \in Reader : q # r => reader'[q] = reader[q]
    BY <1>2, Becoming DEF IInv
<1>6. /\ x.at = "fill" /\ x.joined = reader[r].joined /\ x.had = reader[r].had
      /\ x.process = reader[r].process /\ x.now = reader[r].now
    BY <1>1, <1>4 DEF SameFields
<1>7. TypeInv'
  <2>1. RequestOk(reader'[r])
    BY <1>1, <1>4, <1>5, <1>6 DEF RequestOk, Point
  <2> QED
    BY <1>1, <1>5, <2>1, TypeKept DEF IInv, changes, TypeInv
<1>8. LockInv' /\ CountInv'
  <2>1. Allowed(r) /\ Allowed(r)' /\ SameFields(reader'[r], reader[r], {"left", "seen"})
    BY <1>1, <1>4, <1>5, <1>6 DEF Allowed
  <2>2. NoneNew /\ NoneLess
    BY <1>5, <2>1, SameAllowed
  <2>3. faults' \in 0..faults
    BY <1>1 DEF IInv, TypeInv
  <2> QED
    BY <1>1, <1>5, <1>6, <2>2, <2>3, LimitsKept DEF IInv
<1>9. PromiseInv'
    BY <1>1, <1>5, <1>6, PromisesStay DEF IInv, FreshInv
<1>10. SnapshotInv' /\ DroppedInv'
    BY <1>1 DEF IInv, FreshInv, SnapshotInv, DroppedInv
<1>11. Committed' = Committed
    BY <1>1 DEF Committed
<1>12. MakerOk(r)'
  <2>1. MakerOk(r)
    BY <1>1 DEF IInv, FreshInv, ReadersInv, At
  <2>2. ASSUME NEW c \in Change, committed[c] < reader[r].now PROVE c \in S
    <3>1. committed[c] \in Nat
      BY DEF IInv, TypeInv
    <3>2. c \in Committed
      BY <1>1, <1>3, <2>2, <3>1 DEF Committed
    <3> QED
      BY <2>1, <2>2, <3>2 DEF MakerOk
  <2>3. MyCache(r)' = MyCache(r) /\ Told(r)' = Told(r)
    BY <1>1, <1>5, <1>6 DEF MyCache, Told
  <2>4. Told(r) \subseteq Committed
    BY DEF Told, Committed, IInv, FreshInv, DroppedInv
  <2> QED
    BY <1>1, <1>4, <1>5, <1>6, <1>11, <2>1, <2>2, <2>3, <2>4 DEF MakerOk
<1>13. ReadersInv'
  <2>1. ASSUME NEW q \in Reader, q # r, At(q, "join"), reader[q].joined = r
        PROVE  JoinerOk(q)'
    <3>1. JoinerOk(q)
      BY <2>1 DEF IInv, FreshInv, ReadersInv
    <3>2. reader'[q] = reader[q]
      BY <1>5, <2>1
    <3> QED
      BY <1>4, <1>5, <1>6, <1>11, <2>1, <3>1, <3>2 DEF JoinerOk, At
  <2>2. ASSUME NEW q \in Reader, q # r
        PROVE  /\ reader'[q].at \in {"begin", "locked", "lookup"} =>
                      reader'[q].seen = Change /\ reader'[q].joined = Nobody
               /\ At(q, "fill")' => MakerOk(q)'
               /\ At(q, "join")' => JoinerOk(q)'
               /\ At(q, "done")' => ShownOk(q)'
    <3>1. reader'[q] = reader[q]
      BY <1>5, <2>2
    <3>2. CASE At(q, "join") /\ reader[q].joined = r
      <4>1. reader'[q].at = "join"
        BY <3>1, <3>2 DEF At
      <4> QED
        BY <2>1, <2>2, <3>2, <4>1 DEF At
    <3>3. CASE ~ (At(q, "join") /\ reader[q].joined = r)
      <4>1. At(q, "join") => reader'[reader[q].joined] = reader[reader[q].joined]
        BY <1>5, <3>3 DEF IInv, FreshInv, ReadersInv, JoinerOk
      <4> QED
        BY <1>1, <3>1, <4>1, ReaderStays DEF IInv, FreshInv
    <3> QED
      BY <3>2, <3>3
  <2> QED
    BY <1>5, <1>6, <1>12, <2>2 DEF ReadersInv, At
<1> QED
    BY <1>7, <1>8, <1>9, <1>10, <1>13 DEF IInv, FreshInv

\* The readers of a snapshot when its promise settles.
LEMMA Settled ==
    ASSUME IInv, NEW r \in Reader, At(r, "fill"), NEW a \in {"done", "failed"},
           NEW S \in SUBSET Change, Settle(r, a, S)
    PROVE  /\ reader' = [q \in Reader |-> reader'[q]]
           /\ \A q \in Reader :
                  \/ /\ q # r /\ reader'[q] = reader[q]
                     /\ At(q, "join") => /\ reader[q].joined \in Reader
                                         /\ reader[q].joined # r
                                         /\ reader'[reader[q].joined] = reader[reader[q].joined]
                  \/ /\ q = r \/ (At(q, "join") /\ reader[q].joined = r)
                     /\ reader[q] \in Request /\ reader[q].now <= now
                     /\ reader'[q] \in Request /\ reader'[q].at = a /\ reader'[q].seen = S
                     /\ SameFields(reader'[q], reader[q], {"at", "left", "seen"})
<1>1. /\ reader' = [q \in Reader |-> reader'[q]]
      /\ \A q \in Reader : reader'[q] =
             IF q = r \/ (At(q, "join") /\ reader[q].joined = r)
             THEN [reader[q] EXCEPT !.at = a, !.left = Sources, !.seen = S]
             ELSE reader[q]
    BY DEF Settle
<1>2. a \in Point /\ Sources \in Nat
    BY MetricsAssumption DEF Point
<1>3. ASSUME NEW q \in Reader, q = r \/ (At(q, "join") /\ reader[q].joined = r)
      PROVE  /\ reader[q] \in Request /\ reader[q].now <= now
             /\ reader'[q] \in Request /\ reader'[q].at = a /\ reader'[q].seen = S
             /\ SameFields(reader'[q], reader[q], {"at", "left", "seen"})
  <2>1. reader[q] \in Request /\ reader[q].now <= now
    BY <1>3, AtWork DEF At, IInv
  <2> DEFINE x == reader[q]
             y == [x EXCEPT !.at = a, !.left = Sources, !.seen = S]
  <2>2. reader'[q] = y
    BY <1>1, <1>3
  <2> HIDE DEF x
  <2>3. y \in Request /\ y.at = a /\ y.seen = S /\ SameFields(y, x, {"at", "left", "seen"})
    BY <1>2, <2>1, SetSettled DEF x
  <2> QED
    BY <2>1, <2>2, <2>3 DEF x
<1>4. ASSUME NEW q \in Reader, ~ (q = r \/ (At(q, "join") /\ reader[q].joined = r))
      PROVE  /\ q # r /\ reader'[q] = reader[q]
             /\ At(q, "join") => /\ reader[q].joined \in Reader
                                 /\ reader[q].joined # r
                                 /\ reader'[reader[q].joined] = reader[reader[q].joined]
  <2>1. q # r /\ reader'[q] = reader[q]
    BY <1>1, <1>4
  <2>2. ASSUME At(q, "join")
        PROVE  /\ reader[q].joined \in Reader /\ reader[q].joined # r
               /\ reader'[reader[q].joined] = reader[reader[q].joined]
    <3>1. /\ reader[q].joined \in Reader /\ reader[q].joined # r
          /\ reader[reader[q].joined].at = "fill"
      BY <1>4, <2>2 DEF IInv, FreshInv, ReadersInv, JoinerOk, At
    <3> QED
      BY <1>1, <3>1 DEF At
  <2> QED
    BY <2>1, <2>2
<1> QED
    BY <1>1, <1>3, <1>4

\* The cache no longer promises a snapshot that has settled, and the others are
\* promised as before.
LEMMA NoLongerPromised ==
    ASSUME IInv, NEW r \in Reader, At(r, "fill"), NEW entry \in Entries, entry.kind # "pending",
           cache' = IF MyCache(r) = Filling(r)
                    THEN [cache EXCEPT ![reader[r].process] = entry] ELSE cache,
           \A q \in Reader : At(q, "fill") /\ q # r => reader'[q] = reader[q]
    PROVE  /\ cache' \in [Process -> Entries] /\ PromiseInv'
           /\ \A p \in Process : \/ cache'[p] = cache[p]
                                 \/ /\ p = reader[r].process /\ cache'[p] = entry
                                    /\ MyCache(r) = Filling(r)
           /\ \A q \in Reader : q # r /\ At(q, "fill") =>
                  (cache'[reader[q].process] = Filling(q) => cache[reader[q].process] = Filling(q))
<1>1. reader[r].process \in Process /\ cache \in [Process -> Entries]
    BY AtWork DEF At, IInv, TypeInv, Request
<1>2. cache' \in [Process -> Entries]
    BY <1>1
<1>3. \A p \in Process : \/ cache'[p] = cache[p]
                         \/ /\ p = reader[r].process /\ cache'[p] = entry
                            /\ MyCache(r) = Filling(r)
    BY <1>1
<1>4. ASSUME NEW p \in Process, cache'[p].kind = "pending"
      PROVE  reader'[cache'[p].by].at = "fill" /\ reader'[cache'[p].by].process = p
  <2>1. cache'[p] = cache[p]
    BY <1>3, <1>4
  <2>2. /\ reader[cache[p].by].at = "fill" /\ reader[cache[p].by].process = p
        /\ cache[p].by \in Reader /\ cache[p] = Filling(cache[p].by)
    BY <1>1, <1>4, <2>1 DEF IInv, FreshInv, PromiseInv, At, Entries, Filling
  <2>3. cache[p].by # r
    <3>1. ASSUME cache[p].by = r PROVE FALSE
      <4>1. MyCache(r) = Filling(r) /\ reader[r].process = p
        BY <2>2, <3>1 DEF MyCache
      <4>2. cache'[p] = entry
        BY <1>1, <4>1
      <4> QED
        BY <1>4, <4>2
    <3> QED
      BY <3>1
  <2> QED
    BY <2>1, <2>2, <2>3 DEF At
<1>5. ASSUME NEW q \in Reader, q # r, At(q, "fill"), cache'[reader[q].process] = Filling(q)
      PROVE  cache[reader[q].process] = Filling(q)
  <2>1. reader[q].process \in Process
    BY <1>5, AtWork DEF At, IInv, Request
  <2>2. entry # Filling(q)
    BY DEF Filling
  <2> QED
    BY <1>3, <1>5, <2>1, <2>2
<1> QED
    BY <1>2, <1>3, <1>4, <1>5 DEF PromiseInv, At

\* A snapshot is given to all who wait for it, and stored if it is the promised one.
LEMMA FinishKeeps == ASSUME IInv, NEW r \in Reader, Finish(r) PROVE IInv'
<1> DEFINE S == reader[r].seen
           T == reader[r].now + TTL
<1>1. /\ At(r, "fill") /\ reader[r] \in Request /\ reader[r].now <= now /\ S \in SUBSET Change
      /\ Settle(r, "done", S) /\ now \in Nat /\ reader[r].now \in Nat /\ TTL \in Nat
      /\ UNCHANGED <<now, windows, holder, committed, dropped, faults>>
  <2>1. /\ At(r, "fill") /\ reader[r] \in Request /\ reader[r].now <= now
        /\ UNCHANGED <<now, windows, holder, committed, dropped, faults>>
    BY AtWork DEF Finish, At, limiter, changes, IInv
  <2> QED
    BY <2>1, MetricsAssumption DEF Finish, Request, IInv, TypeInv
<1>2. cache' = IF MyCache(r) = Filling(r)
               THEN [cache EXCEPT ![reader[r].process] = Snapshot(S, T)] ELSE cache
    BY DEF Finish, Store, Entry
<1>3. Snapshot(S, T) \in Entries /\ Snapshot(S, T).kind # "pending"
  <2>1. T \in Nat
    BY <1>1
  <2> QED
    BY <1>1, <2>1 DEF Snapshot, Entries
<1>4. /\ reader' = [q \in Reader |-> reader'[q]]
      /\ \A q \in Reader :
             \/ /\ q # r /\ reader'[q] = reader[q]
                /\ At(q, "join") => /\ reader[q].joined \in Reader
                                    /\ reader[q].joined # r
                                    /\ reader'[reader[q].joined] = reader[reader[q].joined]
             \/ /\ q = r \/ (At(q, "join") /\ reader[q].joined = r)
                /\ reader[q] \in Request /\ reader[q].now <= now
                /\ reader'[q] \in Request /\ reader'[q].at = "done" /\ reader'[q].seen = S
                /\ SameFields(reader'[q], reader[q], {"at", "left", "seen"})
  <2> HIDE DEF S
  <2> QED
    BY <1>1, Settled
<1>5. /\ cache' \in [Process -> Entries] /\ PromiseInv'
      /\ \A p \in Process : \/ cache'[p] = cache[p]
                            \/ /\ p = reader[r].process /\ cache'[p] = Snapshot(S, T)
                               /\ MyCache(r) = Filling(r)
      /\ \A q \in Reader : q # r /\ At(q, "fill") =>
             (cache'[reader[q].process] = Filling(q) => cache[reader[q].process] = Filling(q))
  <2>1. \A q \in Reader : At(q, "fill") /\ q # r => reader'[q] = reader[q]
    BY <1>4 DEF At
  <2> HIDE DEF S, T
  <2> QED
    BY <1>1, <1>2, <1>3, <2>1, NoLongerPromised
<1>6. TypeInv'
  <2>1. \A q \in Reader : reader'[q] = reader[q] \/ RequestOk(reader'[q])
    <3> SUFFICES ASSUME NEW q \in Reader, reader'[q] # reader[q] PROVE RequestOk(reader'[q])
      OBVIOUS
    <3>1. /\ reader'[q] \in Request /\ reader'[q].at = "done" /\ reader'[q].now = reader[q].now
          /\ reader[q].now <= now
      BY <1>4 DEF SameFields
    <3> QED
      BY <3>1 DEF RequestOk, Point
  <2>2. faults' \in 0..MaxFaults
    BY <1>1 DEF IInv, TypeInv
  <2> QED
    BY <1>1, <1>4, <1>5, <2>1, <2>2, TypeKept DEF IInv, changes
<1>7. LockInv' /\ CountInv'
  <2>1. \A q \in Reader :
            \/ reader'[q] = reader[q]
            \/ Allowed(q) /\ Allowed(q)' /\ SameFields(reader'[q], reader[q], {"at", "left", "seen"})
    BY <1>1, <1>4 DEF Allowed, At
  <2>2. NoneNew /\ NoneLess
    BY <2>1, SameAllowed
  <2>3. faults' \in 0..faults
    BY <1>1 DEF IInv, TypeInv
  <2>4. \A q \in Reader : reader'[q].at \in {"begin", "locked"} => reader'[q] = reader[q]
    BY <1>4
  <2> QED
    BY <1>1, <2>2, <2>3, <2>4, LimitsKept DEF IInv
<1>8. MakerOk(r)
    BY <1>1 DEF IInv, FreshInv, ReadersInv
<1>9. SnapshotInv'
  <2> SUFFICES ASSUME NEW p \in Process, cache'[p].kind = "payload"
               PROVE  /\ cache'[p].expires <= now + TTL
                      /\ \A c \in Change :
                             /\ p \in dropped[c] => c \in cache'[p].seen
                             /\ committed[c] + TTL < cache'[p].expires => c \in cache'[p].seen
    BY <1>1 DEF SnapshotInv
  <2>1. CASE cache'[p] = cache[p]
    BY <2>1 DEF IInv, FreshInv, SnapshotInv
  <2>2. CASE p = reader[r].process /\ cache'[p] = Snapshot(S, T) /\ MyCache(r) = Filling(r)
    <3>1. cache'[p].expires = T /\ cache'[p].seen = S
      BY <2>2 DEF Snapshot
    <3>2. T <= now + TTL
      BY <1>1
    <3>3. \A c \in Change : p \in dropped[c] => c \in S
      BY <1>8, <2>2 DEF MakerOk, Told
    <3>4. ASSUME NEW c \in Change, committed[c] + TTL < T PROVE c \in S
      <4>1. committed[c] \in Nat
        BY DEF IInv, TypeInv
      <4>2. committed[c] < reader[r].now
        BY <1>1, <3>4, <4>1
      <4> QED
        BY <1>8, <4>2 DEF MakerOk
    <3> QED
      BY <3>1, <3>2, <3>3, <3>4
  <2> QED
    BY <1>5, <2>1, <2>2
<1>10. DroppedInv'
    BY <1>1 DEF IInv, FreshInv, DroppedInv
<1>11. ReadersInv'
  <2> SUFFICES ASSUME NEW q \in Reader
               PROVE  /\ reader'[q].at \in {"begin", "locked", "lookup"} =>
                             reader'[q].seen = Change /\ reader'[q].joined = Nobody
                      /\ At(q, "fill")' => MakerOk(q)'
                      /\ At(q, "join")' => JoinerOk(q)'
                      /\ At(q, "done")' => ShownOk(q)'
    BY DEF ReadersInv
  <2>1. CASE /\ q # r /\ reader'[q] = reader[q]
             /\ At(q, "join") => /\ reader[q].joined \in Reader
                                 /\ reader[q].joined # r
                                 /\ reader'[reader[q].joined] = reader[reader[q].joined]
    <3>1. CASE At(q, "fill")
      BY <1>1, <1>5, <2>1, <3>1, ReaderStays DEF IInv, FreshInv
    <3>2. CASE ~ At(q, "fill")
      <4>1. /\ At(q, "join")' => JoinerOk(q)'
        BY <1>1, <2>1 DEF IInv, FreshInv, ReadersInv, JoinerOk, At, Committed
      <4>2. At(q, "done")' => ShownOk(q)'
        BY <1>1, <2>1 DEF IInv, FreshInv, ReadersInv, ShownOk, At
      <4> QED
        BY <2>1, <3>2, <4>1, <4>2 DEF IInv, FreshInv, ReadersInv, At
    <3> QED
      BY <3>1, <3>2
  <2>2. CASE q = r /\ reader'[q].at = "done" /\ reader'[q].seen = S
             /\ SameFields(reader'[q], reader[q], {"at", "left", "seen"})
    <3>1. reader'[q].had = reader[r].had /\ reader'[q].now = reader[r].now
      BY <2>2 DEF SameFields
    <3>2. reader[r].had \subseteq S
      BY <1>8 DEF MakerOk
    <3>3. ASSUME NEW c \in Change, committed[c] + TTL <= reader[r].now PROVE c \in S
      <4>1. committed[c] \in Nat /\ TTL \in Nat \ {0}
        BY MetricsAssumption DEF IInv, TypeInv
      <4>2. committed[c] < reader[r].now
        BY <1>1, <3>3, <4>1
      <4> QED
        BY <1>8, <4>2 DEF MakerOk
    <3> QED
      BY <1>1, <2>2, <3>1, <3>2, <3>3 DEF At, ShownOk
  <2>3. CASE At(q, "join") /\ reader[q].joined = r /\ reader'[q].at = "done" /\ reader'[q].seen = S
             /\ SameFields(reader'[q], reader[q], {"at", "left", "seen"})
    <3>1. reader'[q].had = reader[q].had /\ reader'[q].joined = r
      BY <2>3 DEF SameFields
    <3>2. reader[q].had \subseteq S
      BY <2>3 DEF IInv, FreshInv, ReadersInv, JoinerOk
    <3>3. r # Nobody
      BY MetricsAssumption
    <3> QED
      BY <2>3, <3>1, <3>2, <3>3 DEF At, ShownOk
  <2> QED
    BY <1>4, <2>1, <2>2, <2>3
<1> QED
    BY <1>5, <1>6, <1>7, <1>9, <1>10, <1>11 DEF IInv, FreshInv

\* A snapshot fails for all who wait for it, and is forgotten.
LEMMA BreakKeeps == ASSUME IInv, NEW r \in Reader, Break(r) PROVE IInv'
<1>1. /\ At(r, "fill") /\ Settle(r, "failed", {}) /\ faults \in Nat /\ MaxFaults \in Nat
      /\ faults > 0 /\ faults' = faults - 1 /\ faults <= MaxFaults
      /\ UNCHANGED <<now, windows, holder, committed, dropped>>
    BY MetricsAssumption DEF Break, Fails, limiter, changes, IInv, TypeInv
<1>2. cache' = IF MyCache(r) = Filling(r)
               THEN [cache EXCEPT ![reader[r].process] = NoEntry] ELSE cache
    BY DEF Break, ForgetEntry, Entry
<1>3. NoEntry \in Entries /\ NoEntry.kind = "none"
    BY DEF NoEntry, Entries
<1> DEFINE S == {}
<1>4. /\ reader' = [q \in Reader |-> reader'[q]]
      /\ \A q \in Reader :
             \/ /\ q # r /\ reader'[q] = reader[q]
                /\ At(q, "join") => /\ reader[q].joined \in Reader
                                    /\ reader[q].joined # r
                                    /\ reader'[reader[q].joined] = reader[reader[q].joined]
             \/ /\ q = r \/ (At(q, "join") /\ reader[q].joined = r)
                /\ reader[q] \in Request /\ reader[q].now <= now
                /\ reader'[q] \in Request /\ reader'[q].at = "failed" /\ reader'[q].seen = S
                /\ SameFields(reader'[q], reader[q], {"at", "left", "seen"})
  <2>1. Settle(r, "failed", S) /\ S \in SUBSET Change
    BY <1>1
  <2> HIDE DEF S
  <2> QED
    BY <1>1, <2>1, Settled
<1>5. /\ cache' \in [Process -> Entries] /\ PromiseInv'
      /\ \A p \in Process : \/ cache'[p] = cache[p]
                            \/ /\ p = reader[r].process /\ cache'[p] = NoEntry
                               /\ MyCache(r) = Filling(r)
      /\ \A q \in Reader : q # r /\ At(q, "fill") =>
             (cache'[reader[q].process] = Filling(q) => cache[reader[q].process] = Filling(q))
  <2>1. \A q \in Reader : At(q, "fill") /\ q # r => reader'[q] = reader[q]
    BY <1>4 DEF At
  <2> QED
    BY <1>1, <1>2, <1>3, <2>1, NoLongerPromised
<1>6. TypeInv'
  <2>1. \A q \in Reader : reader'[q] = reader[q] \/ RequestOk(reader'[q])
    BY <1>4 DEF RequestOk, Point
  <2>2. faults' \in 0..MaxFaults
    BY <1>1
  <2> QED
    BY <1>1, <1>4, <1>5, <2>1, <2>2, TypeKept DEF IInv, changes
<1>7. LockInv' /\ CountInv'
  <2>1. NoneNew
    BY <1>4 DEF NoneNew, Allowed
  <2>2. faults' \in 0..faults /\ faults' # faults
    BY <1>1
  <2>3. \A q \in Reader : reader'[q].at \in {"begin", "locked"} => reader'[q] = reader[q]
    BY <1>4
  <2> QED
    BY <1>1, <2>1, <2>2, <2>3, LimitsKept DEF IInv
<1>8. SnapshotInv' /\ DroppedInv'
  <2>1. \A p \in Process : cache'[p].kind = "payload" => cache'[p] = cache[p]
    BY <1>3, <1>5
  <2> QED
    BY <1>1, <2>1 DEF IInv, FreshInv, SnapshotInv, DroppedInv
<1>9. ReadersInv'
  <2> SUFFICES ASSUME NEW q \in Reader
               PROVE  /\ reader'[q].at \in {"begin", "locked", "lookup"} =>
                             reader'[q].seen = Change /\ reader'[q].joined = Nobody
                      /\ At(q, "fill")' => MakerOk(q)'
                      /\ At(q, "join")' => JoinerOk(q)'
                      /\ At(q, "done")' => ShownOk(q)'
    BY DEF ReadersInv
  <2>1. CASE /\ q # r /\ reader'[q] = reader[q]
             /\ At(q, "join") => /\ reader[q].joined \in Reader
                                 /\ reader[q].joined # r
                                 /\ reader'[reader[q].joined] = reader[reader[q].joined]
    <3>1. CASE At(q, "fill")
      BY <1>1, <1>5, <2>1, <3>1, ReaderStays DEF IInv, FreshInv
    <3>2. CASE ~ At(q, "fill")
      <4>1. /\ At(q, "join")' => JoinerOk(q)'
        BY <1>1, <2>1 DEF IInv, FreshInv, ReadersInv, JoinerOk, At, Committed
      <4>2. At(q, "done")' => ShownOk(q)'
        BY <1>1, <2>1 DEF IInv, FreshInv, ReadersInv, ShownOk, At
      <4> QED
        BY <2>1, <3>2, <4>1, <4>2 DEF IInv, FreshInv, ReadersInv, At
    <3> QED
      BY <3>1, <3>2
  <2>2. CASE reader'[q].at = "failed"
    BY <2>2 DEF At
  <2> QED
    BY <1>4, <2>1, <2>2
<1> QED
    BY <1>5, <1>6, <1>7, <1>8, <1>9 DEF IInv, FreshInv

-----------------------------------------------------------------------------
(* Changes, and time                                                        *)

\* A change is committed: it is not older than what has been read.
LEMMA CommitKeeps == ASSUME IInv, NEW c \in Change, Commit(c) PROVE IInv'
<1>1. /\ committed[c] > now /\ committed' = [committed EXCEPT ![c] = now] /\ now \in Nat
      /\ UNCHANGED <<now, windows, holder, dropped, cache, reader, faults>>
    BY DEF Commit, limiter, IInv, TypeInv
<1>2. committed' \in [Change -> Nat]
    BY <1>1 DEF IInv, TypeInv
<1>3. \A d \in Change : committed'[d] = IF d = c THEN now ELSE committed[d]
    BY <1>1 DEF IInv, TypeInv
<1>4. TypeInv'
    BY <1>1, <1>2 DEF IInv, TypeInv, RequestOk
<1>5. LockInv' /\ CountInv'
  <2>1. LockInv'
    BY <1>1 DEF IInv, LockInv, MyWindow
  <2>2. \A w : AllowedIn(w)' = AllowedIn(w) /\ \A b : AllowedOf(b, w)' = AllowedOf(b, w)
    BY <1>1 DEF AllowedIn, AllowedOf, Allowed, MyWindow
  <2> QED
    BY <1>1, <2>1, <2>2 DEF IInv, CountInv, CountOk
<1>6. PromiseInv' /\ DroppedInv'
    BY <1>1, <1>3 DEF IInv, FreshInv, PromiseInv, DroppedInv, At
<1>7. SnapshotInv'
  <2> SUFFICES ASSUME NEW p \in Process, cache[p].kind = "payload", NEW d \in Change
               PROVE  /\ cache[p].expires <= now + TTL
                      /\ p \in dropped[d] => d \in cache[p].seen
                      /\ committed'[d] + TTL < cache[p].expires => d \in cache[p].seen
    <3>1. \A p \in Process : cache[p].kind = "payload" => cache[p].expires <= now + TTL
      BY DEF IInv, FreshInv, SnapshotInv
    <3> QED
      BY <1>1, <3>1 DEF SnapshotInv
  <2>1. /\ cache[p].expires <= now + TTL
        /\ p \in dropped[d] => d \in cache[p].seen
        /\ committed[d] + TTL < cache[p].expires => d \in cache[p].seen
    BY DEF IInv, FreshInv, SnapshotInv
  <2>2. cache[p].expires \in Nat /\ TTL \in Nat
    BY MetricsAssumption DEF IInv, TypeInv, Entries
  <2> QED
    BY <1>1, <1>3, <2>1, <2>2
<1>8. Committed \subseteq Committed'
  <2> SUFFICES ASSUME NEW d \in Committed PROVE d \in Change /\ committed'[d] <= now
    BY <1>1 DEF Committed
  <2> QED
    BY <1>1, <1>3 DEF Committed
<1>9. ASSUME NEW q \in Reader
      PROVE  /\ reader'[q].at \in {"begin", "locked", "lookup"} =>
                    reader'[q].seen = Change /\ reader'[q].joined = Nobody
             /\ At(q, "fill")' => MakerOk(q)'
             /\ At(q, "join")' => JoinerOk(q)'
             /\ At(q, "done")' => ShownOk(q)'
  <2>1. reader' = reader
    BY <1>1
  <2>2. reader[q].at \in {"fill", "done"} => reader[q].now \in Nat /\ reader[q].now <= now
    BY AtWork DEF IInv, Request
  <2>3. At(q, "fill") => MakerOk(q)'
    <3> SUFFICES ASSUME At(q, "fill") PROVE MakerOk(q)'
      OBVIOUS
    <3>1. MakerOk(q)
      BY DEF IInv, FreshInv, ReadersInv
    <3>2. ASSUME NEW d \in Change, committed'[d] < reader[q].now PROVE d \in reader[q].seen
      <4>1. committed[d] < reader[q].now
        BY <1>1, <1>3, <2>2, <3>2 DEF At
      <4> QED
        BY <3>1, <4>1 DEF MakerOk
    <3>3. MyCache(q)' = MyCache(q) /\ Told(q)' = Told(q)
      BY <1>1 DEF MyCache, Told
    <3> QED
      BY <1>8, <2>1, <3>1, <3>2, <3>3 DEF MakerOk
  <2>4. At(q, "join") => JoinerOk(q)'
    BY <1>8, <2>1 DEF IInv, FreshInv, ReadersInv, JoinerOk, At
  <2>5. At(q, "done") => ShownOk(q)'
    <3> SUFFICES ASSUME At(q, "done") PROVE ShownOk(q)'
      OBVIOUS
    <3>1. ShownOk(q)
      BY DEF IInv, FreshInv, ReadersInv
    <3>2. ASSUME NEW d \in Change, committed'[d] + TTL <= reader[q].now
          PROVE  committed[d] + TTL <= reader[q].now
      <4>1. TTL \in Nat \ {0}
        BY MetricsAssumption
      <4> QED
        BY <1>1, <1>3, <2>2, <3>2, <4>1 DEF At
    <3> QED
      BY <2>1, <3>1, <3>2 DEF ShownOk
  <2> QED
    BY <2>1, <2>3, <2>4, <2>5 DEF IInv, FreshInv, ReadersInv, At
<1> QED
    BY <1>4, <1>5, <1>6, <1>7, <1>9 DEF IInv, FreshInv, ReadersInv

\* A process drops its cache: the snapshot that is being made is no longer the
\* promised one.
LEMMA InvalidateKeeps ==
    ASSUME IInv, NEW c \in Change, NEW p \in Process, Invalidate(c, p) PROVE IInv'
<1>1. /\ committed[c] <= now /\ dropped[c] = {} /\ dropped' = [dropped EXCEPT ![c] = {p}]
      /\ cache' = [cache EXCEPT ![p] = NoEntry]
      /\ UNCHANGED <<now, windows, holder, committed, reader, faults>>
    BY DEF Invalidate, limiter
<1>2. /\ cache' \in [Process -> Entries] /\ dropped' \in [Change -> SUBSET Process]
      /\ cache'[p].kind = "none" /\ cache'[p] = NoEntry
      /\ \A o \in Process : o # p => cache'[o] = cache[o]
      /\ dropped'[c] = {p} /\ \A d \in Change : d # c => dropped'[d] = dropped[d]
    BY <1>1 DEF IInv, TypeInv, NoEntry, Entries
<1>3. TypeInv'
    BY <1>1, <1>2 DEF IInv, TypeInv, RequestOk
<1>4. LockInv' /\ CountInv'
  <2>1. LockInv'
    BY <1>1 DEF IInv, LockInv, MyWindow
  <2>2. \A w : AllowedIn(w)' = AllowedIn(w) /\ \A b : AllowedOf(b, w)' = AllowedOf(b, w)
    BY <1>1 DEF AllowedIn, AllowedOf, Allowed, MyWindow
  <2> QED
    BY <1>1, <2>1, <2>2 DEF IInv, CountInv, CountOk
<1>5. PromiseInv'
  <2> SUFFICES ASSUME NEW o \in Process, cache'[o].kind = "pending"
               PROVE  reader'[cache'[o].by].at = "fill" /\ reader'[cache'[o].by].process = o
    BY DEF PromiseInv, At
  <2>1. o # p /\ cache'[o] = cache[o]
    BY <1>2
  <2> QED
    BY <1>1, <2>1 DEF IInv, FreshInv, PromiseInv, At
<1>6. SnapshotInv'
  <2> SUFFICES ASSUME NEW o \in Process, cache'[o].kind = "payload"
               PROVE  /\ cache'[o].expires <= now + TTL
                      /\ \A d \in Change :
                             /\ o \in dropped'[d] => d \in cache'[o].seen
                             /\ committed[d] + TTL < cache'[o].expires => d \in cache'[o].seen
    BY <1>1 DEF SnapshotInv
  <2>1. o # p /\ cache'[o] = cache[o]
    BY <1>2
  <2>2. \A d \in Change : o \in dropped'[d] => o \in dropped[d]
    BY <1>2, <2>1
  <2> QED
    BY <2>1, <2>2 DEF IInv, FreshInv, SnapshotInv
<1>7. DroppedInv'
    BY <1>1, <1>2 DEF IInv, FreshInv, DroppedInv
<1>8. ASSUME NEW q \in Reader
      PROVE  /\ reader'[q].at \in {"begin", "locked", "lookup"} =>
                    reader'[q].seen = Change /\ reader'[q].joined = Nobody
             /\ At(q, "fill")' => MakerOk(q)'
             /\ At(q, "join")' => JoinerOk(q)'
             /\ At(q, "done")' => ShownOk(q)'
  <2>1. reader' = reader /\ Committed' = Committed
    BY <1>1 DEF Committed
  <2>2. At(q, "fill") => MakerOk(q)'
    <3> SUFFICES ASSUME At(q, "fill") PROVE MakerOk(q)'
      OBVIOUS
    <3>1. MakerOk(q) /\ reader[q].process \in Process
      BY AtWork DEF IInv, FreshInv, ReadersInv, Request, At
    <3>2. ASSUME cache'[reader[q].process] = Filling(q)
          PROVE  MyCache(q) = Filling(q) /\ Told(q)' = Told(q)
      <4>1. reader[q].process # p
        BY <1>2, <3>2 DEF NoEntry, Filling
      <4>2. \A d \in Change : reader[q].process \in dropped'[d] <=> reader[q].process \in dropped[d]
        BY <1>1, <1>2, <4>1
      <4>3. Told(q)' = Told(q)
        BY <2>1, <4>2 DEF Told
      <4> QED
        BY <1>2, <3>1, <3>2, <4>1, <4>3 DEF MyCache
    <3> QED
      BY <1>1, <2>1, <3>1, <3>2 DEF MakerOk, MyCache, Filling
  <2>3. At(q, "join") => JoinerOk(q)'
    BY <2>1 DEF IInv, FreshInv, ReadersInv, JoinerOk, At
  <2>4. At(q, "done") => ShownOk(q)'
    BY <1>1 DEF IInv, FreshInv, ReadersInv, ShownOk
  <2> QED
    BY <2>1, <2>2, <2>3, <2>4 DEF IInv, FreshInv, ReadersInv, At
<1> QED
    BY <1>3, <1>4, <1>5, <1>6, <1>7, <1>8 DEF IInv, FreshInv, ReadersInv

\* Time passes.
LEMMA TickKeeps == ASSUME IInv, Tick PROVE IInv'
<1>1. /\ now \in Nat /\ now' = now + 1 /\ now < MaxTime /\ MaxTime \in Nat /\ TTL \in Nat
      /\ UNCHANGED <<windows, holder, committed, dropped, cache, reader, faults>>
      /\ \A r \in Reader :
             reader[r].at \in {"begin", "locked"} => WindowOf(now') <= MyWindow(r) + Keep
    BY MetricsAssumption DEF Tick, limiter, changes, IInv, TypeInv
<1>2. \A q \in Reader : RequestOk(reader[q])'
  <2> SUFFICES ASSUME NEW q \in Reader PROVE RequestOk(reader[q])'
    OBVIOUS
  <2>1. RequestOk(reader[q])
    BY DEF IInv, TypeInv
  <2>2. reader[q] \in Request => reader[q].now \in Nat
    BY DEF Request
  <2> QED
    BY <1>1, <2>1, <2>2 DEF RequestOk
<1>3. TypeInv'
  <2>1. now' \in 0..MaxTime
    BY <1>1
  <2> QED
    BY <1>1, <1>2, <2>1 DEF IInv, TypeInv
<1>4. LockInv'
    BY <1>1 DEF IInv, LockInv, MyWindow
<1>5. ASSUME NEW w \in 0..MaxWindow PROVE CountOk(w)'
  <2>1. WindowOf(now) \in Nat /\ WindowOf(now') \in Nat /\ WindowOf(now) <= WindowOf(now')
    BY <1>1, WindowMonotone
  <2>2. NoneNew /\ NoneLess
    BY <1>1 DEF NoneNew, NoneLess, Allowed
  <2>3. faults' \in 0..faults
    BY <1>1, MetricsAssumption DEF IInv, TypeInv
  <2>4. windows \in [DOMAIN windows -> WindowRow] /\ CountOk(w)
    BY DEF IInv, TypeInv, CountInv
  <2> QED
    BY <1>1, <2>1, <2>2, <2>3, <2>4, CountKept DEF IInv
<1>6. PromiseInv'
    BY <1>1 DEF IInv, FreshInv, PromiseInv, At
<1>7. SnapshotInv'
  <2>1. \A p \in Process : cache[p].kind = "payload" => cache[p].expires <= now' + TTL
    <3> SUFFICES ASSUME NEW p \in Process, cache[p].kind = "payload"
                 PROVE  cache[p].expires <= now' + TTL
      OBVIOUS
    <3>1. cache[p].expires \in Nat /\ cache[p].expires <= now + TTL
      BY DEF IInv, TypeInv, FreshInv, SnapshotInv, Entries
    <3> QED
      BY <1>1, <3>1
  <2> QED
    BY <1>1, <2>1 DEF IInv, FreshInv, SnapshotInv
<1>8. \A c \in Change : committed[c] <= now => committed[c] <= now'
    BY <1>1 DEF IInv, TypeInv
<1>9. DroppedInv'
    BY <1>1, <1>8 DEF IInv, FreshInv, DroppedInv
<1>10. ReadersInv'
  <2>1. Committed \subseteq Committed'
    BY <1>1, <1>8 DEF Committed
  <2>2. \A q \in Reader : MakerOk(q) => MakerOk(q)'
    BY <1>1, <2>1 DEF MakerOk, MyCache, Filling, Told
  <2>3. \A q \in Reader : JoinerOk(q) => JoinerOk(q)'
    BY <1>1, <2>1 DEF JoinerOk, At
  <2> QED
    BY <1>1, <2>2, <2>3 DEF IInv, FreshInv, ReadersInv, ShownOk, At
<1> QED
    BY <1>3, <1>4, <1>5, <1>6, <1>7, <1>9, <1>10 DEF IInv, FreshInv, CountInv

-----------------------------------------------------------------------------
(* The theorems                                                             *)

\* There is no request yet, and no window.
LEMMA InitHolds == Init => IInv
<1> SUFFICES ASSUME Init PROVE IInv
    OBVIOUS
<1>1. /\ MaxTime \in Nat /\ MaxFaults \in Nat /\ GlobalLimit \in Nat /\ BucketLimit \in Nat
    BY MetricsAssumption
<1>2. DOMAIN windows = {}
    BY DEF Init
<1>3. TypeInv
    BY <1>1, <1>2 DEF Init, TypeInv, RequestOk, NoEntry, Entries
<1>4. LockInv
    BY DEF Init, LockInv
<1>5. CountInv
  <2>1. \A w : AllowedIn(w) = {} /\ \A b : AllowedOf(b, w) = {}
    BY DEF Init, AllowedIn, AllowedOf, Allowed
  <2>2. IsFiniteSet({}) /\ Cardinality({}) = 0
    BY FS_EmptySet
  <2> QED
    BY <1>1, <1>2, <2>1, <2>2 DEF CountInv, CountOk
<1>6. FreshInv
    BY DEF Init, FreshInv, PromiseInv, SnapshotInv, ReadersInv, DroppedInv, NoEntry, At
<1> QED
    BY <1>3, <1>4, <1>5, <1>6 DEF IInv

\* No step breaks the invariant.
LEMMA NextKeeps == IInv /\ [Next]_vars => IInv'
<1> SUFFICES ASSUME IInv, [Next]_vars PROVE IInv'
    OBVIOUS
<1>1. CASE \E r \in Reader : Begin(r) \/ Lock(r) \/ Decide(r) \/ Lookup(r)
    BY <1>1, BeginKeeps, LockKeeps, DecideKeeps, LookupKeeps
<1>2. CASE \E r \in Reader : ReadSource(r) \/ Finish(r) \/ Break(r)
    BY <1>2, ReadSourceKeeps, FinishKeeps, BreakKeeps
<1>3. CASE \E c \in Change : Commit(c) \/ \E p \in Process : Invalidate(c, p)
    BY <1>3, CommitKeeps, InvalidateKeeps
<1>4. CASE Tick
    BY <1>4, TickKeeps
<1>5. CASE UNCHANGED vars
  <2>1. UNCHANGED <<now, windows, holder, committed, dropped, cache, reader, faults>>
    BY <1>5 DEF vars, limiter, changes
  <2>2. TypeInv' /\ LockInv'
    BY <2>1 DEF IInv, TypeInv, LockInv, RequestOk, MyWindow
  <2>3. \A w : AllowedIn(w)' = AllowedIn(w) /\ \A b : AllowedOf(b, w)' = AllowedOf(b, w)
    BY <2>1 DEF AllowedIn, AllowedOf, Allowed, MyWindow
  <2>4. CountInv'
    BY <2>1, <2>3 DEF IInv, CountInv, CountOk
  <2>5. PromiseInv' /\ SnapshotInv' /\ DroppedInv'
    BY <2>1 DEF IInv, FreshInv, PromiseInv, SnapshotInv, DroppedInv, At
  <2>6. ReadersInv'
    BY <2>1 DEF IInv, FreshInv, ReadersInv, MakerOk, JoinerOk, ShownOk, Committed, MyCache,
                Filling, Told, At
  <2> QED
    BY <2>2, <2>4, <2>5, <2>6 DEF IInv, FreshInv
<1> QED
    BY <1>1, <1>2, <1>3, <1>4, <1>5 DEF Next

\* So it always holds.
LEMMA InvariantHolds == Spec => []IInv
<1> QED
    BY InitHolds, NextKeeps, PTL DEF Spec

\* However the transactions of all processes interleave, a minute allows no more
\* reads than the global limit and no browser more than its own, and as long as no
\* call fails a kept window counts exactly those.
THEOREM LimitTheorem == Spec => []LimitsHold
<1>1. IInv => LimitsHold
  <2> SUFFICES ASSUME IInv PROVE LimitsHold
    OBVIOUS
  <2>1. \A w \in 0..MaxWindow : CountOk(w)
    BY DEF IInv, CountInv
  <2>2. DOMAIN windows \subseteq 0..MaxWindow
    BY DEF IInv, TypeInv
  <2> QED
    BY <2>1, <2>2 DEF LimitsHold, CountOk, AllowedOf
<1> QED
    BY <1>1, InvariantHolds, PTL

\* A reader that looked into the cache after its process had dropped it for a change
\* is shown that change, whichever snapshot it waited for; and one that waited for
\* nobody is shown every change older than the lifetime of a snapshot.
THEOREM FreshTheorem == Spec => []SnapshotsAreFresh
<1>1. IInv => SnapshotsAreFresh
    BY DEF IInv, FreshInv, ReadersInv, ShownOk, SnapshotsAreFresh
<1> QED
    BY <1>1, InvariantHolds, PTL

\* A snapshot the cache promises is really being made.
THEOREM PromiseTheorem == Spec => []PromisesAreKept
<1>1. IInv => PromisesAreKept
    BY DEF IInv, FreshInv, PromiseInv, PromisesAreKept
<1> QED
    BY <1>1, InvariantHolds, PTL

-----------------------------------------------------------------------------
(* RunFigures: sums of numbers, as units counted.                           *)

\* A function of numbers over a finite set.
Summable(f) == IsFiniteSet(DOMAIN f) /\ \A x \in DOMAIN f : f[x] \in Nat

LEMMA UnitsAre ==
    ASSUME NEW f, NEW u
    PROVE  u \in Units(f) <=> \E x \in DOMAIN f : \E i \in 1..f[x] : u = <<x, i>>
BY DEF Units

LEMMA UnitsOfOne ==
    ASSUME NEW x, NEW n \in Nat
    PROVE  IsFiniteSet({x} \X (1..n)) /\ Cardinality({x} \X (1..n)) = n
<1>1. IsFiniteSet({x}) /\ Cardinality({x}) = 1
    BY FS_Singleton
<1>2. IsFiniteSet(1..n) /\ Cardinality(1..n) = IF 1 > n THEN 0 ELSE n - 1 + 1
    BY FS_Interval
<1>3. IsFiniteSet({x} \X (1..n))
      /\ Cardinality({x} \X (1..n)) = Cardinality({x}) * Cardinality(1..n)
    BY <1>1, <1>2, FS_Product
<1>4. Cardinality(1..n) = n
    BY <1>2
<1> QED
    BY <1>1, <1>3, <1>4

\* What a function maps a finite set to is finite.
LEMMA RangeFinite ==
    ASSUME NEW f, IsFiniteSet(DOMAIN f), NEW T, \A y : y \in T <=> \E x \in DOMAIN f : y = f[x]
    PROVE  IsFiniteSet(T)
<1> DEFINE F == [x \in DOMAIN f |-> f[x]]
<1>1. F \in Surjection(DOMAIN f, T)
    BY DEF Surjection
<1> QED
    BY <1>1, FS_Surjection

LEMMA UnitsFinite ==
    ASSUME NEW f, Summable(f)
    PROVE  IsFiniteSet(Units(f)) /\ Sum(f) \in Nat
<1> DEFINE g == [x \in DOMAIN f |-> {x} \X (1..f[x])]
           T == {{x} \X (1..f[x]) : x \in DOMAIN f}
<1>1. IsFiniteSet(T)
  <2>1. IsFiniteSet(DOMAIN g) /\ \A y : y \in T <=> \E x \in DOMAIN g : y = g[x]
      BY DEF Summable
  <2> HIDE DEF g, T
  <2> QED
      BY <2>1, RangeFinite
<1>2. \A S \in T : IsFiniteSet(S)
  <2>1. ASSUME NEW x \in DOMAIN f
        PROVE  IsFiniteSet({x} \X (1..f[x]))
    <3>1. f[x] \in Nat
        BY DEF Summable
    <3> QED
        BY <3>1, UnitsOfOne
  <2> QED
      BY <2>1
<1>3. IsFiniteSet(UNION T)
  <2> HIDE DEF T
  <2> QED
      BY <1>1, <1>2, FS_UNION
<1>4. UNION T = Units(f)
    BY DEF Units
<1> QED
    BY <1>3, <1>4, FS_CardinalityType DEF Sum

\* A sum is at least that of a part of its numbers, or of smaller ones.
LEMMA SumMonotone ==
    ASSUME NEW f, NEW g, Summable(f), Summable(g),
           \A x \in DOMAIN f : f[x] > 0 => x \in DOMAIN g /\ f[x] <= g[x]
    PROVE  Sum(f) <= Sum(g)
<1>1. Units(f) \subseteq Units(g)
  <2> SUFFICES ASSUME NEW u \in Units(f) PROVE u \in Units(g)
      OBVIOUS
  <2>1. PICK x \in DOMAIN f, i \in Int : i \in 1..f[x] /\ u = <<x, i>>
      BY UnitsAre
  <2>2. x \in DOMAIN g /\ i \in 1..g[x]
      BY <2>1 DEF Summable
  <2> QED
      BY <2>1, <2>2, UnitsAre
<1> QED
    BY <1>1, UnitsFinite, FS_Subset DEF Sum

\* Numbers that are zero do not count.
LEMMA SumSame ==
    ASSUME NEW f, NEW g, Summable(f), Summable(g),
           \A x \in DOMAIN f : f[x] > 0 => x \in DOMAIN g /\ g[x] = f[x],
           \A x \in DOMAIN g : g[x] > 0 => x \in DOMAIN f /\ g[x] = f[x]
    PROVE  Sum(f) = Sum(g)
<1>1. Sum(f) <= Sum(g)
  <2>1. \A x \in DOMAIN f : f[x] > 0 => x \in DOMAIN g /\ f[x] <= g[x]
      BY DEF Summable
  <2> QED
      BY <2>1, SumMonotone
<1>2. Sum(g) <= Sum(f)
  <2>1. \A x \in DOMAIN g : g[x] > 0 => x \in DOMAIN f /\ g[x] <= f[x]
      BY DEF Summable
  <2> QED
      BY <2>1, SumMonotone
<1> QED
    BY <1>1, <1>2, UnitsFinite

\* One of the numbers was zero and is no longer.
LEMMA SumGrows ==
    ASSUME NEW f, NEW g, Summable(f), Summable(g), NEW r \in DOMAIN f, f[r] = 0,
           DOMAIN g = DOMAIN f, \A x \in DOMAIN f : x # r => g[x] = f[x]
    PROVE  Sum(g) = Sum(f) + g[r]
<1> DEFINE N == {r} \X (1..g[r])
<1>1. Units(g) = Units(f) \cup N
  <2>1. ASSUME NEW u \in Units(g) PROVE u \in Units(f) \cup N
    <3>1. PICK x \in DOMAIN g, i \in Int : i \in 1..g[x] /\ u = <<x, i>>
        BY <2>1, UnitsAre
    <3>2. CASE x = r
        BY <3>1, <3>2
    <3>3. CASE x # r
      <4>1. u \in Units(f)
          BY <3>1, <3>3, UnitsAre
      <4> QED
          BY <4>1
    <3> QED
        BY <3>2, <3>3
  <2>2. ASSUME NEW u \in N PROVE u \in Units(g)
    <3>1. u[1] = r /\ u[2] \in 1..g[r] /\ u = <<u[1], u[2]>>
        BY <2>2
    <3> QED
        BY <3>1, UnitsAre
  <2>3. ASSUME NEW u \in Units(f) PROVE u \in Units(g)
    <3>1. PICK x \in DOMAIN f, i \in Int : i \in 1..f[x] /\ u = <<x, i>>
        BY <2>3, UnitsAre
    <3>2. x # r
        BY <3>1
    <3> QED
        BY <3>1, <3>2, UnitsAre
  <2> HIDE DEF N
  <2> QED
      BY <2>1, <2>2, <2>3
<1>2. Units(f) \cap N = {}
  <2> SUFFICES ASSUME NEW u \in Units(f), u \in N PROVE FALSE
      OBVIOUS
  <2>1. PICK x \in DOMAIN f, i \in Int : i \in 1..f[x] /\ u = <<x, i>>
      BY UnitsAre
  <2>2. u[1] = r
      OBVIOUS
  <2>3. x = r
      BY <2>1, <2>2
  <2> QED
      BY <2>1, <2>3
<1>3. g[r] \in Nat
    BY DEF Summable
<1>4. IsFiniteSet(N) /\ Cardinality(N) = g[r]
    BY <1>3, UnitsOfOne
<1>5. IsFiniteSet(Units(f)) /\ Sum(f) \in Nat
    BY UnitsFinite
<1> HIDE DEF N
<1>6. Cardinality(Units(f) \cup N)
        = Cardinality(Units(f)) + Cardinality(N) - Cardinality(Units(f) \cap N)
    BY <1>4, <1>5, FS_Union
<1>7. Cardinality(Units(f) \cap N) = 0
    BY <1>2, FS_EmptySet
<1> QED
    BY <1>1, <1>3, <1>4, <1>5, <1>6, <1>7 DEF Sum

\* What sets that have nothing in common count together.
LEMMA SumOfParts ==
    ASSUME NEW G, NEW c, NEW T, IsFiniteSet(DOMAIN G), DOMAIN c = DOMAIN G,
           \A k \in DOMAIN G : IsFiniteSet(G[k]) /\ c[k] = Cardinality(G[k]),
           \A k, l \in DOMAIN G : k # l => G[k] \cap G[l] = {},
           \A x : x \in T <=> \E k \in DOMAIN G : x \in G[k]
    PROVE  Sum(c) = Cardinality(T)
<1> DEFINE IsCount(k, h) == h \in Bijection(1..c[k], G[k])
           b == [k \in DOMAIN G |-> CHOOSE h : IsCount(k, h)]
           m == [u \in Units(c) |-> b[u[1]][u[2]]]
<1>1. Summable(c)
    BY FS_CardinalityType DEF Summable
<1>2. \A k \in DOMAIN G : IsCount(k, b[k])
  <2> SUFFICES ASSUME NEW k \in DOMAIN G PROVE IsCount(k, b[k])
      OBVIOUS
  <2>1. ExistsBijection(1..c[k], G[k])
      BY FS_CardinalityType
  <2>2. \E h : IsCount(k, h)
      BY <2>1 DEF ExistsBijection
  <2> HIDE DEF IsCount
  <2> QED
      BY <2>2
<1> HIDE DEF b
<1>3. \A k \in DOMAIN G : /\ \A i \in 1..c[k] : b[k][i] \in G[k]
                          /\ \A i, j \in 1..c[k] : b[k][i] = b[k][j] => i = j
                          /\ \A x \in G[k] : \E i \in 1..c[k] : b[k][i] = x
  <2> SUFFICES ASSUME NEW k \in DOMAIN G
               PROVE  /\ \A i \in 1..c[k] : b[k][i] \in G[k]
                      /\ \A i, j \in 1..c[k] : b[k][i] = b[k][j] => i = j
                      /\ \A x \in G[k] : \E i \in 1..c[k] : b[k][i] = x
      OBVIOUS
  <2> DEFINE h == b[k]
  <2>1. h \in Bijection(1..c[k], G[k])
      BY <1>2
  <2> HIDE DEF h
  <2>2. /\ h \in [1..c[k] -> G[k]] /\ IsInjective(h)
        /\ \A x \in G[k] : \E i \in 1..c[k] : h[i] = x
      BY <2>1 DEF Bijection, Injection, Surjection
  <2>3. \A i, j \in 1..c[k] : h[i] = h[j] => i = j
      BY <2>2 DEF IsInjective
  <2> QED
      BY <2>2, <2>3 DEF h
<1>4. \A u \in Units(c) : /\ u[1] \in DOMAIN G /\ u[2] \in 1..c[u[1]]
                          /\ u = <<u[1], u[2]>>
  <2> SUFFICES ASSUME NEW u \in Units(c)
               PROVE  u[1] \in DOMAIN G /\ u[2] \in 1..c[u[1]] /\ u = <<u[1], u[2]>>
      OBVIOUS
  <2>1. PICK k \in DOMAIN c, i \in Int : i \in 1..c[k] /\ u = <<k, i>>
      BY UnitsAre
  <2> QED
      BY <2>1
<1>5. m \in [Units(c) -> T]
    BY <1>3, <1>4
<1>6. ASSUME NEW u \in Units(c), NEW v \in Units(c), m[u] = m[v] PROVE u = v
  <2>1. b[u[1]][u[2]] = b[v[1]][v[2]]
      BY <1>6
  <2>2. b[u[1]][u[2]] \in G[u[1]] /\ b[v[1]][v[2]] \in G[v[1]]
      BY <1>3, <1>4
  <2>3. u[1] = v[1]
      BY <1>4, <2>1, <2>2
  <2>4. u[2] = v[2]
      BY <1>3, <1>4, <2>1, <2>3
  <2> QED
      BY <1>4, <2>3, <2>4
<1>7. ASSUME NEW x \in T PROVE \E u \in Units(c) : m[u] = x
  <2>1. PICK k \in DOMAIN G : x \in G[k]
      OBVIOUS
  <2>2. PICK i \in 1..c[k] : b[k][i] = x
      BY <1>3, <2>1
  <2>3. <<k, i>> \in Units(c)
      BY <2>1, <2>2, UnitsAre
  <2> QED
      BY <2>2, <2>3
<1> HIDE DEF m
<1>8. m \in Bijection(Units(c), T)
    BY <1>5, <1>6, <1>7 DEF Bijection, Injection, Surjection, IsInjective
<1>9. IsFiniteSet(Units(c)) /\ ExistsBijection(Units(c), T)
    BY <1>1, <1>8, UnitsFinite DEF ExistsBijection
<1> QED
    BY <1>9, FS_Bijection DEF Sum

\* The same for a set of pairs made of parts: the units of a sum over the union
\* are those of the sums over the parts.
LEMMA SumOfSums ==
    ASSUME NEW f, Summable(f), NEW key, DOMAIN key = DOMAIN f,
           NEW c, \A k : k \in DOMAIN c <=> \E x \in DOMAIN f : k = key[x],
           \A k \in DOMAIN c :
               \E g : /\ c[k] = Sum(g)
                      /\ \A x : x \in DOMAIN g <=> x \in DOMAIN f /\ key[x] = k
                      /\ \A x \in DOMAIN g : g[x] = f[x]
    PROVE  Sum(c) = Sum(f)
<1> DEFINE G == [k \in DOMAIN c |-> {u \in Units(f) : key[u[1]] = k}]
<1>1. IsFiniteSet(Units(f))
    BY UnitsFinite
<1>2. IsFiniteSet(DOMAIN c)
  <2>1. IsFiniteSet(DOMAIN key)
      BY DEF Summable
  <2>2. \A k : k \in DOMAIN c <=> \E x \in DOMAIN key : k = key[x]
      OBVIOUS
  <2> QED
      BY <2>1, <2>2, RangeFinite
<1>3. \A k \in DOMAIN G : IsFiniteSet(G[k])
    BY <1>1, FS_Subset
<1>4. ASSUME NEW k \in DOMAIN c PROVE c[k] = Cardinality(G[k])
  <2>1. PICK g : /\ c[k] = Sum(g)
                 /\ \A x : x \in DOMAIN g <=> x \in DOMAIN f /\ key[x] = k
                 /\ \A x \in DOMAIN g : g[x] = f[x]
      BY <1>4
  <2>2. ASSUME NEW u \in Units(g) PROVE u \in G[k]
    <3>1. PICK x \in DOMAIN g, i \in Int : i \in 1..g[x] /\ u = <<x, i>>
        BY <2>2, UnitsAre
    <3>2. u \in Units(f)
        BY <2>1, <3>1, UnitsAre
    <3>3. u[1] = x
        BY <3>1
    <3> QED
        BY <1>4, <2>1, <3>1, <3>2, <3>3
  <2>3. ASSUME NEW u \in G[k] PROVE u \in Units(g)
    <3>1. u \in Units(f) /\ key[u[1]] = k
        BY <1>4, <2>3
    <3>2. PICK x \in DOMAIN f, i \in Int : i \in 1..f[x] /\ u = <<x, i>>
        BY <3>1, UnitsAre
    <3>3. key[x] = k
        BY <3>1, <3>2
    <3> QED
        BY <2>1, <3>2, <3>3, UnitsAre
  <2>4. Units(g) = G[k]
      BY <2>2, <2>3
  <2> QED
      BY <2>1, <2>4 DEF Sum
<1>5. \A k, l \in DOMAIN G : k # l => G[k] \cap G[l] = {}
    OBVIOUS
<1>6. ASSUME NEW u PROVE u \in Units(f) <=> \E k \in DOMAIN G : u \in G[k]
  <2>1. ASSUME u \in Units(f) PROVE key[u[1]] \in DOMAIN c
    <3>1. PICK x \in DOMAIN f, i \in Int : i \in 1..f[x] /\ u = <<x, i>>
        BY <2>1, UnitsAre
    <3> QED
        BY <3>1
  <2> QED
      BY <2>1
<1>7. IsFiniteSet(DOMAIN G) /\ DOMAIN c = DOMAIN G
    BY <1>2
<1>8. \A k \in DOMAIN G : IsFiniteSet(G[k]) /\ c[k] = Cardinality(G[k])
    BY <1>3, <1>4
<1> HIDE DEF G
<1>9. Sum(c) = Cardinality(Units(f))
    BY <1>5, <1>6, <1>7, <1>8, SumOfParts
<1> QED
    BY <1>9 DEF Sum

-----------------------------------------------------------------------------
(* The invariant of the rows and of who is at work on them.                 *)

RunStatus == {"validating", "completed", "failed", "expired", "deleted"}

RunRow ==
    [sub : Submission, status : RunStatus, dispatched : BOOLEAN,
     outcome : Outcome \cup {NoOutcome}, tokens : Nat, cost : Nat,
     createdAt : Nat, completedAt : Nat,
     completed : BOOLEAN, failed : BOOLEAN, gone : BOOLEAN]

\* Both repositories hold the same rows.
FiguresType ==
    /\ clock \in 1..MaxClock
    /\ executor \in [Run -> {"idle", "running", "failing", "ended", "stopped"}]
    /\ DOMAIN rows \subseteq Run
    /\ rows \in [DOMAIN rows -> RunRow]
    /\ memory = rows

\* What results were stored, and when: a cost is one of a dispatched run with
\* a usage, and a run without results has neither.
CompletedRow(row) ==
    /\ row.outcome \in Outcome /\ row.completedAt <= clock
    /\ row.cost > 0 => row.dispatched /\ row.tokens > 0
OpenRow(row) ==
    row.outcome = NoOutcome /\ row.status # "completed" /\ row.tokens = 0 /\ row.cost = 0
RowOk(row) ==
    /\ row.createdAt <= clock
    /\ row.completed => CompletedRow(row)
    /\ ~row.completed => OpenRow(row)
    /\ row.gone <=> row.status \in {"expired", "deleted"}

\* An executor at work has neither failed its run nor lost its document; what
\* it stored without knowing it, it takes for a failure.
RunOk(r) ==
    LET row == rows[r] IN
    /\ r \in DOMAIN rows => RowOk(row)
    /\ executor[r] = "idle" <=> r \notin DOMAIN rows
    /\ executor[r] \in {"running", "failing"} =>
         ~row.gone /\ ~row.failed /\ clock <= row.createdAt + 1
    /\ executor[r] = "running" => ~row.completed
    /\ executor[r] = "failing" => r \in lost
    /\ r \in DOMAIN rows /\ row.completed /\ row.failed => r \in lost

RowsInv == \A r \in Run : RunOk(r)

LEMMA CreatedRow ==
    ASSUME FiguresType, NEW s \in Submission
    PROVE  Created(s) \in RunRow /\ RowOk(Created(s))
BY FiguresAssumption DEF FiguresType, Created, RunRow, RunStatus, RowOk, OpenRow, NotYet

LEMMA DispatchedRow ==
    ASSUME NEW row \in RunRow, NEW new, new = [row EXCEPT !.dispatched = TRUE]
    PROVE  /\ new \in RunRow /\ new.dispatched
           /\ new.sub = row.sub /\ new.status = row.status /\ new.outcome = row.outcome
           /\ new.tokens = row.tokens /\ new.cost = row.cost
           /\ new.createdAt = row.createdAt /\ new.completedAt = row.completedAt
           /\ new.completed = row.completed /\ new.failed = row.failed /\ new.gone = row.gone
           /\ row.dispatched => new = row
BY DEF RunRow

LEMMA SavedRow ==
    ASSUME NEW row \in RunRow, NEW result, result.outcome \in Outcome,
           result.tokens \in Nat, result.cost \in Nat, clock \in Nat
    PROVE  LET new == Saved(row, result) IN
           /\ new \in RunRow /\ new.completed
           /\ new.status = "completed" /\ new.outcome = result.outcome
           /\ new.tokens = result.tokens /\ new.cost = result.cost /\ new.completedAt = clock
           /\ new.sub = row.sub /\ new.dispatched = row.dispatched
           /\ new.createdAt = row.createdAt
           /\ new.failed = row.failed /\ new.gone = row.gone
BY DEF RunRow, RunStatus, Saved

LEMMA FailedRow ==
    ASSUME NEW row \in RunRow
    PROVE  LET new == Failed(row) IN
           /\ new \in RunRow /\ new.failed /\ new.status = "failed"
           /\ new.sub = row.sub /\ new.outcome = row.outcome /\ new.dispatched = row.dispatched
           /\ new.tokens = row.tokens /\ new.cost = row.cost
           /\ new.createdAt = row.createdAt /\ new.completedAt = row.completedAt
           /\ new.completed = row.completed /\ new.gone = row.gone
BY DEF RunRow, RunStatus, Failed

LEMMA TombstoneRow ==
    ASSUME NEW row \in RunRow, NEW status \in {"expired", "deleted"}
    PROVE  LET new == Tombstone(row, status) IN
           /\ new \in RunRow /\ new.gone /\ new.status = status
           /\ new.sub = row.sub /\ new.outcome = row.outcome /\ new.dispatched = row.dispatched
           /\ new.tokens = row.tokens /\ new.cost = row.cost
           /\ new.createdAt = row.createdAt /\ new.completedAt = row.completedAt
           /\ new.completed = row.completed /\ new.failed = row.failed
BY DEF RunRow, RunStatus, Tombstone

\* What a step leaves of a run it does not touch.
LEMMA RunUntouched ==
    ASSUME NEW q \in Run, RunOk(q), clock' = clock, executor'[q] = executor[q],
           q \in DOMAIN rows' <=> q \in DOMAIN rows,
           q \in DOMAIN rows => rows'[q] = rows[q],
           q \in lost' <=> q \in lost
    PROVE  RunOk(q)'
<1>1. CASE q \in DOMAIN rows
    BY <1>1 DEF RunOk, RowOk, CompletedRow, OpenRow
<1>2. CASE q \notin DOMAIN rows
    BY <1>2 DEF RunOk
<1> QED
    BY <1>1, <1>2

\* The one row a step changes, in both repositories.
OneRow(r, new) ==
    /\ DOMAIN rows' = DOMAIN rows /\ rows' \in [DOMAIN rows -> RunRow] /\ memory' = rows'
    /\ rows'[r] = new /\ \A q \in DOMAIN rows : q # r => rows'[q] = rows[q]

LEMMA OneRowIs ==
    ASSUME FiguresType, NEW r \in DOMAIN rows, NEW new \in RunRow,
           rows' = [rows EXCEPT ![r] = new], memory' = rows'
    PROVE  OneRow(r, new)
BY DEF FiguresType, OneRow

\* A step on one row keeps the types and what it says of the other runs.
LEMMA OneRowKeeps ==
    ASSUME FiguresType, RowsInv, NEW r \in DOMAIN rows, NEW new, OneRow(r, new),
           NEW at \in {"idle", "running", "failing", "ended", "stopped"},
           executor' = [executor EXCEPT ![r] = at], clock' = clock,
           lost' = lost \/ lost' = lost \cup {r},
           RunOk(r)'
    PROVE  FiguresType' /\ RowsInv'
<1>1. FiguresType'
    BY DEF FiguresType, OneRow
<1>2. ASSUME NEW q \in Run, q # r PROVE RunOk(q)'
  <2>1. /\ executor'[q] = executor[q]
        /\ q \in DOMAIN rows' <=> q \in DOMAIN rows
        /\ q \in DOMAIN rows => rows'[q] = rows[q]
        /\ q \in lost' <=> q \in lost
      BY <1>2 DEF FiguresType, OneRow
  <2>2. RunOk(q)
      BY DEF RowsInv
  <2> QED
      BY <2>1, <2>2, RunUntouched
<1> QED
    BY <1>1, <1>2 DEF RowsInv

LEMMA AtWorkHasRow ==
    ASSUME FiguresType, RowsInv, NEW r \in Run, executor[r] # "idle"
    PROVE  r \in DOMAIN rows /\ RunOk(r) /\ RowOk(rows[r]) /\ rows[r] \in RunRow
BY DEF FiguresType, RowsInv, RunOk

LEMMA CreateKeepsRows ==
    ASSUME FiguresType, RowsInv,
           NEW r \in Run, NEW s \in Submission, Create(r, s)
    PROVE  /\ FiguresType' /\ RowsInv'
           /\ r \notin DOMAIN rows /\ DOMAIN rows' = DOMAIN rows \cup {r}
           /\ rows'[r] = Created(s) /\ \A q \in DOMAIN rows : rows'[q] = rows[q]
<1>1. r \notin DOMAIN rows
    BY DEF Create, RowsInv, RunOk
<1>2. Created(s) \in RunRow /\ RowOk(Created(s))
    BY CreatedRow
<1>3. /\ DOMAIN rows' = DOMAIN rows \cup {r} /\ memory' = rows'
      /\ rows'[r] = Created(s) /\ \A q \in DOMAIN rows : rows'[q] = rows[q]
    BY <1>1 DEF Create, Inserted, FiguresType
<1>4. rows' \in [DOMAIN rows' -> RunRow]
    BY <1>1, <1>2 DEF Create, Inserted, FiguresType
<1>5. executor' = [executor EXCEPT ![r] = "running"] /\ clock' = clock /\ lost' = lost
    BY DEF Create
<1>6. FiguresType'
    BY <1>3, <1>4, <1>5 DEF FiguresType
<1>7. ASSUME NEW q \in Run, q # r PROVE RunOk(q)'
  <2>1. /\ executor'[q] = executor[q]
        /\ q \in DOMAIN rows' <=> q \in DOMAIN rows
        /\ q \in DOMAIN rows => rows'[q] = rows[q]
      BY <1>3, <1>5, <1>7 DEF FiguresType
  <2>2. RunOk(q)
      BY DEF RowsInv
  <2> QED
      BY <1>5, <2>1, <2>2, RunUntouched
<1>8. RunOk(r)'
  <2>1. executor'[r] = "running" /\ r \in DOMAIN rows'
      BY <1>3, <1>5 DEF FiguresType
  <2>2. RowOk(rows[r])'
      BY <1>2, <1>3, <1>5 DEF RowOk, CompletedRow, OpenRow
  <2>3. /\ ~rows'[r].gone /\ ~rows'[r].failed /\ ~rows'[r].completed
        /\ clock <= rows'[r].createdAt + 1
      BY <1>3 DEF Created, FiguresType
  <2> QED
      BY <1>5, <2>1, <2>2, <2>3 DEF RunOk
<1> QED
    BY <1>1, <1>3, <1>6, <1>7, <1>8 DEF RowsInv

LEMMA DispatchKeepsRows ==
    ASSUME FiguresType, RowsInv, NEW r \in Run, Dispatch(r)
    PROVE  /\ FiguresType' /\ RowsInv'
           /\ r \in DOMAIN rows /\ ~rows[r].gone /\ rows[r].sub.mode = "live"
           /\ OneRow(r, [rows[r] EXCEPT !.dispatched = TRUE])
<1> DEFINE new == [rows[r] EXCEPT !.dispatched = TRUE]
<1>1. /\ r \in DOMAIN rows /\ RunOk(r) /\ RowOk(rows[r]) /\ rows[r] \in RunRow
      /\ executor[r] = "running"
    BY AtWorkHasRow DEF Dispatch
<1>2. ~rows[r].gone /\ rows[r].sub.mode = "live"
    BY <1>1 DEF RunOk, Dispatch
<1>3. rows' = [rows EXCEPT ![r] = new]
    BY <1>2 DEF Dispatch, RowsDispatch
<1>4. new \in RunRow /\ (rows[r].dispatched => new = rows[r])
    BY <1>1, DispatchedRow
<1>5. memory' = rows'
  <2>1. CASE rows[r].dispatched
    <3>1. memory' = memory
        BY <2>1 DEF Dispatch, MemoryDispatch, FiguresType
    <3>2. rows' = rows
        BY <1>1, <1>3, <1>4, <2>1 DEF FiguresType
    <3> QED
        BY <3>1, <3>2 DEF FiguresType
  <2>2. CASE ~rows[r].dispatched
      BY <1>2, <1>3, <2>2 DEF Dispatch, MemoryDispatch, FiguresType
  <2> QED
      BY <2>1, <2>2
<1>6. OneRow(r, new)
  <2> HIDE DEF new
  <2> QED
      BY <1>1, <1>3, <1>4, <1>5, OneRowIs
<1>7. RunOk(r)'
  <2>1. /\ DOMAIN rows' = DOMAIN rows /\ executor'[r] = "running" /\ clock' = clock /\ lost' = lost
        /\ rows'[r] = new
      BY <1>1, <1>6 DEF OneRow, Dispatch
  <2>2. /\ new.status = rows[r].status /\ new.outcome = rows[r].outcome
        /\ new.tokens = rows[r].tokens /\ new.cost = rows[r].cost
        /\ new.createdAt = rows[r].createdAt /\ new.completedAt = rows[r].completedAt
        /\ new.completed = rows[r].completed /\ new.failed = rows[r].failed
        /\ new.gone = rows[r].gone /\ new.dispatched
      BY <1>1, DispatchedRow
  <2> HIDE DEF new
  <2>3. RowOk(rows[r])'
      BY <1>1, <2>1, <2>2 DEF RowOk, CompletedRow, OpenRow
  <2> QED
      BY <1>1, <2>1, <2>2, <2>3 DEF RunOk
<1>8. executor' = [executor EXCEPT ![r] = "running"] /\ clock' = clock /\ lost' = lost
    BY <1>1 DEF Dispatch, FiguresType
<1> HIDE DEF new
<1>9. FiguresType' /\ RowsInv'
    BY <1>1, <1>6, <1>7, <1>8, OneRowKeeps
<1> QED
    BY <1>1, <1>2, <1>6, <1>9 DEF new

\* What is stored with a run: a cost only of a dispatched run with a usage.
LEMMA BilledIs ==
    ASSUME FiguresType, RowsInv, NEW r \in Run, NEW result \in Result, NEW answered \in BOOLEAN,
           Save(r, result, answered)
    PROVE  /\ Billed(r, result).outcome = result.outcome /\ result.outcome \in Outcome
           /\ Billed(r, result).tokens \in Nat /\ Billed(r, result).cost \in Nat
           /\ Billed(r, result).cost > 0 => rows[r].dispatched /\ Billed(r, result).tokens > 0
<1>1. result.outcome \in Outcome
    BY DEF Save, OutcomesOf, Outcome
<1>2. result.tokens \in Nat /\ result.cost \in Nat /\ (result.tokens = 0 => result.cost = 0)
    BY FiguresAssumption
<1>3. CASE rows[r].sub.mode = "live"
    BY <1>1, <1>2, <1>3 DEF Billed, Save
<1>4. CASE rows[r].sub.mode # "live"
    BY <1>1, <1>4 DEF Billed
<1> QED
    BY <1>3, <1>4

LEMMA SaveKeepsRows ==
    ASSUME FiguresType, RowsInv, NEW r \in Run, NEW result \in Result, NEW answered \in BOOLEAN,
           Save(r, result, answered)
    PROVE  /\ FiguresType' /\ RowsInv'
           /\ r \in DOMAIN rows /\ rows[r] \in RunRow /\ RowOk(rows[r]) /\ ~rows[r].completed
           /\ OneRow(r, Saved(rows[r], Billed(r, result)))
<1> DEFINE b == Billed(r, result)
           new == Saved(rows[r], b)
<1>1. /\ r \in DOMAIN rows /\ RunOk(r) /\ RowOk(rows[r]) /\ rows[r] \in RunRow
      /\ executor[r] = "running"
    BY AtWorkHasRow DEF Save
<1>2. ~rows[r].gone /\ ~rows[r].completed /\ ~rows[r].failed /\ clock <= rows[r].createdAt + 1
    BY <1>1 DEF RunOk
<1>3. /\ b.outcome \in Outcome /\ b.tokens \in Nat /\ b.cost \in Nat
      /\ b.cost > 0 => rows[r].dispatched /\ b.tokens > 0
    BY BilledIs
<1>4. clock \in Nat
    BY FiguresAssumption DEF FiguresType
<1>5. rows' = [rows EXCEPT ![r] = new] /\ memory' = rows'
    BY <1>1, <1>2 DEF Save, RowsSave, MemorySave, FiguresType
<1> HIDE DEF b
<1>6. /\ new \in RunRow /\ new.completed /\ new.status = "completed"
      /\ new.outcome = b.outcome /\ new.tokens = b.tokens /\ new.cost = b.cost
      /\ new.completedAt = clock /\ new.sub = rows[r].sub
      /\ new.dispatched = rows[r].dispatched /\ new.createdAt = rows[r].createdAt
      /\ new.failed = rows[r].failed /\ new.gone = rows[r].gone
    BY <1>1, <1>3, <1>4, SavedRow
<1> DEFINE at == IF answered THEN "ended" ELSE "failing"
<1>7. /\ executor' = [executor EXCEPT ![r] = at] /\ clock' = clock
      /\ lost' = IF answered THEN lost ELSE lost \cup {r}
    BY DEF Save
<1> HIDE DEF new
<1>8. OneRow(r, new)
    BY <1>1, <1>5, <1>6, OneRowIs
<1>9. RunOk(r)'
  <2>1. DOMAIN rows' = DOMAIN rows /\ executor'[r] = at /\ rows'[r] = new
      BY <1>7, <1>8 DEF OneRow, FiguresType
  <2>2. RowOk(rows[r])'
      BY <1>1, <1>2, <1>3, <1>4, <1>6, <1>7, <2>1 DEF RowOk, CompletedRow
  <2> QED
      BY <1>1, <1>2, <1>6, <1>7, <2>1, <2>2 DEF RunOk
<1>10. FiguresType' /\ RowsInv'
  <2>1. at \in {"idle", "running", "failing", "ended", "stopped"}
      OBVIOUS
  <2>2. lost' = lost \/ lost' = lost \cup {r}
      BY <1>7
  <2> HIDE DEF at
  <2> QED
      BY <1>1, <1>7, <1>8, <1>9, <2>1, <2>2, OneRowKeeps
<1> QED
    BY <1>1, <1>2, <1>8, <1>10 DEF new, b

LEMMA FailKeepsRows ==
    ASSUME FiguresType, RowsInv, NEW r \in Run, Fail(r, TRUE)
    PROVE  /\ FiguresType' /\ RowsInv'
           /\ r \in DOMAIN rows /\ rows[r] \in RunRow /\ ~rows[r].failed
           /\ OneRow(r, Failed(rows[r]))
<1> DEFINE new == Failed(rows[r])
<1>1. /\ r \in DOMAIN rows /\ RunOk(r) /\ RowOk(rows[r]) /\ rows[r] \in RunRow
      /\ executor[r] \in {"running", "failing"}
    BY AtWorkHasRow DEF Fail
<1>2. /\ ~rows[r].gone /\ ~rows[r].failed
      /\ rows[r].completed => r \in lost
    BY <1>1 DEF RunOk
<1>3. rows' = [rows EXCEPT ![r] = new] /\ memory' = rows'
    BY <1>1, <1>2 DEF Fail, RowsFail, MemoryFail, FiguresType
<1>4. /\ new \in RunRow /\ new.failed /\ new.status = "failed"
      /\ new.outcome = rows[r].outcome /\ new.dispatched = rows[r].dispatched
      /\ new.tokens = rows[r].tokens /\ new.cost = rows[r].cost
      /\ new.createdAt = rows[r].createdAt /\ new.completedAt = rows[r].completedAt
      /\ new.completed = rows[r].completed /\ new.gone = rows[r].gone
    BY <1>1, FailedRow
<1> HIDE DEF new
<1>5. executor' = [executor EXCEPT ![r] = "ended"] /\ clock' = clock /\ lost' = lost
    BY DEF Fail
<1>6. OneRow(r, new)
    BY <1>1, <1>3, <1>4, OneRowIs
<1>7. RunOk(r)'
  <2>1. DOMAIN rows' = DOMAIN rows /\ executor'[r] = "ended" /\ rows'[r] = new
      BY <1>5, <1>6 DEF OneRow, FiguresType
  <2>2. RowOk(rows[r])'
      BY <1>1, <1>2, <1>4, <1>5, <2>1 DEF RowOk, CompletedRow, OpenRow
  <2> QED
      BY <1>1, <1>2, <1>4, <1>5, <2>1, <2>2 DEF RunOk
<1>8. FiguresType' /\ RowsInv'
    BY <1>1, <1>5, <1>6, <1>7, OneRowKeeps
<1> QED
    BY <1>1, <1>2, <1>6, <1>8 DEF new

\* What the figures of all time are made of, and a step keeps of every run.
TableCounts(old, new) ==
    /\ new.sub = old.sub /\ new.createdAt = old.createdAt
    /\ new.completed = old.completed /\ new.failed = old.failed
    /\ new.outcome = old.outcome /\ new.completedAt = old.completedAt
    /\ new.dispatched = old.dispatched
    /\ new.tokens = old.tokens /\ new.cost = old.cost
RunsStay == DOMAIN rows' = DOMAIN rows /\ \A q \in DOMAIN rows : TableCounts(rows[q], rows'[q])

LEMMA RemoveKeepsRows ==
    ASSUME FiguresType, RowsInv, NEW R, NEW status \in {"expired", "deleted"},
           MemoryRemove(R, status), RowsRemove(R, status),
           clock' = clock, lost' = lost,
           executor' \in [Run -> {"idle", "running", "failing", "ended", "stopped"}],
           \A q \in DOMAIN rows : q \in R => executor'[q] \in {"ended", "stopped"},
           \A q \in Run : q \notin R \/ q \notin DOMAIN rows => executor'[q] = executor[q]
    PROVE  FiguresType' /\ RowsInv' /\ RunsStay
<1>1. /\ DOMAIN rows' = DOMAIN rows /\ memory' = rows'
      /\ \A q \in DOMAIN rows :
           rows'[q] = IF q \in R /\ ~rows[q].gone THEN Tombstone(rows[q], status) ELSE rows[q]
    BY DEF MemoryRemove, RowsRemove, Removed, FiguresType
<1>2. ASSUME NEW q \in DOMAIN rows, q \in R, ~rows[q].gone
      PROVE  /\ rows'[q] \in RunRow /\ TableCounts(rows[q], rows'[q])
             /\ rows'[q].gone /\ rows'[q].status = status
  <2>1. rows[q] \in RunRow
      BY DEF FiguresType
  <2> QED
      BY <1>1, <1>2, <2>1, TombstoneRow DEF TableCounts
<1>3. \A q \in DOMAIN rows : rows'[q] \in RunRow /\ TableCounts(rows[q], rows'[q])
    BY <1>1, <1>2 DEF TableCounts, FiguresType
<1>4. FiguresType'
  <2>1. rows' = [q \in DOMAIN rows' |-> rows'[q]]
      BY DEF RowsRemove, Removed
  <2> QED
      BY <1>1, <1>3, <2>1 DEF FiguresType
<1>5. ASSUME NEW q \in Run PROVE RunOk(q)'
  <2>1. RunOk(q)
      BY DEF RowsInv
  <2>2. CASE q \in DOMAIN rows /\ q \in R /\ ~rows[q].gone
    <3>1. /\ rows'[q].gone /\ rows'[q].status = status /\ TableCounts(rows[q], rows'[q])
          /\ executor'[q] \in {"ended", "stopped"} /\ q \in DOMAIN rows'
        BY <1>1, <1>2, <2>2
    <3>2. RowOk(rows[q])
        BY <2>1, <2>2 DEF RunOk
    <3>3. RowOk(rows[q])'
        BY <3>1, <3>2 DEF RowOk, CompletedRow, OpenRow, TableCounts
    <3> QED
        BY <2>1, <3>1, <3>3 DEF RunOk, TableCounts
  <2>3. CASE q \in DOMAIN rows /\ q \in R /\ rows[q].gone
    <3>1. rows'[q] = rows[q] /\ executor'[q] \in {"ended", "stopped"} /\ q \in DOMAIN rows'
        BY <1>1, <2>3
    <3>2. RowOk(rows[q])'
        BY <2>1, <2>3, <3>1 DEF RunOk, RowOk, CompletedRow, OpenRow
    <3> QED
        BY <2>1, <2>3, <3>1, <3>2 DEF RunOk
  <2>4. CASE q \notin DOMAIN rows \/ q \notin R
    <3>1. /\ executor'[q] = executor[q]
          /\ q \in DOMAIN rows' <=> q \in DOMAIN rows
          /\ q \in DOMAIN rows => rows'[q] = rows[q]
        BY <1>1, <2>4
    <3> QED
        BY <2>1, <3>1, RunUntouched
  <2> QED
      BY <2>2, <2>3, <2>4
<1> QED
    BY <1>1, <1>3, <1>4, <1>5 DEF RowsInv, RunsStay

LEMMA CancelKeepsRows ==
    ASSUME FiguresType, RowsInv, NEW r \in Run, Cancel(r)
    PROVE  FiguresType' /\ RowsInv' /\ RunsStay
<1>1. /\ executor' \in [Run -> {"idle", "running", "failing", "ended", "stopped"}]
      /\ executor'[r] = "stopped" /\ \A q \in Run : q # r => executor'[q] = executor[q]
    BY DEF Cancel, FiguresType
<1>2. r \in DOMAIN rows
    BY AtWorkHasRow DEF Cancel
<1>3. MemoryRemove({r}, "deleted") /\ RowsRemove({r}, "deleted") /\ clock' = clock /\ lost' = lost
    BY DEF Cancel
<1> QED
    BY <1>1, <1>2, <1>3, RemoveKeepsRows

LEMMA DeleteKeepsRows ==
    ASSUME FiguresType, RowsInv, NEW r \in Run, Delete(r)
    PROVE  FiguresType' /\ RowsInv' /\ RunsStay
<1>1. /\ executor' = executor /\ executor[r] = "ended"
      /\ executor' \in [Run -> {"idle", "running", "failing", "ended", "stopped"}]
    BY DEF Delete, FiguresType
<1>2. MemoryRemove({r}, "deleted") /\ RowsRemove({r}, "deleted") /\ clock' = clock /\ lost' = lost
    BY DEF Delete
<1> QED
    BY <1>1, <1>2, RemoveKeepsRows

LEMMA PurgeKeepsRows ==
    ASSUME FiguresType, RowsInv, Purge
    PROVE  FiguresType' /\ RowsInv' /\ RunsStay
<1> DEFINE R == {r \in DOMAIN rows : IsExpired(rows[r])}
<1>1. /\ executor' = executor
      /\ executor' \in [Run -> {"idle", "running", "failing", "ended", "stopped"}]
    BY DEF Purge, FiguresType
<1>2. MemoryRemove(R, "expired") /\ RowsRemove(R, "expired") /\ clock' = clock /\ lost' = lost
    BY DEF Purge, FiguresType
<1>3. ASSUME NEW q \in DOMAIN rows, q \in R PROVE executor[q] \in {"ended", "stopped"}
  <2>1. q \in Run /\ RunOk(q) /\ rows[q] \in RunRow
      BY DEF FiguresType, RowsInv
  <2>2. rows[q].createdAt + Retention <= clock /\ rows[q].createdAt \in Nat /\ clock \in Nat
      BY <1>3, <2>1, FiguresAssumption DEF IsExpired, ExpiresAt, RunRow, FiguresType
  <2>3. Retention \in Nat /\ Retention > 1
      BY FiguresAssumption
  <2>4. ~(clock <= rows[q].createdAt + 1)
      BY <2>2, <2>3
  <2>5. executor[q] \in {"idle", "running", "failing", "ended", "stopped"}
      BY <2>1 DEF FiguresType
  <2> QED
      BY <2>1, <2>4, <2>5 DEF RunOk
<1> HIDE DEF R
<1> QED
    BY <1>1, <1>2, <1>3, RemoveKeepsRows

\* A step that touches no row.
LEMMA RowsStayOk ==
    ASSUME NEW q \in Run, RunOk(q), FiguresType, rows' = rows, lost' = lost,
           clock' \in Nat, clock <= clock',
           \/ executor'[q] = executor[q] /\ clock' = clock
           \/ executor'[q] = executor[q] /\ executor[q] \notin {"running", "failing"}
           \/ executor'[q] = executor[q] /\ clock' <= rows[q].createdAt + 1
           \/ executor[q] # "idle" /\ executor'[q] \in {"ended", "stopped"}
    PROVE  RunOk(q)'
<1>1. RunOk(q)
    OBVIOUS
<1>2. clock \in Nat
    BY FiguresAssumption DEF FiguresType
<1>3. ASSUME q \in DOMAIN rows PROVE RowOk(rows[q])'
  <2>1. RowOk(rows[q]) /\ rows[q] \in RunRow
      BY <1>1, <1>3 DEF RunOk, FiguresType
  <2>2. rows[q].createdAt \in Nat /\ rows[q].completedAt \in Nat
      BY <2>1 DEF RunRow
  <2>3. rows[q].createdAt <= clock => rows[q].createdAt <= clock'
      BY <1>2, <2>2
  <2>4. rows[q].completedAt <= clock => rows[q].completedAt <= clock'
      BY <1>2, <2>2
  <2> QED
      BY <2>1, <2>3, <2>4 DEF RowOk, CompletedRow, OpenRow
<1> QED
    BY <1>1, <1>3 DEF RunOk

LEMMA CrashKeepsRows ==
    ASSUME FiguresType, RowsInv, NEW r \in Run, Crash(r)
    PROVE  FiguresType' /\ RowsInv' /\ RunsStay
<1>1. /\ executor' = [executor EXCEPT ![r] = "stopped"] /\ executor[r] # "idle"
      /\ clock' = clock /\ rows' = rows /\ memory' = memory /\ lost' = lost
    BY DEF Crash
<1>2. FiguresType'
    BY <1>1 DEF FiguresType
<1>3. ASSUME NEW q \in Run PROVE RunOk(q)'
  <2>1. RunOk(q) /\ clock' \in Nat /\ clock <= clock'
      BY <1>1, FiguresAssumption DEF RowsInv, FiguresType
  <2>2. executor'[q] = IF q = r THEN "stopped" ELSE executor[q]
      BY <1>1 DEF FiguresType
  <2> QED
      BY <1>1, <2>1, <2>2, RowsStayOk
<1> QED
    BY <1>1, <1>2, <1>3 DEF RowsInv, RunsStay, TableCounts

LEMMA UnwrittenKeepsRows ==
    ASSUME FiguresType, RowsInv, NEW r \in Run, Fail(r, FALSE)
    PROVE  FiguresType' /\ RowsInv' /\ RunsStay /\ counters' = counters
<1>1. /\ executor' = [executor EXCEPT ![r] = "ended"] /\ executor[r] # "idle"
      /\ clock' = clock /\ rows' = rows /\ memory' = memory /\ lost' = lost /\ counters' = counters
    BY DEF Fail
<1>2. FiguresType'
    BY <1>1 DEF FiguresType
<1>3. ASSUME NEW q \in Run PROVE RunOk(q)'
  <2>1. RunOk(q) /\ clock' \in Nat /\ clock <= clock'
      BY <1>1, FiguresAssumption DEF RowsInv, FiguresType
  <2>2. executor'[q] = IF q = r THEN "ended" ELSE executor[q]
      BY <1>1 DEF FiguresType
  <2> QED
      BY <1>1, <2>1, <2>2, RowsStayOk
<1> QED
    BY <1>1, <1>2, <1>3 DEF RowsInv, RunsStay, TableCounts

LEMMA ClockKeepsRows ==
    ASSUME FiguresType, RowsInv, ClockTick
    PROVE  FiguresType' /\ RowsInv' /\ RunsStay
<1>1. /\ clock' = clock + 1 /\ clock \in Nat /\ clock' \in 1..MaxClock
      /\ executor' = executor /\ rows' = rows /\ memory' = memory /\ lost' = lost
    BY FiguresAssumption DEF ClockTick, FiguresType
<1>2. FiguresType'
    BY <1>1 DEF FiguresType
<1>3. ASSUME NEW q \in Run PROVE RunOk(q)'
  <2>1. RunOk(q) /\ clock' \in Nat /\ clock <= clock' /\ executor'[q] = executor[q]
      BY <1>1 DEF RowsInv
  <2>2. CASE executor[q] \in {"running", "failing"}
    <3>1. clock = rows[q].createdAt
        BY <2>2 DEF ClockTick
    <3>2. clock' <= rows[q].createdAt + 1
        BY <1>1, <3>1
    <3> QED
        BY <1>1, <2>1, <3>2, RowsStayOk
  <2>3. CASE executor[q] \notin {"running", "failing"}
      BY <1>1, <2>1, <2>3, RowsStayOk
  <2> QED
      BY <2>2, <2>3
<1> QED
    BY <1>1, <1>2, <1>3 DEF RowsInv, RunsStay, TableCounts

-----------------------------------------------------------------------------
(* The running counters.                                                    *)

Usage ==
    [total : Nat, completed : Nat, failed : Nat, tokens : Nat, cost : Nat, review : Nat,
     providers : [Provider -> Nat], outcomes : [Outcome -> Nat]]

CompletedIn(S) == {r \in S : rows[r].completed}
FailedIn(S) == {r \in S : rows[r].failed}
ReviewedIn(S) == {r \in S : rows[r].completed /\ HumanReview(rows[r])}
SentTo(S, p) == {r \in S : rows[r].dispatched /\ rows[r].sub.provider = p}
EndedIn(S, o) == {r \in S : rows[r].outcome = o}

\* The counters are the figures of the rows there are.
CountersInv ==
    /\ counters \in Usage
    /\ counters.total = Cardinality(DOMAIN rows)
    /\ counters.completed = Cardinality(CompletedIn(DOMAIN rows))
    /\ counters.failed = Cardinality(FailedIn(DOMAIN rows))
    /\ counters.review = Cardinality(ReviewedIn(DOMAIN rows))
    /\ counters.tokens = TokensOf(rows, DOMAIN rows)
    /\ counters.cost = CostOf(rows, DOMAIN rows)
    /\ \A p \in Provider : counters.providers[p] = Cardinality(SentTo(DOMAIN rows, p))
    /\ \A o \in Outcome : counters.outcomes[o] = Cardinality(EndedIn(DOMAIN rows, o))

LEMMA RowsFinite ==
    ASSUME FiguresType, NEW S \in SUBSET DOMAIN rows
    PROVE  IsFiniteSet(S) /\ Cardinality(S) \in Nat
<1>1. S \in SUBSET Run
    BY DEF FiguresType
<1> QED
    BY <1>1, FiguresAssumption, FS_Subset, FS_CardinalityType

LEMMA RowsSummable ==
    ASSUME FiguresType, NEW S \in SUBSET DOMAIN rows
    PROVE  /\ Summable([r \in S |-> rows[r].tokens]) /\ TokensOf(rows, S) \in Nat
           /\ Summable([r \in S |-> rows[r].cost]) /\ CostOf(rows, S) \in Nat
<1>1. IsFiniteSet(S)
    BY RowsFinite
<1>2. \A r \in S : rows[r].tokens \in Nat /\ rows[r].cost \in Nat
    BY DEF FiguresType, RunRow
<1> DEFINE f == [r \in S |-> rows[r].tokens]
           g == [r \in S |-> rows[r].cost]
<1>3. Summable(f) /\ Summable(g)
    BY <1>1, <1>2 DEF Summable
<1>4. TokensOf(rows, S) = Sum(f) /\ CostOf(rows, S) = Sum(g)
    BY DEF TokensOf, CostOf
<1>5. Sum(f) \in Nat /\ Sum(g) \in Nat
  <2> HIDE DEF f, g
  <2> QED
      BY <1>3, UnitsFinite
<1> QED
    BY <1>3, <1>4, <1>5

\* A cost counts where there is one.
LEMMA CostsMonotone ==
    ASSUME FiguresType, NEW S \in SUBSET DOMAIN rows, NEW T \in SUBSET DOMAIN rows,
           \A r \in S : rows[r].cost > 0 => r \in T
    PROVE  CostOf(rows, S) <= CostOf(rows, T)
<1> DEFINE f == [r \in S |-> rows[r].cost]
           g == [r \in T |-> rows[r].cost]
<1>1. Summable(f) /\ Summable(g)
    BY RowsSummable
<1>2. \A x \in DOMAIN f : f[x] > 0 => x \in DOMAIN g /\ f[x] <= g[x]
    BY DEF FiguresType, RunRow
<1>3. CostOf(rows, S) = Sum(f) /\ CostOf(rows, T) = Sum(g)
    BY DEF CostOf
<1> HIDE DEF f, g
<1> QED
    BY <1>1, <1>2, <1>3, SumMonotone

LEMMA TokensMonotone ==
    ASSUME FiguresType, NEW S \in SUBSET DOMAIN rows, NEW T \in SUBSET DOMAIN rows,
           \A r \in S : rows[r].tokens > 0 => r \in T
    PROVE  TokensOf(rows, S) <= TokensOf(rows, T)
<1> DEFINE f == [r \in S |-> rows[r].tokens]
           g == [r \in T |-> rows[r].tokens]
<1>1. Summable(f) /\ Summable(g)
    BY RowsSummable
<1>2. \A x \in DOMAIN f : f[x] > 0 => x \in DOMAIN g /\ f[x] <= g[x]
    BY DEF FiguresType, RunRow
<1>3. TokensOf(rows, S) = Sum(f) /\ TokensOf(rows, T) = Sum(g)
    BY DEF TokensOf
<1> HIDE DEF f, g
<1> QED
    BY <1>1, <1>2, <1>3, SumMonotone

\* The sums after a step.
LEMMA SumsStay ==
    ASSUME FiguresType, FiguresType', DOMAIN rows \subseteq DOMAIN rows',
           \A r \in DOMAIN rows :
               rows'[r].tokens = rows[r].tokens /\ rows'[r].cost = rows[r].cost,
           \A r \in DOMAIN rows' \ DOMAIN rows : rows'[r].tokens = 0 /\ rows'[r].cost = 0
    PROVE  /\ TokensOf(rows, DOMAIN rows)' = TokensOf(rows, DOMAIN rows)
           /\ CostOf(rows, DOMAIN rows)' = CostOf(rows, DOMAIN rows)
<1> DEFINE f == [r \in DOMAIN rows |-> rows[r].tokens]
           g == [r \in DOMAIN rows' |-> rows'[r].tokens]
           h == [r \in DOMAIN rows |-> rows[r].cost]
           k == [r \in DOMAIN rows' |-> rows'[r].cost]
<1>1. Summable(f) /\ Summable(h)
    BY RowsSummable
<1>2. Summable(g) /\ Summable(k)
  <2>1. IsFiniteSet(DOMAIN rows')
      BY FiguresAssumption, FS_Subset DEF FiguresType
  <2>2. \A r \in DOMAIN rows' : rows'[r].tokens \in Nat /\ rows'[r].cost \in Nat
      BY DEF FiguresType, RunRow
  <2> QED
      BY <2>1, <2>2 DEF Summable
<1>3. /\ \A x \in DOMAIN f : f[x] > 0 => x \in DOMAIN g /\ g[x] = f[x]
      /\ \A x \in DOMAIN g : g[x] > 0 => x \in DOMAIN f /\ g[x] = f[x]
    OBVIOUS
<1>4. /\ \A x \in DOMAIN h : h[x] > 0 => x \in DOMAIN k /\ k[x] = h[x]
      /\ \A x \in DOMAIN k : k[x] > 0 => x \in DOMAIN h /\ k[x] = h[x]
    OBVIOUS
<1>5. /\ TokensOf(rows, DOMAIN rows) = Sum(f) /\ TokensOf(rows, DOMAIN rows)' = Sum(g)
      /\ CostOf(rows, DOMAIN rows) = Sum(h) /\ CostOf(rows, DOMAIN rows)' = Sum(k)
    BY DEF TokensOf, CostOf, Sum, Units
<1> HIDE DEF f, g, h, k
<1>6. Sum(f) = Sum(g)
    BY <1>1, <1>2, <1>3, SumSame
<1>7. Sum(h) = Sum(k)
    BY <1>1, <1>2, <1>4, SumSame
<1> QED
    BY <1>5, <1>6, <1>7

LEMMA SumsGrow ==
    ASSUME FiguresType, FiguresType', DOMAIN rows' = DOMAIN rows, NEW r \in DOMAIN rows,
           \A q \in DOMAIN rows : q # r => rows'[q] = rows[q],
           rows[r].tokens = 0, rows[r].cost = 0
    PROVE  /\ TokensOf(rows, DOMAIN rows)' = TokensOf(rows, DOMAIN rows) + rows'[r].tokens
           /\ CostOf(rows, DOMAIN rows)' = CostOf(rows, DOMAIN rows) + rows'[r].cost
<1> DEFINE f == [q \in DOMAIN rows |-> rows[q].tokens]
           g == [q \in DOMAIN rows' |-> rows'[q].tokens]
           h == [q \in DOMAIN rows |-> rows[q].cost]
           k == [q \in DOMAIN rows' |-> rows'[q].cost]
<1>1. Summable(f) /\ Summable(h)
    BY RowsSummable
<1>2. Summable(g) /\ Summable(k)
  <2>1. IsFiniteSet(DOMAIN rows')
      BY FiguresAssumption, FS_Subset DEF FiguresType
  <2>2. \A q \in DOMAIN rows' : rows'[q].tokens \in Nat /\ rows'[q].cost \in Nat
      BY DEF FiguresType, RunRow
  <2> QED
      BY <2>1, <2>2 DEF Summable
<1>3. /\ r \in DOMAIN f /\ f[r] = 0 /\ DOMAIN g = DOMAIN f /\ g[r] = rows'[r].tokens
      /\ \A x \in DOMAIN f : x # r => g[x] = f[x]
    OBVIOUS
<1>4. /\ r \in DOMAIN h /\ h[r] = 0 /\ DOMAIN k = DOMAIN h /\ k[r] = rows'[r].cost
      /\ \A x \in DOMAIN h : x # r => k[x] = h[x]
    OBVIOUS
<1>5. /\ TokensOf(rows, DOMAIN rows) = Sum(f) /\ TokensOf(rows, DOMAIN rows)' = Sum(g)
      /\ CostOf(rows, DOMAIN rows) = Sum(h) /\ CostOf(rows, DOMAIN rows)' = Sum(k)
    BY DEF TokensOf, CostOf, Sum, Units
<1> HIDE DEF f, g, h, k
<1>6. Sum(g) = Sum(f) + g[r]
    BY <1>1, <1>2, <1>3, SumGrows
<1>7. Sum(k) = Sum(h) + k[r]
    BY <1>1, <1>2, <1>4, SumGrows
<1> QED
    BY <1>3, <1>4, <1>5, <1>6, <1>7

LEMMA PartsFinite ==
    ASSUME FiguresType
    PROVE  /\ IsFiniteSet(DOMAIN rows)
           /\ IsFiniteSet(CompletedIn(DOMAIN rows)) /\ IsFiniteSet(FailedIn(DOMAIN rows))
           /\ IsFiniteSet(ReviewedIn(DOMAIN rows))
           /\ \A p : IsFiniteSet(SentTo(DOMAIN rows, p))
           /\ \A o : IsFiniteSet(EndedIn(DOMAIN rows, o))
<1> DEFINE D == DOMAIN rows
<1>1. D \in SUBSET DOMAIN rows
    OBVIOUS
<1>2. /\ CompletedIn(D) \in SUBSET D /\ FailedIn(D) \in SUBSET D /\ ReviewedIn(D) \in SUBSET D
      /\ \A p : SentTo(D, p) \in SUBSET D
      /\ \A o : EndedIn(D, o) \in SUBSET D
    BY DEF CompletedIn, FailedIn, ReviewedIn, SentTo, EndedIn
<1> QED
    BY <1>1, <1>2, RowsFinite

\* A step that keeps what was counted of every run.
LEMMA CountersStay ==
    ASSUME FiguresType, FiguresType', RunsStay, CountersInv, counters' = counters
    PROVE  CountersInv'
<1>1. /\ DOMAIN rows' = DOMAIN rows
      /\ \A r \in DOMAIN rows : TableCounts(rows[r], rows'[r])
    BY DEF RunsStay
<1>2. /\ CompletedIn(DOMAIN rows)' = CompletedIn(DOMAIN rows)
      /\ FailedIn(DOMAIN rows)' = FailedIn(DOMAIN rows)
    BY <1>1 DEF CompletedIn, FailedIn, TableCounts
<1>3. ReviewedIn(DOMAIN rows)' = ReviewedIn(DOMAIN rows)
    BY <1>1 DEF ReviewedIn, HumanReview, OriginReview, TableCounts
<1>4. \A p \in Provider : SentTo(DOMAIN rows, p)' = SentTo(DOMAIN rows, p)
    BY <1>1 DEF SentTo, TableCounts
<1>5. \A o \in Outcome : EndedIn(DOMAIN rows, o)' = EndedIn(DOMAIN rows, o)
    BY <1>1 DEF EndedIn, TableCounts
<1>6. /\ TokensOf(rows, DOMAIN rows)' = TokensOf(rows, DOMAIN rows)
      /\ CostOf(rows, DOMAIN rows)' = CostOf(rows, DOMAIN rows)
    BY <1>1, SumsStay DEF TableCounts
<1> QED
    BY <1>1, <1>2, <1>3, <1>4, <1>5, <1>6 DEF CountersInv

LEMMA CreateCounts ==
    ASSUME FiguresType, RowsInv, CountersInv, NEW r \in Run, NEW s \in Submission, Create(r, s)
    PROVE  CountersInv'
<1>1. /\ FiguresType' /\ r \notin DOMAIN rows /\ DOMAIN rows' = DOMAIN rows \cup {r}
      /\ rows'[r] = Created(s) /\ \A q \in DOMAIN rows : rows'[q] = rows[q]
    BY CreateKeepsRows
<1>2. /\ ~rows'[r].completed /\ ~rows'[r].failed /\ ~rows'[r].dispatched
      /\ rows'[r].outcome = NoOutcome /\ rows'[r].tokens = 0 /\ rows'[r].cost = 0
    BY <1>1 DEF Created
<1>3. /\ CompletedIn(DOMAIN rows)' = CompletedIn(DOMAIN rows)
      /\ FailedIn(DOMAIN rows)' = FailedIn(DOMAIN rows)
    BY <1>1, <1>2 DEF CompletedIn, FailedIn
<1>4. ReviewedIn(DOMAIN rows)' = ReviewedIn(DOMAIN rows)
    BY <1>1, <1>2 DEF ReviewedIn, HumanReview, OriginReview
<1>5. \A p \in Provider : SentTo(DOMAIN rows, p)' = SentTo(DOMAIN rows, p)
    BY <1>1, <1>2 DEF SentTo
<1>6. \A o \in Outcome : EndedIn(DOMAIN rows, o)' = EndedIn(DOMAIN rows, o)
    BY <1>1, <1>2 DEF EndedIn, NoOutcome, Outcome, OutcomesOf
<1>7. /\ TokensOf(rows, DOMAIN rows)' = TokensOf(rows, DOMAIN rows)
      /\ CostOf(rows, DOMAIN rows)' = CostOf(rows, DOMAIN rows)
    BY <1>1, <1>2, SumsStay
<1>8. Cardinality(DOMAIN rows') = Cardinality(DOMAIN rows) + 1
    BY <1>1, PartsFinite, FS_AddElement
<1>9. counters' = [counters EXCEPT !.total = @ + 1]
    BY DEF Create
<1>10. /\ counters' \in Usage /\ counters'.total = counters.total + 1
       /\ counters'.completed = counters.completed /\ counters'.failed = counters.failed
       /\ counters'.tokens = counters.tokens /\ counters'.cost = counters.cost
       /\ counters'.review = counters.review /\ counters'.providers = counters.providers
       /\ counters'.outcomes = counters.outcomes
    BY <1>9 DEF CountersInv, Usage
<1> QED
    BY <1>3, <1>4, <1>5, <1>6, <1>7, <1>8, <1>10 DEF CountersInv

LEMMA DispatchCounts ==
    ASSUME FiguresType, RowsInv, CountersInv, NEW r \in Run, Dispatch(r)
    PROVE  CountersInv'
<1> DEFINE new == [rows[r] EXCEPT !.dispatched = TRUE]
<1>1. /\ FiguresType' /\ r \in DOMAIN rows /\ ~rows[r].gone /\ rows[r].sub.mode = "live"
      /\ OneRow(r, new)
    BY DispatchKeepsRows
<1>2. rows[r] \in RunRow
    BY <1>1 DEF FiguresType
<1>3. /\ new.dispatched /\ new.sub = rows[r].sub /\ new.outcome = rows[r].outcome
      /\ new.completed = rows[r].completed /\ new.failed = rows[r].failed
      /\ new.tokens = rows[r].tokens /\ new.cost = rows[r].cost
      /\ new.createdAt = rows[r].createdAt /\ new.completedAt = rows[r].completedAt
    BY <1>2, DispatchedRow
<1> HIDE DEF new
<1>4. /\ DOMAIN rows' = DOMAIN rows /\ rows'[r] = new
      /\ \A q \in DOMAIN rows : q # r => rows'[q] = rows[q]
    BY <1>1 DEF OneRow
<1>5. CASE rows[r].dispatched
  <2>1. counters' = counters
      BY <1>1, <1>5 DEF Dispatch, MemoryDispatch, FiguresType
  <2>2. RunsStay
      BY <1>3, <1>4, <1>5, <1>2 DEF RunsStay, TableCounts, RunRow
  <2> QED
      BY <1>1, <2>1, <2>2, CountersStay
<1>6. CASE ~rows[r].dispatched
  <2> DEFINE p == rows[r].sub.provider
  <2>1. counters' = [counters EXCEPT !.providers[p] = @ + 1]
      BY <1>1, <1>6 DEF Dispatch, MemoryDispatch, FiguresType
  <2>2. /\ CompletedIn(DOMAIN rows)' = CompletedIn(DOMAIN rows)
        /\ FailedIn(DOMAIN rows)' = FailedIn(DOMAIN rows)
      BY <1>3, <1>4 DEF CompletedIn, FailedIn
  <2>3. ReviewedIn(DOMAIN rows)' = ReviewedIn(DOMAIN rows)
      BY <1>3, <1>4 DEF ReviewedIn, HumanReview, OriginReview
  <2>4. \A o \in Outcome : EndedIn(DOMAIN rows, o)' = EndedIn(DOMAIN rows, o)
      BY <1>3, <1>4 DEF EndedIn
  <2>5. /\ TokensOf(rows, DOMAIN rows)' = TokensOf(rows, DOMAIN rows)
        /\ CostOf(rows, DOMAIN rows)' = CostOf(rows, DOMAIN rows)
      BY <1>1, <1>3, <1>4, SumsStay
  <2>6. ASSUME NEW q \in Provider
        PROVE  Cardinality(SentTo(DOMAIN rows, q)')
                 = IF q = p THEN Cardinality(SentTo(DOMAIN rows, q)) + 1
                            ELSE Cardinality(SentTo(DOMAIN rows, q))
    <3>1. CASE q = p
      <4>1. SentTo(DOMAIN rows, q)' = SentTo(DOMAIN rows, q) \cup {r}
          BY <1>1, <1>3, <1>4, <3>1 DEF SentTo
      <4>2. r \notin SentTo(DOMAIN rows, q)
          BY <1>6 DEF SentTo
      <4> QED
          BY <3>1, <4>1, <4>2, PartsFinite, FS_AddElement
    <3>2. CASE q # p
      <4>1. SentTo(DOMAIN rows, q)' = SentTo(DOMAIN rows, q)
          BY <1>1, <1>3, <1>4, <1>6, <3>2 DEF SentTo
      <4> QED
          BY <3>2, <4>1
    <3> QED
        BY <3>1, <3>2
  <2> HIDE DEF p
  <2>7. /\ counters' \in Usage /\ counters'.total = counters.total
        /\ counters'.failed = counters.failed /\ counters'.completed = counters.completed
        /\ counters'.review = counters.review /\ counters'.tokens = counters.tokens
        /\ counters'.cost = counters.cost /\ counters'.outcomes = counters.outcomes
        /\ \A q \in Provider : counters'.providers[q]
             = IF q = p THEN counters.providers[q] + 1 ELSE counters.providers[q]
    <3>1. CASE p \in Provider
      <4>1. counters \in Usage
          BY DEF CountersInv
      <4> QED
          BY <2>1, <3>1, <4>1 DEF Usage
    <3>2. CASE p \notin Provider
      <4>1. counters' = counters
          BY <2>1, <3>2 DEF CountersInv, Usage
      <4> QED
          BY <3>2, <4>1 DEF CountersInv
    <3> QED
        BY <3>1, <3>2
  <2>8. \A q \in Provider : counters'.providers[q] = Cardinality(SentTo(DOMAIN rows, q)')
      BY <2>6, <2>7 DEF CountersInv
  <2> QED
      BY <1>4, <2>2, <2>3, <2>4, <2>5, <2>7, <2>8 DEF CountersInv
<1> QED
    BY <1>5, <1>6

LEMMA SaveCounts ==
    ASSUME FiguresType, RowsInv, CountersInv,
           NEW r \in Run, NEW result \in Result, NEW answered \in BOOLEAN,
           Save(r, result, answered)
    PROVE  CountersInv'
<1> DEFINE b == Billed(r, result)
           new == Saved(rows[r], b)
           k == IF HumanReview(new) THEN 1 ELSE 0
<1>1. /\ FiguresType' /\ r \in DOMAIN rows /\ rows[r] \in RunRow
      /\ RowOk(rows[r]) /\ ~rows[r].completed /\ OneRow(r, new)
    BY SaveKeepsRows
<1>2. b.outcome \in Outcome /\ b.tokens \in Nat /\ b.cost \in Nat
    BY BilledIs
<1>3. rows[r].outcome = NoOutcome /\ rows[r].tokens = 0 /\ rows[r].cost = 0
    BY <1>1 DEF RowOk, OpenRow
<1>4. /\ DOMAIN rows' = DOMAIN rows /\ rows'[r] = new /\ memory' = rows'
      /\ \A q \in DOMAIN rows : q # r => rows'[q] = rows[q]
    BY <1>1 DEF OneRow
<1>5. counters' = [counters EXCEPT !.completed = @ + 1, !.outcomes[b.outcome] = @ + 1,
                                   !.tokens = @ + b.tokens, !.cost = @ + b.cost,
                                   !.review = @ + k]
  <2>1. memory[r] = rows[r] /\ memory'[r] = new
      BY <1>4 DEF FiguresType
  <2>2. Billed(r, result).outcome = result.outcome
      BY BilledIs
  <2> HIDE DEF b, new
  <2> QED
      BY <1>1, <2>1, <2>2 DEF Save, MemorySave, b
<1>6. clock \in Nat
    BY FiguresAssumption DEF FiguresType
<1> HIDE DEF b
<1>7. /\ new.completed /\ new.outcome = b.outcome /\ new.tokens = b.tokens
      /\ new.cost = b.cost /\ new.sub = rows[r].sub
      /\ new.dispatched = rows[r].dispatched /\ new.failed = rows[r].failed
    BY <1>1, <1>2, <1>6, SavedRow
<1> HIDE DEF new
<1>8. k \in Nat
    OBVIOUS
<1>9. Cardinality(ReviewedIn(DOMAIN rows)') = Cardinality(ReviewedIn(DOMAIN rows)) + k
  <2>1. CASE HumanReview(new)
    <3>1. ReviewedIn(DOMAIN rows)' = ReviewedIn(DOMAIN rows) \cup {r}
      <4>1. \A q \in DOMAIN rows : q # r => (HumanReview(rows[q])' <=> HumanReview(rows[q]))
          BY <1>4 DEF HumanReview, OriginReview
      <4>2. HumanReview(rows[r])'
          BY <1>4, <2>1 DEF HumanReview, OriginReview
      <4> QED
          BY <1>1, <1>4, <1>7, <4>1, <4>2 DEF ReviewedIn
    <3>2. r \notin ReviewedIn(DOMAIN rows) /\ k = 1
        BY <1>1, <2>1 DEF ReviewedIn
    <3> QED
        BY <3>1, <3>2, PartsFinite, FS_AddElement
  <2>2. CASE ~HumanReview(new)
    <3>1. ReviewedIn(DOMAIN rows)' = ReviewedIn(DOMAIN rows)
      <4>1. \A q \in DOMAIN rows : q # r => (HumanReview(rows[q])' <=> HumanReview(rows[q]))
          BY <1>4 DEF HumanReview, OriginReview
      <4>2. ~HumanReview(rows[r])'
          BY <1>4, <2>2 DEF HumanReview, OriginReview
      <4> QED
          BY <1>1, <1>4, <4>1, <4>2 DEF ReviewedIn
    <3>2. k = 0
        BY <2>2
    <3> QED
        BY <3>1, <3>2, PartsFinite, FS_CardinalityType
  <2> QED
      BY <2>1, <2>2
<1> HIDE DEF k
<1>10. /\ counters' \in Usage /\ counters'.total = counters.total
       /\ counters'.failed = counters.failed /\ counters'.providers = counters.providers
       /\ counters'.completed = counters.completed + 1
       /\ counters'.tokens = counters.tokens + b.tokens
       /\ counters'.cost = counters.cost + b.cost
       /\ counters'.review = counters.review + k
       /\ counters'.outcomes = [counters.outcomes EXCEPT ![b.outcome] = @ + 1]
  <2>1. counters \in Usage
      BY DEF CountersInv
  <2>2. /\ counters'.total = counters.total
        /\ counters'.failed = counters.failed /\ counters'.providers = counters.providers
        /\ counters'.completed = counters.completed + 1
        /\ counters'.tokens = counters.tokens + b.tokens
        /\ counters'.cost = counters.cost + b.cost
        /\ counters'.review = counters.review + k
      BY <1>5, <2>1 DEF Usage
  <2>3. counters'.outcomes = [counters.outcomes EXCEPT ![b.outcome] = @ + 1]
      BY <1>5, <2>1 DEF Usage
  <2>4. counters'.outcomes \in [Outcome -> Nat]
      BY <1>2, <2>1, <2>3 DEF Usage
  <2>5. counters' = [total |-> counters'.total, completed |-> counters'.completed,
                     failed |-> counters'.failed, tokens |-> counters'.tokens,
                     cost |-> counters'.cost, review |-> counters'.review,
                     providers |-> counters'.providers, outcomes |-> counters'.outcomes]
      BY <1>5, <2>1 DEF Usage
  <2>6. counters' \in Usage
      BY <1>2, <1>8, <2>1, <2>2, <2>4, <2>5 DEF Usage
  <2> QED
      BY <2>2, <2>3, <2>6
<1>11. Cardinality(CompletedIn(DOMAIN rows)') = Cardinality(CompletedIn(DOMAIN rows)) + 1
  <2>1. CompletedIn(DOMAIN rows)' = CompletedIn(DOMAIN rows) \cup {r}
      BY <1>1, <1>4, <1>7 DEF CompletedIn
  <2>2. r \notin CompletedIn(DOMAIN rows)
      BY <1>1 DEF CompletedIn
  <2> QED
      BY <2>1, <2>2, PartsFinite, FS_AddElement
<1>12. FailedIn(DOMAIN rows)' = FailedIn(DOMAIN rows)
    BY <1>4, <1>7 DEF FailedIn
<1>13. \A p \in Provider : SentTo(DOMAIN rows, p)' = SentTo(DOMAIN rows, p)
    BY <1>4, <1>7 DEF SentTo
<1>14. ASSUME NEW o \in Outcome
       PROVE  counters'.outcomes[o] = Cardinality(EndedIn(DOMAIN rows, o)')
  <2>1. r \notin EndedIn(DOMAIN rows, o)
      BY <1>3 DEF EndedIn, NoOutcome, Outcome, OutcomesOf
  <2>2. CASE o = b.outcome
    <3>1. EndedIn(DOMAIN rows, o)' = EndedIn(DOMAIN rows, o) \cup {r}
        BY <1>1, <1>4, <1>7, <2>2 DEF EndedIn
    <3>2. counters'.outcomes[o] = counters.outcomes[o] + 1
        BY <1>10, <2>2 DEF CountersInv, Usage
    <3> QED
        BY <2>1, <3>1, <3>2, PartsFinite, FS_AddElement DEF CountersInv
  <2>3. CASE o # b.outcome
    <3>1. EndedIn(DOMAIN rows, o)' = EndedIn(DOMAIN rows, o)
        BY <1>1, <1>4, <1>7, <2>1, <2>3 DEF EndedIn
    <3>2. counters'.outcomes[o] = counters.outcomes[o]
        BY <1>10, <2>3 DEF CountersInv, Usage
    <3> QED
        BY <3>1, <3>2 DEF CountersInv
  <2> QED
      BY <2>2, <2>3
<1>15. /\ TokensOf(rows, DOMAIN rows)' = TokensOf(rows, DOMAIN rows) + b.tokens
       /\ CostOf(rows, DOMAIN rows)' = CostOf(rows, DOMAIN rows) + b.cost
    BY <1>1, <1>3, <1>4, <1>7, SumsGrow
<1> QED
    BY <1>4, <1>9, <1>10, <1>11, <1>12, <1>13, <1>14, <1>15 DEF CountersInv

LEMMA FailCounts ==
    ASSUME FiguresType, RowsInv, CountersInv, NEW r \in Run, Fail(r, TRUE)
    PROVE  CountersInv'
<1> DEFINE new == Failed(rows[r])
<1>1. /\ FiguresType' /\ r \in DOMAIN rows /\ rows[r] \in RunRow /\ ~rows[r].failed
      /\ OneRow(r, new)
    BY FailKeepsRows
<1>2. /\ new.failed /\ new.sub = rows[r].sub /\ new.outcome = rows[r].outcome
      /\ new.dispatched = rows[r].dispatched /\ new.completed = rows[r].completed
      /\ new.tokens = rows[r].tokens /\ new.cost = rows[r].cost
    BY <1>1, FailedRow
<1> HIDE DEF new
<1>3. /\ DOMAIN rows' = DOMAIN rows /\ rows'[r] = new
      /\ \A q \in DOMAIN rows : q # r => rows'[q] = rows[q]
    BY <1>1 DEF OneRow
<1>4. counters' = [counters EXCEPT !.failed = @ + 1]
    BY <1>1 DEF Fail, MemoryFail, FiguresType
<1>5. /\ counters' \in Usage /\ counters'.total = counters.total
      /\ counters'.failed = counters.failed + 1 /\ counters'.completed = counters.completed
      /\ counters'.tokens = counters.tokens /\ counters'.cost = counters.cost
      /\ counters'.review = counters.review /\ counters'.providers = counters.providers
      /\ counters'.outcomes = counters.outcomes
    BY <1>4 DEF CountersInv, Usage
<1>6. CompletedIn(DOMAIN rows)' = CompletedIn(DOMAIN rows)
    BY <1>2, <1>3 DEF CompletedIn
<1>7. ReviewedIn(DOMAIN rows)' = ReviewedIn(DOMAIN rows)
    BY <1>2, <1>3 DEF ReviewedIn, HumanReview, OriginReview
<1>8. \A p \in Provider : SentTo(DOMAIN rows, p)' = SentTo(DOMAIN rows, p)
    BY <1>2, <1>3 DEF SentTo
<1>9. \A o \in Outcome : EndedIn(DOMAIN rows, o)' = EndedIn(DOMAIN rows, o)
    BY <1>2, <1>3 DEF EndedIn
<1>10. /\ TokensOf(rows, DOMAIN rows)' = TokensOf(rows, DOMAIN rows)
       /\ CostOf(rows, DOMAIN rows)' = CostOf(rows, DOMAIN rows)
    BY <1>1, <1>2, <1>3, SumsStay
<1>11. Cardinality(FailedIn(DOMAIN rows)') = Cardinality(FailedIn(DOMAIN rows)) + 1
  <2>1. FailedIn(DOMAIN rows)' = FailedIn(DOMAIN rows) \cup {r}
      BY <1>1, <1>2, <1>3 DEF FailedIn
  <2>2. r \notin FailedIn(DOMAIN rows)
      BY <1>1 DEF FailedIn
  <2> QED
      BY <2>1, <2>2, PartsFinite, FS_AddElement
<1> QED
    BY <1>3, <1>5, <1>6, <1>7, <1>8, <1>9, <1>10, <1>11 DEF CountersInv

-----------------------------------------------------------------------------
(* Every step keeps the invariant.                                          *)

FiguresInv == FiguresType /\ RowsInv /\ CountersInv

LEMMA FiguresStart == FiguresInit => FiguresInv
<1> SUFFICES ASSUME FiguresInit PROVE FiguresInv
    OBVIOUS
<1>1. DOMAIN rows = {} /\ rows = <<>> /\ memory = rows /\ clock = 1
    BY DEF FiguresInit
<1>2. FiguresType
    BY <1>1, FiguresAssumption DEF FiguresInit, FiguresType
<1>3. RowsInv
    BY <1>1 DEF FiguresInit, RowsInv, RunOk
<1>4. /\ CompletedIn(DOMAIN rows) = {} /\ FailedIn(DOMAIN rows) = {}
      /\ ReviewedIn(DOMAIN rows) = {}
      /\ \A p \in Provider : SentTo(DOMAIN rows, p) = {}
      /\ \A o \in Outcome : EndedIn(DOMAIN rows, o) = {}
    BY <1>1 DEF CompletedIn, FailedIn, ReviewedIn, SentTo, EndedIn
<1>5. TokensOf(rows, DOMAIN rows) = 0 /\ CostOf(rows, DOMAIN rows) = 0
  <2>1. /\ Units([r \in DOMAIN rows |-> rows[r].tokens]) = {}
        /\ Units([r \in DOMAIN rows |-> rows[r].cost]) = {}
      BY <1>1 DEF Units
  <2> QED
      BY <2>1, FS_EmptySet DEF TokensOf, CostOf, Sum
<1>6. counters = NoCounts
    BY DEF FiguresInit
<1>7. CountersInv
    BY <1>1, <1>4, <1>5, <1>6, FS_EmptySet DEF CountersInv, NoCounts, Usage
<1> QED
    BY <1>2, <1>3, <1>7 DEF FiguresInv

LEMMA FiguresKept == FiguresInv /\ [FiguresNext]_figuresVars => FiguresInv'
<1> SUFFICES ASSUME FiguresInv, [FiguresNext]_figuresVars PROVE FiguresInv'
    OBVIOUS
<1> USE DEF FiguresInv
<1>1. CASE UNCHANGED figuresVars
  <2>1. FiguresType' /\ RunsStay /\ counters' = counters
      BY <1>1 DEF figuresVars, FiguresType, RunsStay, TableCounts
  <2>2. \A q \in Run : RunOk(q)'
      BY <1>1, RunUntouched DEF figuresVars, RowsInv
  <2>3. RowsInv'
      BY <2>2 DEF RowsInv
  <2> QED
      BY <2>1, <2>3, CountersStay
<1>2. CASE Purge
  <2>1. counters' = counters
      BY <1>2 DEF Purge
  <2> QED
      BY <1>2, <2>1, PurgeKeepsRows, CountersStay
<1>3. CASE ClockTick
  <2>1. counters' = counters
      BY <1>3 DEF ClockTick
  <2> QED
      BY <1>3, <2>1, ClockKeepsRows, CountersStay
<1>4. ASSUME NEW r \in Run, NEW s \in Submission, Create(r, s) PROVE FiguresInv'
    BY <1>4, CreateKeepsRows, CreateCounts
<1>5. ASSUME NEW r \in Run, Dispatch(r) PROVE FiguresInv'
    BY <1>5, DispatchKeepsRows, DispatchCounts
<1>6. ASSUME NEW r \in Run, NEW result \in Result, NEW answered \in BOOLEAN,
             Save(r, result, answered)
      PROVE  FiguresInv'
    BY <1>6, SaveKeepsRows, SaveCounts
<1>7. ASSUME NEW r \in Run, NEW written \in BOOLEAN, Fail(r, written) PROVE FiguresInv'
  <2>1. CASE written = TRUE
      BY <1>7, <2>1, FailKeepsRows, FailCounts
  <2>2. CASE written = FALSE
      BY <1>7, <2>2, UnwrittenKeepsRows, CountersStay
  <2> QED
      BY <2>1, <2>2
<1>8. ASSUME NEW r \in Run, Cancel(r) PROVE FiguresInv'
  <2>1. counters' = counters
      BY <1>8 DEF Cancel
  <2> QED
      BY <1>8, <2>1, CancelKeepsRows, CountersStay
<1>9. ASSUME NEW r \in Run, Crash(r) PROVE FiguresInv'
  <2>1. counters' = counters
      BY <1>9 DEF Crash
  <2> QED
      BY <1>9, <2>1, CrashKeepsRows, CountersStay
<1>10. ASSUME NEW r \in Run, Delete(r) PROVE FiguresInv'
  <2>1. counters' = counters
      BY <1>10 DEF Delete
  <2> QED
      BY <1>10, <2>1, DeleteKeepsRows, CountersStay
<1> QED
    BY <1>1, <1>2, <1>3, <1>4, <1>5, <1>6, <1>7, <1>8, <1>9, <1>10 DEF FiguresNext, RunStep

LEMMA FiguresInvariant == FiguresSpec => []FiguresInv
BY FiguresStart, FiguresKept, PTL DEF FiguresSpec

-----------------------------------------------------------------------------
(* The two repositories show the same.                                      *)

LEMMA SelectedOfAll == Selected(NoCutoff) = DOMAIN rows /\ Selected(NoCutoff)' = DOMAIN rows'
BY DEF Selected

LEMMA SelectedAreRows == \A c : Selected(c) \in SUBSET DOMAIN rows
BY DEF Selected

\* Where a loop over the runs in memory and a WHERE clause look.
LEMMA SamePopulation == ASSUME FiguresInv, NEW c PROVE Population(c) = Selected(c)
BY DEF FiguresInv, FiguresType, Population, Selected

\* The condition of the statement and the policy of the action.
LEMMA SameReview == \A row : ReviewRequired(row) <=> row.completed /\ HumanReview(row)
BY DEF ReviewRequired, HumanReview, OriginReview

LEMMA CountersAreFigures ==
    ASSUME FiguresInv PROVE counters = RowsUsage(NoCutoff)
<1> DEFINE D == DOMAIN rows
           P == [p \in Provider |->
                   Cardinality({r \in D : rows[r].dispatched /\ rows[r].sub.provider = p})]
           O == [o \in Outcome |-> Cardinality({r \in D : rows[r].outcome = o})]
<1>1. RowsUsage(NoCutoff) =
        [total |-> Cardinality(D), completed |-> Cardinality({r \in D : rows[r].completed}),
         failed |-> Cardinality({r \in D : rows[r].failed}),
         tokens |-> TokensOf(rows, D), cost |-> CostOf(rows, D),
         review |-> Cardinality({r \in D : rows[r].completed /\ HumanReview(rows[r])}),
         providers |-> P, outcomes |-> O]
    BY SelectedOfAll, SameReview DEF RowsUsage
<1>2. counters = [total |-> counters.total, completed |-> counters.completed,
                  failed |-> counters.failed, tokens |-> counters.tokens,
                  cost |-> counters.cost, review |-> counters.review,
                  providers |-> counters.providers, outcomes |-> counters.outcomes]
    BY DEF FiguresInv, CountersInv, Usage
<1>3. counters.providers = P
    BY DEF FiguresInv, CountersInv, SentTo, Usage
<1>4. counters.outcomes = O
    BY DEF FiguresInv, CountersInv, EndedIn, Usage
<1>5. /\ counters.total = Cardinality(D)
      /\ counters.completed = Cardinality({r \in D : rows[r].completed})
      /\ counters.failed = Cardinality({r \in D : rows[r].failed})
      /\ counters.tokens = TokensOf(rows, D) /\ counters.cost = CostOf(rows, D)
      /\ counters.review = Cardinality({r \in D : rows[r].completed /\ HumanReview(rows[r])})
    BY DEF FiguresInv, CountersInv, CompletedIn, FailedIn, ReviewedIn
<1> HIDE DEF P, O, D
<1> QED
    BY <1>1, <1>2, <1>3, <1>4, <1>5

\* What the repository in memory counts behind a cutoff.
LEMMA RecountIsFigures ==
    ASSUME FiguresInv, NEW c PROVE Recount(c) = RowsUsage(c)
<1> DEFINE S == Selected(c)
           Done == {r \in S : memory[r].completed /\ memory[r].outcome # NoOutcome}
<1>1. memory = rows /\ S \in SUBSET DOMAIN rows /\ Done \in SUBSET S
    BY SelectedAreRows DEF FiguresInv, FiguresType
<1>2. \A r \in S : /\ RowOk(rows[r]) /\ rows[r] \in RunRow
    BY <1>1 DEF FiguresInv, RowsInv, RunOk, FiguresType
<1>3. \A r \in S : rows[r].completed => rows[r].outcome # NoOutcome
    BY <1>2 DEF RowOk, CompletedRow, Outcome, OutcomesOf, NoOutcome
<1>4. Done = {r \in S : rows[r].completed}
    BY <1>1, <1>3
<1>5. \A r \in S : ~rows[r].completed =>
          rows[r].tokens = 0 /\ rows[r].cost = 0 /\ rows[r].outcome = NoOutcome
    BY <1>2 DEF RowOk, OpenRow
<1>6. TokensOf(rows, Done) = TokensOf(rows, S) /\ CostOf(rows, Done) = CostOf(rows, S)
  <2>1. \A r \in S : (rows[r].tokens > 0 => r \in Done) /\ (rows[r].cost > 0 => r \in Done)
      BY <1>4, <1>5
  <2>2. \A r \in Done : r \in S
      OBVIOUS
  <2>3. S \in SUBSET DOMAIN rows /\ Done \in SUBSET DOMAIN rows /\ FiguresType
      BY <1>1 DEF FiguresInv
  <2> HIDE DEF S, Done
  <2>4. TokensOf(rows, Done) <= TokensOf(rows, S) /\ TokensOf(rows, S) <= TokensOf(rows, Done)
      BY <2>1, <2>2, <2>3, TokensMonotone
  <2>5. CostOf(rows, Done) <= CostOf(rows, S) /\ CostOf(rows, S) <= CostOf(rows, Done)
      BY <2>1, <2>2, <2>3, CostsMonotone
  <2>6. /\ TokensOf(rows, Done) \in Nat /\ TokensOf(rows, S) \in Nat
        /\ CostOf(rows, Done) \in Nat /\ CostOf(rows, S) \in Nat
      BY <2>3, RowsSummable
  <2> QED
      BY <2>4, <2>5, <2>6
<1>7. {r \in Done : HumanReview(memory[r])} = {r \in S : rows[r].completed /\ HumanReview(rows[r])}
    BY <1>1, <1>4
<1>8. \A o \in Outcome : {r \in Done : memory[r].outcome = o} = {r \in S : rows[r].outcome = o}
    BY <1>1, <1>4, <1>5 DEF Outcome, OutcomesOf, NoOutcome
<1> DEFINE P == [p \in Provider |->
                   Cardinality({r \in S : memory[r].dispatched /\ memory[r].sub.provider = p})]
           Q == [p \in Provider |->
                   Cardinality({r \in S : rows[r].dispatched /\ rows[r].sub.provider = p})]
           N == [o \in Outcome |-> Cardinality({r \in Done : memory[r].outcome = o})]
           O == [o \in Outcome |-> Cardinality({r \in S : rows[r].outcome = o})]
<1>9. P = Q /\ N = O
    BY <1>1, <1>8
<1>10. Recount(c) =
        [total |-> Cardinality(S), completed |-> Cardinality(Done),
         failed |-> Cardinality({r \in S : memory[r].failed}),
         tokens |-> TokensOf(memory, Done), cost |-> CostOf(memory, Done),
         review |-> Cardinality({r \in Done : HumanReview(memory[r])}),
         providers |-> P, outcomes |-> N]
    BY <1>1, SamePopulation DEF Recount
<1>11. RowsUsage(c) =
        [total |-> Cardinality(S), completed |-> Cardinality({r \in S : rows[r].completed}),
         failed |-> Cardinality({r \in S : rows[r].failed}),
         tokens |-> TokensOf(rows, S), cost |-> CostOf(rows, S),
         review |-> Cardinality({r \in S : rows[r].completed /\ HumanReview(rows[r])}),
         providers |-> Q, outcomes |-> O]
    BY SameReview DEF RowsUsage
<1>12. Cardinality(Done) = Cardinality({r \in S : rows[r].completed})
    BY <1>4
<1>13. Cardinality({r \in Done : HumanReview(memory[r])})
         = Cardinality({r \in S : rows[r].completed /\ HumanReview(rows[r])})
    BY <1>7
<1> HIDE DEF P, Q, N, O, Done, S
<1> QED
    BY <1>1, <1>6, <1>9, <1>10, <1>11, <1>12, <1>13

\* Adding one where a condition holds counts where it does.
LEMMA SumOfOnes ==
    ASSUME NEW f, IsFiniteSet(DOMAIN f), \A x \in DOMAIN f : f[x] \in {0, 1}
    PROVE  Sum(f) = Cardinality({x \in DOMAIN f : f[x] = 1})
<1> DEFINE G == [x \in DOMAIN f |-> IF f[x] = 1 THEN {x} ELSE {}]
           T == {x \in DOMAIN f : f[x] = 1}
<1>1. \A x \in DOMAIN f : IsFiniteSet(G[x]) /\ f[x] = Cardinality(G[x])
    BY FS_Singleton, FS_EmptySet
<1>2. /\ DOMAIN G = DOMAIN f
      /\ \A x, y \in DOMAIN G : x # y => G[x] \cap G[y] = {}
      /\ \A x : x \in T <=> \E y \in DOMAIN G : x \in G[y]
    OBVIOUS
<1> HIDE DEF G, T
<1>3. Sum(f) = Cardinality(T)
    BY <1>1, <1>2, SumOfParts
<1> QED
    BY <1>3 DEF T

LEMMA SameOrigins ==
    ASSUME FiguresInv, NEW c PROVE MemoryOrigins(c) = RowsOrigins(c)
<1> DEFINE S == Selected(c)
           f(o) == [r \in S |-> IF rows[r].sub.origin = o THEN 1 ELSE 0]
<1>1. memory = rows /\ Population(c) = S /\ IsFiniteSet(S)
    BY SamePopulation, SelectedAreRows, RowsFinite DEF FiguresInv, FiguresType
<1> HIDE DEF S
<1>2. ASSUME NEW o PROVE Sum(f(o)) = Cardinality({r \in S : rows[r].sub.origin = o})
  <2>1. DOMAIN f(o) = S /\ \A x \in DOMAIN f(o) : f(o)[x] \in {0, 1}
      OBVIOUS
  <2>2. {x \in DOMAIN f(o) : f(o)[x] = 1} = {r \in S : rows[r].sub.origin = o}
      OBVIOUS
  <2> HIDE DEF f
  <2>3. Sum(f(o)) = Cardinality({x \in DOMAIN f(o) : f(o)[x] = 1})
      BY <1>1, <2>1, SumOfOnes
  <2> QED
      BY <2>2, <2>3
<1>3. MemoryOrigins(c) =
        [serverOriginal |-> Sum(f("server_original")),
         recognizedCopy |-> Sum(f("recognized_copy")), unverified |-> Sum(f("unverified"))]
    BY <1>1 DEF MemoryOrigins
<1> HIDE DEF f
<1> QED
    BY <1>2, <1>3 DEF RowsOrigins, S

\* What is added where a condition holds is the cost of the runs it holds of.
LEMMA AddedIsCost ==
    ASSUME FiguresType, NEW S \in SUBSET DOMAIN rows, NEW T \in SUBSET S,
           NEW f, DOMAIN f = S, \A r \in S : f[r] = IF r \in T THEN rows[r].cost ELSE 0
    PROVE  Sum(f) = CostOf(rows, T)
<1> DEFINE g == [r \in T |-> rows[r].cost]
<1>1. \A r \in S : rows[r].cost \in Nat
    BY DEF FiguresType, RunRow
<1>2. Summable(f)
    BY <1>1, RowsFinite DEF Summable
<1>3. Summable(g)
    BY RowsSummable
<1>4. /\ \A x \in DOMAIN f : f[x] > 0 => x \in DOMAIN g /\ g[x] = f[x]
      /\ \A x \in DOMAIN g : g[x] > 0 => x \in DOMAIN f /\ g[x] = f[x]
    OBVIOUS
<1>5. CostOf(rows, T) = Sum(g)
    BY DEF CostOf
<1> HIDE DEF g
<1> QED
    BY <1>2, <1>3, <1>4, <1>5, SumSame

\* The entries of a Map a loop adds to are the rows a GROUP BY yields.
LEMMA SameGroups ==
    ASSUME FiguresInv, NEW S \in SUBSET DOMAIN rows, NEW key, DOMAIN key = S
    PROVE  MapEntries(S, key) = GroupBy(S, key)
<1> DEFINE K == {key[r] : r \in S}
           Group(k) == {r \in S : key[r] = k}
           f(k) == [r \in S |-> IF key[r] = k THEN 1 ELSE 0]
           g(k) == [r \in S |-> IF key[r] = k THEN rows[r].cost ELSE 0]
<1>1. FiguresType /\ memory = rows /\ IsFiniteSet(S)
    BY RowsFinite DEF FiguresInv, FiguresType
<1>2. ASSUME NEW k PROVE Sum(f(k)) = Cardinality(Group(k))
  <2>1. /\ DOMAIN f(k) = S /\ \A x \in DOMAIN f(k) : f(k)[x] \in {0, 1}
        /\ {x \in DOMAIN f(k) : f(k)[x] = 1} = Group(k)
      OBVIOUS
  <2> HIDE DEF f
  <2> QED
      BY <1>1, <2>1, SumOfOnes
<1>3. ASSUME NEW k PROVE Sum(g(k)) = CostOf(rows, Group(k))
  <2>1. /\ DOMAIN g(k) = S /\ Group(k) \in SUBSET S
        /\ \A r \in S : g(k)[r] = IF r \in Group(k) THEN rows[r].cost ELSE 0
      OBVIOUS
  <2> HIDE DEF g, Group
  <2> QED
      BY <1>1, <2>1, AddedIsCost
<1>4. MapEntries(S, key) = [k \in K |-> [runs |-> Sum(f(k)), cost |-> Sum(g(k))]]
    BY <1>1 DEF MapEntries
<1>5. GroupBy(S, key) = [k \in K |-> [runs |-> Cardinality(Group(k)), cost |-> CostOf(rows, Group(k))]]
    BY DEF GroupBy
<1> HIDE DEF f, g, Group, K
<1> QED
    BY <1>2, <1>3, <1>4, <1>5

\* The date that is put together and the date that is cut off.
LEMMA SameDates ==
    \A t \in Nat : /\ Month * (t \div Month) = DateTrunc(Month, t)
                   /\ Month * (t \div Month) + Day * ((t % Month) \div Day) = DateTrunc(Day, t)
<1> SUFFICES ASSUME NEW t \in Nat
             PROVE  /\ Month * (t \div Month) = t - (t % Month)
                    /\ Month * (t \div Month) + Day * ((t % Month) \div Day) = t - (t % Day)
    BY DEF DateTrunc
<1>1. Day \in Nat /\ Day > 0 /\ Month \in Nat /\ Month > 0 /\ Month % Day = 0
    BY FiguresAssumption
<1> DEFINE k == Month \div Day
           m == t \div Month
           a == t % Month
           i == t \div Day
           b == t % Day
           j == a \div Day
           e == a % Day
<1>2. k \in Int /\ Month = Day * k
    BY <1>1
<1>3. m \in Int /\ a \in 0..(Month - 1) /\ t = Month * m + a
    BY <1>1
<1>4. i \in Int /\ b \in 0..(Day - 1) /\ t = Day * i + b
    BY <1>1
<1>5. j \in Int /\ e \in 0..(Day - 1) /\ a = Day * j + e
    BY <1>1, <1>3
<1> HIDE DEF k, m, a, i, b, j, e
<1>6. Month * m = Day * (k * m) /\ k * m \in Int
    BY <1>1, <1>2, <1>3
<1>7. \E n \in Int : n = i - k * m - j /\ Day * n = e - b
    BY <1>1, <1>3, <1>4, <1>5, <1>6
<1>8. e = b
  <2>1. PICK n \in Int : Day * n = e - b
      BY <1>7
  <2>2. e - b < Day /\ -Day < e - b
      BY <1>1, <1>4, <1>5
  <2>3. ~(n >= 1)
    <3> SUFFICES ASSUME n >= 1 PROVE FALSE
        OBVIOUS
    <3>1. Day * n >= Day * 1
        BY <1>1, <2>1
    <3> QED
        BY <1>1, <2>1, <2>2, <3>1
  <2>4. ~(n <= -1)
    <3> SUFFICES ASSUME n <= -1 PROVE FALSE
        OBVIOUS
    <3>1. Day * n <= Day * (-1)
        BY <1>1, <2>1
    <3> QED
        BY <1>1, <2>1, <2>2, <3>1
  <2>5. n = 0
      BY <2>1, <2>3, <2>4
  <2> QED
      BY <1>1, <1>4, <1>5, <2>1, <2>5
<1>9. /\ Month * m = t - a /\ Month * m + Day * j = t - b
  <2>1. Month * m \in Int /\ Day * j \in Int
      BY <1>1, <1>3, <1>5
  <2> QED
      BY <1>3, <1>4, <1>5, <1>8, <2>1
<1> QED
    BY <1>9 DEF m, a, j, b

LEMMA SameCosts ==
    ASSUME FiguresInv, NEW c PROVE MemoryCosts(c) = RowsCosts(c)
<1> DEFINE S == ConfirmedRuns(c)
           F == {r \in S : rows[r].sub.family \in DocumentFamily}
           models == [r \in S |-> <<rows[r].sub.provider, rows[r].sub.model>>]
           families == [r \in F |-> rows[r].sub.family]
           From(start) == {r \in S : rows[r].completedAt >= start}
           since(start) == [r \in S |-> IF rows[r].completedAt >= start THEN rows[r].cost ELSE 0]
<1>1. clock < NotYet /\ clock \in Nat /\ memory = rows /\ FiguresType
    BY FiguresAssumption DEF FiguresInv, FiguresType, NotYet
<1>2. \A r \in Selected(c) : rows[r].completedAt \in Nat /\ rows[r].sub \in Submission
    BY SelectedAreRows DEF FiguresInv, FiguresType, RunRow
<1>3. \A r \in Selected(c) : /\ rows[r].completedAt <= clock => rows[r].completedAt # NotYet
                             /\ rows[r].sub.provider \in Provider
                             /\ rows[r].sub.family \in DocumentFamily
                                  <=> rows[r].sub.family # NoFamily
  <2>1. NoFamily \notin DocumentFamily
      BY DEF NoFamily, DocumentFamily
  <2>2. ASSUME NEW n \in Nat, n <= clock PROVE n # NotYet
      BY <1>1, <2>2, FiguresAssumption DEF NotYet
  <2> QED
      BY <1>2, <2>1, <2>2, SubmissionAssumption
<1>4. {r \in Population(c) : IsConfirmed(memory[r])} = S
    BY <1>1, <1>3, SamePopulation DEF IsConfirmed, Eligible, ConfirmedRuns
<1>5. S \in SUBSET DOMAIN rows /\ \A r \in S : r \in Selected(c)
    BY SelectedAreRows DEF ConfirmedRuns
<1>6. {r \in S : rows[r].sub.family # NoFamily} = F
    BY <1>3, <1>5
<1> HIDE DEF S
<1>7. F \in SUBSET DOMAIN rows
    BY <1>5
<1>8. ASSUME NEW start PROVE Sum(since(start)) = CostOf(rows, From(start))
  <2>1. /\ DOMAIN since(start) = S /\ From(start) \in SUBSET S
        /\ \A r \in S : since(start)[r] = IF r \in From(start) THEN rows[r].cost ELSE 0
      OBVIOUS
  <2> HIDE DEF since, From
  <2> QED
      BY <1>1, <1>5, <2>1, AddedIsCost
<1>9. MonthStart = DateTrunc(Month, clock) /\ TodayStart = DateTrunc(Day, clock)
    BY <1>1, SameDates DEF MonthStart, TodayStart
<1>10. DOMAIN models = S /\ DOMAIN families = F
    OBVIOUS
<1>11. MemoryCosts(c) =
        [runs |-> Cardinality(S), tokens |-> TokensOf(rows, S), total |-> CostOf(rows, S),
         today |-> Sum(since(TodayStart)), month |-> Sum(since(MonthStart)),
         byModel |-> MapEntries(S, models), byFamily |-> MapEntries(F, families)]
    BY <1>1, <1>4, <1>6 DEF MemoryCosts
<1>12. RowsCosts(c) =
        [runs |-> Cardinality(S), tokens |-> TokensOf(rows, S), total |-> CostOf(rows, S),
         today |-> CostOf(rows, From(DateTrunc(Day, clock))),
         month |-> CostOf(rows, From(DateTrunc(Month, clock))),
         byModel |-> GroupBy(S, models), byFamily |-> GroupBy(F, families)]
    BY DEF RowsCosts, CostSummary, CostByModel, CostByFamily, S
<1> HIDE DEF models, families, F, since, From
<1>13. MapEntries(S, models) = GroupBy(S, models) /\ MapEntries(F, families) = GroupBy(F, families)
    BY <1>5, <1>7, <1>10, SameGroups
<1> QED
    BY <1>8, <1>9, <1>11, <1>12, <1>13

\* The runs a page may be given, with their statuses.
LEMMA SameLists ==
    ASSUME FiguresInv, NEW c PROVE MemoryLists(c) = RowsLists(c)
<1>1. memory = rows /\ Population(c) = Selected(c)
    BY SamePopulation DEF FiguresInv, FiguresType
<1>2. \A run : PublicStatus(run) = RowStatus(run)
    BY DEF PublicStatus, RowStatus
<1> QED
    BY <1>1, <1>2 DEF MemoryLists, RowsLists

LEMMA SameLifecycle ==
    ASSUME FiguresInv, NEW c PROVE MemoryLifecycle(c) = RowsLifecycle(c)
<1> DEFINE S == Selected(c)
           E(r) == ExpiresAt(rows[r])
           A == {r \in S : /\ ~rows[r].gone /\ rows[r].status \notin {"expired", "deleted"}
                           /\ E(r) - clock \in 1..Retention}
           B == {r \in S : /\ ~rows[r].gone /\ rows[r].status \notin {"expired", "deleted"}
                           /\ E(r) > clock /\ E(r) <= clock + Retention}
<1>1. memory = rows /\ Population(c) = S /\ S \in SUBSET DOMAIN rows
    BY SelectedAreRows, SamePopulation DEF FiguresInv, FiguresType
<1>2. clock \in Nat /\ Retention \in Nat /\ Hour \in Nat /\ SixHours \in Nat
    BY FiguresAssumption DEF FiguresInv, FiguresType
<1>3. \A r \in S : E(r) \in Nat
    BY <1>1, <1>2 DEF FiguresInv, FiguresType, RunRow, ExpiresAt
<1> HIDE DEF E, S
<1>4. A = B
    BY <1>2, <1>3
<1>5. /\ {r \in A : E(r) - clock \in (0 + 1)..Hour} = {r \in B : E(r) <= clock + Hour}
      /\ {r \in A : E(r) - clock \in (Hour + 1)..SixHours}
           = {r \in B : E(r) > clock + Hour} \cap {r \in B : E(r) <= clock + SixHours}
      /\ {r \in A : E(r) - clock \in (SixHours + 1)..Retention}
           = {r \in B : E(r) > clock + SixHours} \cap {r \in B : E(r) <= clock + Retention}
    BY <1>2, <1>3, <1>4
<1>6. MemoryLifecycle(c) =
        [active |-> Cardinality(A),
         uploads |-> Cardinality({r \in A : rows[r].sub.source = "custom"}),
         buckets |-> <<Cardinality({r \in A : E(r) - clock \in (0 + 1)..Hour}),
                       Cardinality({r \in A : E(r) - clock \in (Hour + 1)..SixHours}),
                       Cardinality({r \in A : E(r) - clock \in (SixHours + 1)..Retention})>>]
    BY <1>1 DEF MemoryLifecycle, E
<1>7. RowsLifecycle(c) =
        [active |-> Cardinality(B),
         uploads |-> Cardinality({r \in B : rows[r].sub.source = "custom"}),
         buckets |-> <<Cardinality({r \in B : E(r) <= clock + Hour}),
                       Cardinality({r \in B : E(r) > clock + Hour}
                                     \cap {r \in B : E(r) <= clock + SixHours}),
                       Cardinality({r \in B : E(r) > clock + SixHours}
                                     \cap {r \in B : E(r) <= clock + Retention})>>]
    BY DEF RowsLifecycle, S, E
<1> HIDE DEF A, B
<1> QED
    BY <1>4, <1>5, <1>6, <1>7

LEMMA FiguresAreSame == ASSUME FiguresInv PROVE SameFigures
<1> SUFFICES ASSUME NEW c \in Cutoffs
             PROVE  /\ MemoryUsage(c) = RowsUsage(c)
                    /\ MemoryOrigins(c) = RowsOrigins(c)
                    /\ MemoryCosts(c) = RowsCosts(c)
                    /\ MemoryLifecycle(c) = RowsLifecycle(c)
                    /\ {WorkflowStatus(list) : list \in MemoryLists(c)}
                         = {WorkflowStatus(list) : list \in RowsLists(c)}
    BY DEF SameFigures
<1>1. MemoryUsage(c) = RowsUsage(c)
    BY CountersAreFigures, RecountIsFigures DEF MemoryUsage
<1> QED
    BY <1>1, SameOrigins, SameCosts, SameLifecycle, SameLists

\* SameFigures: whatever the two repositories were told of the runs, by an
\* executor, a deletion or the purge, they publish the same figures.
THEOREM SameFiguresTheorem == FiguresSpec => []SameFigures
BY FiguresInvariant, FiguresAreSame, PTL

-----------------------------------------------------------------------------
(* The figures of one state of the table add up.                            *)

\* What holds of every row that is counted.
LEMMA RowsAreOk ==
    ASSUME FiguresInv, NEW c
    PROVE  /\ Selected(c) \in SUBSET DOMAIN rows
           /\ \A r \in Selected(c) : /\ r \in Run /\ rows[r] \in RunRow
                                             /\ RowOk(rows[r]) /\ RunOk(r)
<1>1. Selected(c) \in SUBSET DOMAIN rows
    BY SelectedAreRows
<1> QED
    BY <1>1 DEF FiguresInv, FiguresType, RowsInv, RunOk

LEMMA DisjointCount ==
    ASSUME FiguresType, NEW S \in SUBSET DOMAIN rows, NEW T \in SUBSET DOMAIN rows, S \cap T = {}
    PROVE  Cardinality(S \cup T) = Cardinality(S) + Cardinality(T)
<1>1. /\ IsFiniteSet(S) /\ Cardinality(S) \in Nat
      /\ IsFiniteSet(T) /\ Cardinality(T) \in Nat
    BY RowsFinite
<1>2. Cardinality(S \cap T) = 0
    BY FS_EmptySet
<1>3. Cardinality(S \cup T) = Cardinality(S) + Cardinality(T) - Cardinality(S \cap T)
    BY <1>1, FS_Union
<1> QED
    BY <1>1, <1>2, <1>3

LEMMA ThreeAreFinite ==
    ASSUME NEW x, NEW y, NEW z PROVE IsFiniteSet({x, y, z})
<1>1. IsFiniteSet({x})
    BY FS_Singleton
<1>2. IsFiniteSet({x} \cup {y})
    BY <1>1, FS_AddElement
<1>3. IsFiniteSet(({x} \cup {y}) \cup {z})
    BY <1>2, FS_AddElement
<1>4. ({x} \cup {y}) \cup {z} = {x, y, z}
    OBVIOUS
<1> QED
    BY <1>3, <1>4

LEMMA OutcomesAddUp ==
    ASSUME FiguresInv, NEW c
    PROVE  Sum(RowsUsage(c).outcomes) = RowsUsage(c).completed
<1> DEFINE S == Selected(c)
           G == [o \in Outcome |-> {r \in S : rows[r].outcome = o}]
           n == [o \in Outcome |-> Cardinality({r \in S : rows[r].outcome = o})]
           T == {r \in S : rows[r].completed}
<1>1. RowsUsage(c).outcomes = n /\ RowsUsage(c).completed = Cardinality(T)
    BY DEF RowsUsage
<1>2. IsFiniteSet(Outcome)
  <2>1. Outcome = {"evidence_consistent", "conflict", "not_found"}
                    \cup {"clear", "needs_review", "incomplete"}
      BY DEF Outcome, OutcomesOf
  <2> QED
      BY <2>1, ThreeAreFinite, FS_Union
<1>3. S \in SUBSET DOMAIN rows /\ \A r \in S : RowOk(rows[r]) /\ rows[r] \in RunRow
    BY RowsAreOk
<1>4. \A r \in S : rows[r].completed <=> rows[r].outcome \in Outcome
    BY <1>3 DEF RowOk, CompletedRow, OpenRow, RunRow, NoOutcome, Outcome, OutcomesOf
<1>5. \A o \in DOMAIN G : IsFiniteSet(G[o]) /\ n[o] = Cardinality(G[o])
    BY <1>3, RowsFinite DEF FiguresInv
<1>6. \A x : x \in T <=> \E o \in DOMAIN G : x \in G[o]
    BY <1>4
<1>7. /\ DOMAIN G = Outcome /\ DOMAIN n = DOMAIN G
      /\ \A o, p \in DOMAIN G : o # p => G[o] \cap G[p] = {}
    OBVIOUS
<1> HIDE DEF G, n, T, S
<1>8. Sum(n) = Cardinality(T)
    BY <1>2, <1>5, <1>6, <1>7, SumOfParts
<1> QED
    BY <1>1, <1>8

LEMMA EndsAreOnce ==
    ASSUME FiguresInv, NEW c PROVE EachEndsOnce(c, RowsUsage(c))
<1> DEFINE S == Selected(c)
           C == {r \in S : rows[r].completed}
           F == {r \in S : rows[r].failed}
<1>1. S \in SUBSET DOMAIN rows /\ \A r \in S : RunOk(r)
    BY RowsAreOk
<1>2. C \cup F \in SUBSET S /\ C \cap F \in SUBSET (lost \cap S)
    BY <1>1 DEF RunOk
<1>3. /\ RowsUsage(c).completed = Cardinality(C) /\ RowsUsage(c).failed = Cardinality(F)
      /\ RowsUsage(c).total = Cardinality(S)
    BY DEF RowsUsage
<1>4. /\ C \in SUBSET DOMAIN rows /\ F \in SUBSET DOMAIN rows
      /\ lost \cap S \in SUBSET DOMAIN rows /\ C \cap F \in SUBSET DOMAIN rows
      /\ C \cup F \in SUBSET DOMAIN rows
    BY <1>1
<1> HIDE DEF C, F, S
<1>5. /\ IsFiniteSet(S) /\ Cardinality(S) \in Nat
      /\ IsFiniteSet(C) /\ Cardinality(C) \in Nat
      /\ IsFiniteSet(F) /\ Cardinality(F) \in Nat
      /\ IsFiniteSet(lost \cap S) /\ Cardinality(lost \cap S) \in Nat
      /\ Cardinality(C \cap F) \in Nat /\ Cardinality(C \cup F) \in Nat
    BY <1>1, <1>4, RowsFinite DEF FiguresInv
<1>6. Cardinality(C \cup F) <= Cardinality(S) /\ Cardinality(C \cap F) <= Cardinality(lost \cap S)
    BY <1>2, <1>5, FS_Subset
<1>7. Cardinality(C \cup F) = Cardinality(C) + Cardinality(F) - Cardinality(C \cap F)
    BY <1>5, FS_Union
<1>8. Cardinality(C) + Cardinality(F) <= Cardinality(S) + Cardinality(lost \cap S)
    BY <1>5, <1>6, <1>7
<1> QED
    BY <1>3, <1>8, OutcomesAddUp DEF EachEndsOnce, S

\* A month begins no later than its days.
LEMMA MonthBeforeDay ==
    \A t \in Nat : /\ t - (t % Month) <= t - (t % Day)
                   /\ t - (t % Day) \in Int /\ t - (t % Month) \in Int
<1> SUFFICES ASSUME NEW t \in Nat
             PROVE  /\ t - (t % Month) <= t - (t % Day)
                    /\ t - (t % Day) \in Int /\ t - (t % Month) \in Int
    OBVIOUS
<1>1. Day \in Nat /\ Day > 0 /\ Month \in Nat /\ Month > 0 /\ Month % Day = 0
    BY FiguresAssumption
<1> DEFINE k == Month \div Day
           m == t \div Month
           a == t % Month
           i == t \div Day
           b == t % Day
<1>2. /\ k \in Int /\ Month = Day * k
    BY <1>1
<1>3. m \in Int /\ a \in 0..(Month - 1) /\ t = Month * m + a
    BY <1>1
<1>4. i \in Int /\ b \in 0..(Day - 1) /\ t = Day * i + b
    BY <1>1
<1> HIDE DEF k, m, a, i, b
<1>5. Month * m = Day * (k * m)
    BY <1>1, <1>2, <1>3
<1>6. a = Day * (i - k * m) + b
    BY <1>1, <1>2, <1>3, <1>4, <1>5
<1>7. k * m \in Int
    BY <1>2, <1>3
<1>8. i - k * m >= 0
  <2> DEFINE j == i - k * m
  <2>1. j \in Int /\ a = Day * j + b
      BY <1>4, <1>6, <1>7
  <2> HIDE DEF j
  <2>2. SUFFICES ASSUME j <= -1 PROVE FALSE
      BY <2>1 DEF j
  <2>3. Day * j <= Day * (-1)
      BY <1>1, <2>1, <2>2
  <2> QED
      BY <1>1, <1>3, <1>4, <2>1, <2>3
<1>9. b <= a
  <2> DEFINE j == i - k * m
  <2>1. j \in Nat /\ a = Day * j + b
      BY <1>4, <1>6, <1>7, <1>8
  <2> HIDE DEF j
  <2>2. Day * j >= 0
      BY <1>1, <2>1
  <2>3. Day * j \in Int
      BY <1>1, <2>1
  <2> QED
      BY <1>3, <1>4, <2>1, <2>2, <2>3
<1>10. a \in Int /\ b \in Int
    BY <1>1, <1>3, <1>4
<1> QED
    BY <1>9, <1>10 DEF a, b

\* The cost of the runs of S, by any key of them.
LEMMA GroupsAddUp ==
    ASSUME FiguresInv, NEW S \in SUBSET DOMAIN rows, NEW key, DOMAIN key = S
    PROVE  GroupCosts(GroupBy(S, key)) = CostOf(rows, S)
<1> DEFINE K == {key[r] : r \in S}
           Group(k) == {r \in S : key[r] = k}
           f == [r \in S |-> rows[r].cost]
           c == [k \in K |-> CostOf(rows, Group(k))]
           g == GroupBy(S, key)
<1>1. DOMAIN g = K /\ \A k \in K : g[k].cost = CostOf(rows, Group(k))
    BY DEF GroupBy
<1>2. GroupCosts(g) = Sum(c)
  <2>1. [k \in DOMAIN g |-> g[k].cost] = c
      BY <1>1
  <2> HIDE DEF g, c
  <2> QED
      BY <2>1 DEF GroupCosts
<1>3. Summable(f) /\ CostOf(rows, S) = Sum(f)
    BY RowsSummable DEF FiguresInv, CostOf
<1>4. DOMAIN key = DOMAIN f
    OBVIOUS
<1>5. \A k : k \in DOMAIN c <=> \E x \in DOMAIN f : k = key[x]
    OBVIOUS
<1>6. ASSUME NEW k \in DOMAIN c
      PROVE  \E h : /\ c[k] = Sum(h)
                    /\ \A x : x \in DOMAIN h <=> x \in DOMAIN f /\ key[x] = k
                    /\ \A x \in DOMAIN h : h[x] = f[x]
  <2> DEFINE h == [r \in Group(k) |-> rows[r].cost]
  <2>1. c[k] = Sum(h)
      BY DEF CostOf
  <2>2. /\ \A x : x \in DOMAIN h <=> x \in DOMAIN f /\ key[x] = k
        /\ \A x \in DOMAIN h : h[x] = f[x]
      OBVIOUS
  <2> HIDE DEF h, c, f
  <2> QED
      BY <2>1, <2>2
<1> HIDE DEF c, f
<1>7. Sum(c) = Sum(f)
    BY <1>3, <1>4, <1>5, <1>6, SumOfSums
<1> QED
    BY <1>2, <1>3, <1>7

LEMMA CostsAgree ==
    ASSUME FiguresInv, NEW c
    PROVE  DatesAddUp(CostSummary(c)) /\ CostsAddUp(RowsCosts(c), RowsUsage(c))
<1> DEFINE S == Selected(c)
           E == ConfirmedRuns(c)
           Since(t) == {r \in E : rows[r].completedAt >= t}
           day == DateTrunc(Day, clock)
           month == DateTrunc(Month, clock)
           F == {r \in E : rows[r].sub.family \in DocumentFamily}
           models == [r \in E |-> <<rows[r].sub.provider, rows[r].sub.model>>]
           families == [r \in F |-> rows[r].sub.family]
           costs == RowsCosts(c)
           dates == CostSummary(c)
<1>1. S \in SUBSET DOMAIN rows /\ \A r \in S : RowOk(rows[r]) /\ rows[r] \in RunRow
    BY RowsAreOk
<1>2. /\ E \in SUBSET DOMAIN rows /\ Since(day) \in SUBSET DOMAIN rows
      /\ Since(month) \in SUBSET DOMAIN rows /\ F \in SUBSET E
    BY <1>1 DEF ConfirmedRuns
<1>3. clock \in Nat /\ clock < NotYet
    BY FiguresAssumption DEF FiguresInv, FiguresType, NotYet
<1>4. month <= day /\ day \in Int /\ month \in Int
    BY <1>3, MonthBeforeDay DEF DateTrunc
<1>5. \A r \in E : rows[r].completedAt \in Nat
    BY <1>1 DEF RunRow, ConfirmedRuns
<1>6. /\ dates.today = CostOf(rows, Since(day)) /\ dates.month = CostOf(rows, Since(month))
      /\ dates.total = CostOf(rows, E) /\ costs.total = CostOf(rows, E)
      /\ costs.byModel = GroupBy(E, models)
      /\ costs.byFamily = GroupBy(F, families)
    BY DEF RowsCosts, CostSummary, CostByModel, CostByFamily
<1>7. RowsUsage(c).cost = CostOf(rows, S)
    BY DEF RowsUsage
<1>8. \A r \in S : rows[r].cost > 0 => r \in E
  <2> SUFFICES ASSUME NEW r \in S, rows[r].cost > 0 PROVE Eligible(rows[r])
      BY DEF ConfirmedRuns
  <2>1. RowOk(rows[r]) /\ rows[r] \in RunRow
      BY <1>1
  <2>2. rows[r].sub.provider \in Provider
      BY <2>1, SubmissionAssumption DEF RunRow
  <2>3. rows[r].completed
      BY <2>1 DEF RowOk, OpenRow, RunRow
  <2>4. rows[r].completedAt # NotYet
      BY <1>3, <2>1, <2>3, FiguresAssumption DEF RowOk, CompletedRow, RunRow, NotYet
  <2> QED
      BY <2>1, <2>2, <2>3, <2>4 DEF Eligible, RowOk, CompletedRow
<1>9. \A r \in Since(day) : r \in Since(month)
  <2> HIDE DEF day, month, E
  <2> QED
      BY <1>4, <1>5
<1>10. DOMAIN models = E /\ DOMAIN families = F
    OBVIOUS
<1>11. FiguresType
    BY DEF FiguresInv
<1>12. Since(month) \in SUBSET E /\ E \in SUBSET S
    BY DEF ConfirmedRuns
<1> HIDE DEF costs, dates, models, families, day, month, E, F, Since, S
<1>13. dates.today <= dates.month
    BY <1>2, <1>6, <1>9, <1>11, CostsMonotone
<1>14. dates.month <= dates.total
    BY <1>2, <1>6, <1>11, <1>12, CostsMonotone
<1>15. costs.total = RowsUsage(c).cost
  <2>1. CostOf(rows, E) <= CostOf(rows, S) /\ CostOf(rows, S) <= CostOf(rows, E)
      BY <1>1, <1>2, <1>8, <1>11, <1>12, CostsMonotone
  <2>2. CostOf(rows, E) \in Nat /\ CostOf(rows, S) \in Nat
      BY <1>1, <1>2, <1>11, RowsSummable
  <2> QED
      BY <1>6, <1>7, <2>1, <2>2
<1>16. GroupCosts(costs.byModel) = costs.total
    BY <1>2, <1>6, <1>10, GroupsAddUp
<1>17. GroupCosts(costs.byFamily) <= costs.total
  <2>1. F \in SUBSET DOMAIN rows
      BY <1>2
  <2>2. GroupCosts(costs.byFamily) = CostOf(rows, F)
      BY <1>6, <1>10, <2>1, GroupsAddUp
  <2>3. CostOf(rows, F) <= CostOf(rows, E)
      BY <1>2, <1>11, <2>1, CostsMonotone
  <2> QED
      BY <1>6, <2>2, <2>3
<1> QED
    BY <1>13, <1>14, <1>15, <1>16, <1>17 DEF DatesAddUp, CostsAddUp, costs, dates

\* A document is active while its details can be read.
LEMMA ActiveAre ==
    ASSUME FiguresInv, NEW c
    PROVE  RowsLifecycle(c).active = Cardinality({r \in Selected(c) : HasDetails(rows[r])})
<1> DEFINE S == Selected(c)
           E(r) == ExpiresAt(rows[r])
           A == {r \in S : /\ ~rows[r].gone /\ rows[r].status \notin {"expired", "deleted"}
                           /\ E(r) > clock /\ E(r) <= clock + Retention}
<1>1. S \in SUBSET DOMAIN rows /\ \A r \in S : RowOk(rows[r]) /\ rows[r] \in RunRow
    BY RowsAreOk
<1>2. clock \in Nat /\ Retention \in Nat
    BY FiguresAssumption DEF FiguresInv, FiguresType
<1>3. \A r \in S : E(r) \in Nat /\ E(r) <= clock + Retention
  <2> SUFFICES ASSUME NEW r \in S PROVE E(r) \in Nat /\ E(r) <= clock + Retention
      OBVIOUS
  <2>1. rows[r].createdAt \in Nat /\ rows[r].createdAt <= clock
      BY <1>1 DEF RowOk, RunRow
  <2> QED
      BY <1>2, <2>1 DEF ExpiresAt
<1>4. A = {r \in S : HasDetails(rows[r])}
  <2> SUFFICES ASSUME NEW r \in S PROVE r \in A <=> HasDetails(rows[r])
      OBVIOUS
  <2>1. IsExpired(rows[r]) <=> ~(E(r) > clock)
      BY <1>2, <1>3 DEF IsExpired
  <2>2. E(r) <= clock + Retention
      BY <1>3
  <2> HIDE DEF E
  <2> QED
      BY <2>1, <2>2 DEF HasDetails, RowStatus
<1>5. RowsLifecycle(c).active = Cardinality(A)
    BY DEF RowsLifecycle
<1> QED
    BY <1>4, <1>5

LEMMA ReadableAgree ==
    ASSUME FiguresInv, NEW c PROVE ActiveIsReadable(c, RowsLifecycle(c))
<1> DEFINE S == Selected(c)
           E(r) == ExpiresAt(rows[r])
           A == {r \in S : /\ ~rows[r].gone /\ rows[r].status \notin {"expired", "deleted"}
                           /\ E(r) > clock /\ E(r) <= clock + Retention}
           B1 == {r \in A : E(r) <= clock + Hour}
           B2 == {r \in A : E(r) > clock + Hour} \cap {r \in A : E(r) <= clock + SixHours}
           B3 == {r \in A : E(r) > clock + SixHours} \cap {r \in A : E(r) <= clock + Retention}
           lifecycle == RowsLifecycle(c)
<1>1. S \in SUBSET DOMAIN rows /\ \A r \in S : rows[r] \in RunRow
    BY RowsAreOk
<1>2. /\ clock \in Nat /\ Retention \in Nat /\ Hour \in Nat /\ SixHours \in Nat
      /\ Hour < SixHours /\ SixHours < Retention
    BY FiguresAssumption DEF FiguresInv, FiguresType
<1>3. \A r \in A : E(r) \in Nat /\ E(r) <= clock + Retention
    BY <1>1, <1>2 DEF ExpiresAt, RunRow
<1>4. /\ lifecycle.active = Cardinality(A)
      /\ lifecycle.buckets = <<Cardinality(B1), Cardinality(B2), Cardinality(B3)>>
    BY DEF RowsLifecycle
<1>5. A \in SUBSET DOMAIN rows /\ FiguresType
    BY <1>1 DEF FiguresInv
<1> HIDE DEF E, A, lifecycle
<1>6. A = (B1 \cup B2) \cup B3 /\ B1 \cap B2 = {} /\ (B1 \cup B2) \cap B3 = {}
    BY <1>2, <1>3
<1>7. /\ B1 \in SUBSET DOMAIN rows /\ B2 \in SUBSET DOMAIN rows /\ B3 \in SUBSET DOMAIN rows
      /\ B1 \cup B2 \in SUBSET DOMAIN rows
    BY <1>5, <1>6
<1>8. /\ lifecycle.buckets[1] = Cardinality(B1) /\ lifecycle.buckets[2] = Cardinality(B2)
      /\ lifecycle.buckets[3] = Cardinality(B3)
    BY <1>4
<1> HIDE DEF B1, B2, B3
<1>9. Cardinality(B1 \cup B2) = Cardinality(B1) + Cardinality(B2)
    BY <1>5, <1>6, <1>7, DisjointCount
<1>10. Cardinality((B1 \cup B2) \cup B3) = Cardinality(B1 \cup B2) + Cardinality(B3)
    BY <1>5, <1>6, <1>7, DisjointCount
<1> QED
    BY <1>4, <1>6, <1>8, <1>9, <1>10, ActiveAre DEF ActiveIsReadable, lifecycle

\* What a list says of a run.
LEMMA ListIs ==
    ASSUME FiguresInv, NEW c, NEW list \in RowsLists(c)
    PROVE  /\ DOMAIN list \in SUBSET Selected(c)
           /\ \A r \in DOMAIN list : /\ list[r].status = RowStatus(rows[r])
                                     /\ list[r].outcome = rows[r].outcome
                                     /\ OriginReview(list[r]) <=> OriginReview(rows[r])
<1>1. PICK L \in Latest(rows, Selected(c)) :
          list = [r \in L |-> PublicRun(rows[r], RowStatus(rows[r]))]
    BY DEF RowsLists
<1>2. L \in SUBSET Selected(c) /\ DOMAIN list = L
    BY <1>1 DEF Latest
<1>3. \A r \in L : list[r] = PublicRun(rows[r], RowStatus(rows[r]))
    BY <1>1
<1> QED
    BY <1>2, <1>3 DEF PublicRun, OriginReview

LEMMA TilesAgree ==
    ASSUME FiguresInv, NEW c, NEW list \in RowsLists(c)
    PROVE  TilesAreActive(RowsLifecycle(c), WorkflowStatus(list))
<1> DEFINE S == Selected(c)
           A == {r \in S : HasDetails(rows[r])}
           Done == {r \in DOMAIN list : list[r].status = "completed"}
           T1 == {r \in Done : ~OriginReview(list[r])
                               /\ list[r].outcome \in {"clear", "evidence_consistent"}}
           T2 == {r \in Done : OriginReview(list[r])
                               \/ list[r].outcome \in {"needs_review", "conflict"}}
           T3 == {r \in Done : list[r].outcome \in {"incomplete", "not_found"}}
           T4 == {r \in DOMAIN list : list[r].status = "failed"}
           tiles == WorkflowStatus(list)
<1>1. S \in SUBSET DOMAIN rows /\ \A r \in S : RowOk(rows[r]) /\ rows[r] \in RunRow
    BY RowsAreOk
<1>2. /\ DOMAIN list \in SUBSET S
      /\ \A r \in DOMAIN list : list[r].status = RowStatus(rows[r])
    BY ListIs
<1>3. /\ tiles.ready = Cardinality(T1) /\ tiles.needsAttention = Cardinality(T2)
      /\ tiles.incomplete = Cardinality(T3) /\ tiles.processingErrors = Cardinality(T4)
    BY DEF WorkflowStatus
<1>4. T1 \cap T2 = {} /\ (T1 \cup T2) \cap T3 = {} /\ ((T1 \cup T2) \cup T3) \cap T4 = {}
    BY DEF OriginReview
<1>5. ((T1 \cup T2) \cup T3) \cup T4 \in SUBSET A
  <2> SUFFICES ASSUME NEW r \in DOMAIN list, list[r].status \in {"completed", "failed"}
               PROVE  r \in A
      OBVIOUS
  <2>1. RowStatus(rows[r]) \in {"completed", "failed"} /\ r \in S
      BY <1>2
  <2>2. rows[r].status \in {"completed", "failed"} /\ ~IsExpired(rows[r])
      BY <2>1 DEF RowStatus
  <2>3. ~rows[r].gone
      BY <1>1, <2>1, <2>2 DEF RowOk, RunRow
  <2> QED
      BY <2>1, <2>2, <2>3 DEF HasDetails
<1>6. A \in SUBSET DOMAIN rows /\ FiguresType
    BY <1>1 DEF FiguresInv
<1> HIDE DEF A, T1, T2, T3, T4, Done, S, tiles
<1>7. /\ T1 \in SUBSET DOMAIN rows /\ T2 \in SUBSET DOMAIN rows
      /\ T3 \in SUBSET DOMAIN rows /\ T4 \in SUBSET DOMAIN rows
      /\ T1 \cup T2 \in SUBSET DOMAIN rows /\ (T1 \cup T2) \cup T3 \in SUBSET DOMAIN rows
    BY <1>5, <1>6
<1>8. Cardinality(T1 \cup T2) = Cardinality(T1) + Cardinality(T2)
    BY <1>4, <1>6, <1>7, DisjointCount
<1>9. Cardinality((T1 \cup T2) \cup T3) = Cardinality(T1 \cup T2) + Cardinality(T3)
    BY <1>4, <1>6, <1>7, DisjointCount
<1>10. Cardinality(((T1 \cup T2) \cup T3) \cup T4)
         = Cardinality((T1 \cup T2) \cup T3) + Cardinality(T4)
    BY <1>4, <1>6, <1>7, DisjointCount
<1>11. IsFiniteSet(A)
    BY <1>6, RowsFinite
<1>12. Cardinality(((T1 \cup T2) \cup T3) \cup T4) <= Cardinality(A)
    BY <1>5, <1>11, FS_Subset
<1>13. RowsLifecycle(c).active = Cardinality(A)
    BY ActiveAre DEF A, S
<1> QED
    BY <1>3, <1>8, <1>9, <1>10, <1>12, <1>13 DEF TilesAreActive, tiles

LEMMA ReviewsAgree ==
    ASSUME FiguresInv, NEW c, NEW list \in RowsLists(c)
    PROVE  ReviewAddsUp(c, RowsUsage(c), list)
<1> DEFINE S == Selected(c)
           R == {r \in S : ReviewRequired(rows[r])}
           Done == {r \in DOMAIN list : list[r].status = "completed"}
           T2 == {r \in Done : OriginReview(list[r])
                               \/ list[r].outcome \in {"needs_review", "conflict"}}
           T3 == {r \in Done : list[r].outcome \in {"incomplete", "not_found"}}
           Past == {r \in S : /\ ReviewRequired(rows[r])
                              /\ ~(r \in DOMAIN list /\ list[r].status = "completed")}
<1>1. S \in SUBSET DOMAIN rows /\ \A r \in S : RowOk(rows[r]) /\ rows[r] \in RunRow
    BY RowsAreOk
<1>2. /\ DOMAIN list \in SUBSET S
      /\ \A r \in DOMAIN list : /\ list[r].status = RowStatus(rows[r])
                                /\ list[r].outcome = rows[r].outcome
                                /\ OriginReview(list[r]) <=> OriginReview(rows[r])
    BY ListIs
<1>3. /\ RowsUsage(c).review = Cardinality(R)
      /\ WorkflowStatus(list).needsAttention = Cardinality(T2)
      /\ WorkflowStatus(list).incomplete = Cardinality(T3)
    BY DEF RowsUsage, WorkflowStatus
<1>4. \A r \in Done : rows[r].completed
  <2> SUFFICES ASSUME NEW r \in Done PROVE rows[r].completed
      OBVIOUS
  <2>1. rows[r].status = "completed" /\ r \in S
      BY <1>2 DEF RowStatus
  <2> QED
      BY <1>1, <2>1 DEF RowOk, OpenRow
<1>5. T2 \cap T3 = {} /\ (T2 \cup T3) \cap Past = {}
    BY DEF OriginReview
<1>6. R = (T2 \cup T3) \cup Past
  <2>1. \A r \in Done : ReviewRequired(rows[r]) <=> r \in T2 \cup T3
    <3> SUFFICES ASSUME NEW r \in Done
                 PROVE  ReviewRequired(rows[r]) <=>
                          \/ OriginReview(list[r]) \/ list[r].outcome \in {"needs_review", "conflict"}
                          \/ list[r].outcome \in {"incomplete", "not_found"}
        OBVIOUS
    <3>1. ReviewRequired(rows[r]) <=> HumanReview(rows[r])
        BY <1>4, SameReview
    <3> QED
        BY <1>2, <3>1 DEF HumanReview
  <2>2. Done \in SUBSET S
      BY <1>2
  <2> QED
      BY <2>1, <2>2
<1>7. /\ T2 \in SUBSET DOMAIN rows /\ T3 \in SUBSET DOMAIN rows /\ Past \in SUBSET DOMAIN rows
      /\ T2 \cup T3 \in SUBSET DOMAIN rows
    BY <1>1, <1>2
<1>8. FiguresType
    BY DEF FiguresInv
<1>9. ReviewAddsUp(c, RowsUsage(c), list) <=>
          RowsUsage(c).review = WorkflowStatus(list).needsAttention
                                + WorkflowStatus(list).incomplete + Cardinality(Past)
    BY DEF ReviewAddsUp
<1> HIDE DEF R, T2, T3, Done, Past, S
<1>10. Cardinality(T2 \cup T3) = Cardinality(T2) + Cardinality(T3)
    BY <1>5, <1>7, <1>8, DisjointCount
<1>11. Cardinality((T2 \cup T3) \cup Past) = Cardinality(T2 \cup T3) + Cardinality(Past)
    BY <1>5, <1>7, <1>8, DisjointCount
<1> QED
    BY <1>3, <1>6, <1>9, <1>10, <1>11

LEMMA FiguresAgree == ASSUME FiguresInv PROVE FiguresAddUp
<1> SUFFICES ASSUME NEW c \in Cutoffs
             PROVE  /\ StatementsAddUp(c)
                    /\ CostsAddUp(RowsCosts(c), RowsUsage(c))
                    /\ \A list \in RowsLists(c) :
                           /\ TilesAreActive(RowsLifecycle(c), WorkflowStatus(list))
                           /\ ReviewAddsUp(c, RowsUsage(c), list)
    BY DEF FiguresAddUp
<1>1. StatementsAddUp(c)
    BY EndsAreOnce, CostsAgree, ReadableAgree DEF StatementsAddUp
<1>2. CostsAddUp(RowsCosts(c), RowsUsage(c))
    BY CostsAgree
<1> QED
    BY <1>1, <1>2, TilesAgree, ReviewsAgree

\* FiguresAddUp: the rates, costs, tiles and buckets taken from one state of the
\* table are parts of the same runs, for any number of runs and any usage and prices.
THEOREM FiguresAddUpTheorem == FiguresSpec => []FiguresAddUp
BY FiguresInvariant, FiguresAgree, PTL

-----------------------------------------------------------------------------
(* The figures of all time only grow.                                       *)

\* What no step takes from a run.
Grown(old, new) ==
    /\ new.sub = old.sub
    /\ old.completed => new.completed /\ new.completedAt = old.completedAt
    /\ old.outcome # NoOutcome => new.outcome = old.outcome
    /\ old.failed => new.failed
    /\ old.dispatched => new.dispatched
    /\ old.tokens <= new.tokens /\ old.cost <= new.cost
RunsGrow ==
    /\ clock <= clock' /\ DOMAIN rows \subseteq DOMAIN rows'
    /\ \A q \in DOMAIN rows : Grown(rows[q], rows'[q])

LEMMA StayingIsGrowing ==
    ASSUME FiguresType, RunsStay, clock <= clock' PROVE RunsGrow
<1>1. \A q \in DOMAIN rows : rows[q].tokens \in Nat /\ rows[q].cost \in Nat
    BY DEF FiguresType, RunRow
<1> QED
    BY <1>1 DEF RunsStay, RunsGrow, TableCounts, Grown

LEMMA OneRowGrows ==
    ASSUME FiguresType, NEW r \in DOMAIN rows, NEW new, OneRow(r, new),
           Grown(rows[r], new), clock' = clock
    PROVE  RunsGrow
<1>1. \A q \in DOMAIN rows : rows[q].tokens \in Nat /\ rows[q].cost \in Nat
    BY DEF FiguresType, RunRow
<1>2. clock \in Nat
    BY FiguresAssumption DEF FiguresType
<1> QED
    BY <1>1, <1>2 DEF OneRow, RunsGrow, Grown

LEMMA DispatchGrows ==
    ASSUME FiguresInv, NEW r \in Run, Dispatch(r) PROVE RunsGrow
<1> DEFINE new == [rows[r] EXCEPT !.dispatched = TRUE]
<1>1. FiguresType /\ r \in DOMAIN rows /\ OneRow(r, new) /\ clock' = clock
    BY DispatchKeepsRows DEF FiguresInv, Dispatch
<1>2. rows[r] \in RunRow
    BY <1>1 DEF FiguresType
<1>3. Grown(rows[r], new)
  <2>1. /\ new.dispatched /\ new.sub = rows[r].sub /\ new.outcome = rows[r].outcome
        /\ new.completed = rows[r].completed /\ new.failed = rows[r].failed
        /\ new.tokens = rows[r].tokens /\ new.cost = rows[r].cost
        /\ new.completedAt = rows[r].completedAt
      BY <1>2, DispatchedRow
  <2> HIDE DEF new
  <2> QED
      BY <1>2, <2>1 DEF Grown, RunRow
<1> HIDE DEF new
<1> QED
    BY <1>1, <1>3, OneRowGrows

LEMMA SaveGrows ==
    ASSUME FiguresInv, NEW r \in Run, NEW result \in Result, NEW answered \in BOOLEAN,
           Save(r, result, answered)
    PROVE  RunsGrow
<1> DEFINE b == Billed(r, result)
           new == Saved(rows[r], b)
<1>1. /\ FiguresType /\ r \in DOMAIN rows /\ rows[r] \in RunRow /\ RowOk(rows[r])
      /\ ~rows[r].completed /\ OneRow(r, new) /\ clock' = clock
    BY SaveKeepsRows DEF FiguresInv, Save
<1>2. b.outcome \in Outcome /\ b.tokens \in Nat /\ b.cost \in Nat
    BY BilledIs DEF FiguresInv
<1>3. clock \in Nat
    BY FiguresAssumption DEF FiguresInv, FiguresType
<1> HIDE DEF b
<1>4. /\ new.completed /\ new.tokens = b.tokens /\ new.cost = b.cost
      /\ new.sub = rows[r].sub /\ new.dispatched = rows[r].dispatched
      /\ new.failed = rows[r].failed
    BY <1>1, <1>2, <1>3, SavedRow
<1> HIDE DEF new
<1>5. Grown(rows[r], new)
    BY <1>1, <1>2, <1>4 DEF Grown, RowOk, OpenRow
<1> QED
    BY <1>1, <1>5, OneRowGrows

LEMMA FailGrows ==
    ASSUME FiguresInv, NEW r \in Run, Fail(r, TRUE) PROVE RunsGrow
<1> DEFINE new == Failed(rows[r])
<1>1. FiguresType /\ r \in DOMAIN rows /\ rows[r] \in RunRow /\ OneRow(r, new) /\ clock' = clock
    BY FailKeepsRows DEF FiguresInv, Fail
<1>2. /\ new.failed /\ new.sub = rows[r].sub /\ new.outcome = rows[r].outcome
      /\ new.dispatched = rows[r].dispatched /\ new.completed = rows[r].completed
      /\ new.tokens = rows[r].tokens /\ new.cost = rows[r].cost
      /\ new.completedAt = rows[r].completedAt
    BY <1>1, FailedRow
<1> HIDE DEF new
<1>3. Grown(rows[r], new)
    BY <1>1, <1>2 DEF Grown, RunRow
<1> QED
    BY <1>1, <1>3, OneRowGrows

LEMMA StepsGrow ==
    ASSUME FiguresInv, [FiguresNext]_figuresVars PROVE RunsGrow
<1> USE DEF FiguresInv
<1>1. clock \in Nat /\ clock <= clock
    BY FiguresAssumption DEF FiguresType
<1>2. CASE UNCHANGED figuresVars
  <2>1. RunsStay
      BY <1>2 DEF figuresVars, RunsStay, TableCounts
  <2> QED
      BY <1>1, <1>2, <2>1, StayingIsGrowing DEF figuresVars
<1>3. CASE Purge
    BY <1>1, <1>3, PurgeKeepsRows, StayingIsGrowing DEF Purge
<1>4. CASE ClockTick
  <2>1. clock <= clock'
      BY <1>1, <1>4 DEF ClockTick
  <2> QED
      BY <1>4, <2>1, ClockKeepsRows, StayingIsGrowing
<1>5. ASSUME NEW r \in Run, NEW s \in Submission, Create(r, s) PROVE RunsGrow
  <2>1. /\ DOMAIN rows' = DOMAIN rows \cup {r} /\ clock' = clock
        /\ \A q \in DOMAIN rows : rows'[q] = rows[q]
      BY <1>5, CreateKeepsRows DEF Create
  <2>2. \A q \in DOMAIN rows : rows[q].tokens \in Nat /\ rows[q].cost \in Nat
      BY DEF FiguresType, RunRow
  <2> QED
      BY <1>1, <2>1, <2>2 DEF RunsGrow, Grown
<1>6. ASSUME NEW r \in Run, NEW written \in BOOLEAN, Fail(r, written) PROVE RunsGrow
  <2>1. CASE written = TRUE
      BY <1>6, <2>1, FailGrows
  <2>2. CASE written = FALSE
      BY <1>1, <1>6, <2>2, UnwrittenKeepsRows, StayingIsGrowing DEF Fail
  <2> QED
      BY <2>1, <2>2
<1>7. ASSUME NEW r \in Run, Cancel(r) PROVE RunsGrow
    BY <1>1, <1>7, CancelKeepsRows, StayingIsGrowing DEF Cancel
<1>8. ASSUME NEW r \in Run, Crash(r) PROVE RunsGrow
    BY <1>1, <1>8, CrashKeepsRows, StayingIsGrowing DEF Crash
<1>9. ASSUME NEW r \in Run, Delete(r) PROVE RunsGrow
    BY <1>1, <1>9, DeleteKeepsRows, StayingIsGrowing DEF Delete
<1> QED
    BY <1>2, <1>3, <1>4, <1>5, <1>6, <1>7, <1>8, <1>9, DispatchGrows, SaveGrows
    DEF FiguresNext, RunStep

LEMMA PartsGrow ==
    ASSUME FiguresInv', NEW S, NEW T \in SUBSET DOMAIN rows', S \subseteq T
    PROVE  Cardinality(S) <= Cardinality(T)
<1>1. IsFiniteSet(DOMAIN rows')
    BY FiguresAssumption, FS_Subset DEF FiguresInv, FiguresType
<1>2. IsFiniteSet(T)
    BY <1>1, FS_Subset
<1> QED
    BY <1>2, FS_Subset

LEMMA CostsGrow ==
    ASSUME FiguresInv, FiguresInv', RunsGrow,
           NEW S \in SUBSET DOMAIN rows, NEW T \in SUBSET DOMAIN rows', S \subseteq T
    PROVE  /\ CostOf(rows, S) <= CostOf(rows', T)
           /\ TokensOf(rows, S) <= TokensOf(rows', T)
<1> DEFINE f == [r \in S |-> rows[r].cost]
           g == [r \in T |-> rows'[r].cost]
           h == [r \in S |-> rows[r].tokens]
           k == [r \in T |-> rows'[r].tokens]
<1>1. Summable(f) /\ Summable(h)
    BY RowsSummable DEF FiguresInv
<1>2. Summable(g) /\ Summable(k)
  <2>1. IsFiniteSet(DOMAIN rows')
      BY FiguresAssumption, FS_Subset DEF FiguresInv, FiguresType
  <2>2. IsFiniteSet(T)
      BY <2>1, FS_Subset
  <2>3. \A r \in T : rows'[r].cost \in Nat /\ rows'[r].tokens \in Nat
      BY DEF FiguresInv, FiguresType, RunRow
  <2> QED
      BY <2>2, <2>3 DEF Summable
<1>3. /\ \A x \in DOMAIN f : f[x] > 0 => x \in DOMAIN g /\ f[x] <= g[x]
      /\ \A x \in DOMAIN h : h[x] > 0 => x \in DOMAIN k /\ h[x] <= k[x]
    BY DEF RunsGrow, Grown
<1>4. /\ CostOf(rows, S) = Sum(f) /\ CostOf(rows', T) = Sum(g)
      /\ TokensOf(rows, S) = Sum(h) /\ TokensOf(rows', T) = Sum(k)
    BY DEF CostOf, TokensOf
<1> HIDE DEF f, g, h, k
<1> QED
    BY <1>1, <1>2, <1>3, <1>4, SumMonotone

LEMMA UsageGrows ==
    ASSUME FiguresInv, FiguresInv', RunsGrow
    PROVE  AtLeast(RowsUsage(NoCutoff), RowsUsage(NoCutoff)')
<1> DEFINE D == DOMAIN rows
           E == DOMAIN rows'
           u == RowsUsage(NoCutoff)
           v == RowsUsage(NoCutoff)'
<1>1. \A r \in D : r \in E /\ Grown(rows[r], rows'[r])
    BY DEF RunsGrow
<1>2. /\ u.total = Cardinality(D) /\ v.total = Cardinality(E)
      /\ u.completed = Cardinality({r \in D : rows[r].completed})
      /\ v.completed = Cardinality({r \in E : rows'[r].completed})
      /\ u.failed = Cardinality({r \in D : rows[r].failed})
      /\ v.failed = Cardinality({r \in E : rows'[r].failed})
      /\ u.tokens = TokensOf(rows, D) /\ v.tokens = TokensOf(rows', E)
      /\ u.cost = CostOf(rows, D) /\ v.cost = CostOf(rows', E)
      /\ u.review = Cardinality({r \in D : rows[r].completed /\ HumanReview(rows[r])})
      /\ v.review = Cardinality({r \in E : rows'[r].completed /\ HumanReview(rows'[r])})
    BY SelectedOfAll, SameReview DEF RowsUsage
<1>3. /\ \A p \in Provider : /\ u.providers[p] = Cardinality(
                                  {r \in D : rows[r].dispatched /\ rows[r].sub.provider = p})
                             /\ v.providers[p] = Cardinality(
                                  {r \in E : rows'[r].dispatched /\ rows'[r].sub.provider = p})
      /\ \A o \in Outcome : /\ u.outcomes[o] = Cardinality({r \in D : rows[r].outcome = o})
                            /\ v.outcomes[o] = Cardinality({r \in E : rows'[r].outcome = o})
    BY SelectedOfAll, SameReview DEF RowsUsage
<1>4. u.total <= v.total
    BY <1>1, <1>2, PartsGrow
<1>5. u.completed <= v.completed
  <2>1. {r \in D : rows[r].completed} \subseteq {r \in E : rows'[r].completed}
      BY <1>1 DEF Grown
  <2> QED
      BY <1>2, <2>1, PartsGrow
<1>6. u.failed <= v.failed
  <2>1. {r \in D : rows[r].failed} \subseteq {r \in E : rows'[r].failed}
      BY <1>1 DEF Grown
  <2> QED
      BY <1>2, <2>1, PartsGrow
<1>7. u.tokens <= v.tokens /\ u.cost <= v.cost
    BY <1>1, <1>2, CostsGrow
<1>8. u.review <= v.review
  <2>1. \A r \in D : rows[r].completed /\ HumanReview(rows[r])
          => rows'[r].completed /\ HumanReview(rows'[r])
      BY <1>1 DEF Grown, HumanReview, OriginReview, NoOutcome
  <2>2. {r \in D : rows[r].completed /\ HumanReview(rows[r])}
          \subseteq {r \in E : rows'[r].completed /\ HumanReview(rows'[r])}
      BY <1>1, <2>1
  <2> QED
      BY <1>2, <2>2, PartsGrow
<1>9. ASSUME NEW p \in Provider PROVE u.providers[p] <= v.providers[p]
  <2>1. {r \in D : rows[r].dispatched /\ rows[r].sub.provider = p}
          \subseteq {r \in E : rows'[r].dispatched /\ rows'[r].sub.provider = p}
      BY <1>1 DEF Grown
  <2> DEFINE X == {r \in D : rows[r].dispatched /\ rows[r].sub.provider = p}
             Y == {r \in E : rows'[r].dispatched /\ rows'[r].sub.provider = p}
  <2>3. u.providers[p] = Cardinality(X) /\ v.providers[p] = Cardinality(Y)
      BY <1>3
  <2>4. X \subseteq Y /\ Y \in SUBSET DOMAIN rows'
      BY <2>1
  <2> HIDE DEF X, Y, u, v
  <2> QED
      BY <2>3, <2>4, PartsGrow
<1>10. ASSUME NEW o \in Outcome PROVE u.outcomes[o] <= v.outcomes[o]
  <2>1. o # NoOutcome
      BY DEF Outcome, OutcomesOf, NoOutcome
  <2>2. {r \in D : rows[r].outcome = o} \subseteq {r \in E : rows'[r].outcome = o}
      BY <1>1, <2>1 DEF Grown
  <2> DEFINE X == {r \in D : rows[r].outcome = o}
             Y == {r \in E : rows'[r].outcome = o}
  <2>3. u.outcomes[o] = Cardinality(X) /\ v.outcomes[o] = Cardinality(Y)
      BY <1>3
  <2>4. X \subseteq Y /\ Y \in SUBSET DOMAIN rows'
      BY <2>2
  <2> HIDE DEF X, Y, u, v
  <2> QED
      BY <2>3, <2>4, PartsGrow
<1> HIDE DEF u, v
<1> QED
    BY <1>4, <1>5, <1>6, <1>7, <1>8, <1>9, <1>10 DEF AtLeast, u, v

LEMMA ConfirmedCostsGrow ==
    ASSUME FiguresInv, FiguresInv', RunsGrow
    PROVE  /\ RowsCosts(NoCutoff).runs <= RowsCosts(NoCutoff)'.runs
           /\ RowsCosts(NoCutoff).total <= RowsCosts(NoCutoff)'.total
<1> DEFINE D == {r \in DOMAIN rows : Eligible(rows[r])}
           E == {r \in DOMAIN rows' : Eligible(rows[r])'}
<1>1. /\ RowsCosts(NoCutoff).runs = Cardinality(D)
      /\ RowsCosts(NoCutoff)'.runs = Cardinality(E)
      /\ RowsCosts(NoCutoff).total = CostOf(rows, D)
      /\ RowsCosts(NoCutoff)'.total = CostOf(rows', E)
    BY SelectedOfAll DEF RowsCosts, CostSummary, ConfirmedRuns
<1>2. ASSUME NEW r \in D PROVE r \in E
  <2>1. /\ Grown(rows[r], rows'[r]) /\ r \in DOMAIN rows' /\ Eligible(rows[r])
        /\ rows[r] \in RunRow /\ rows'[r] \in RunRow
      BY DEF RunsGrow, FiguresInv, FiguresType
  <2>2. clock \in Nat /\ clock' \in Nat /\ clock <= clock'
      BY FiguresAssumption DEF RunsGrow, FiguresInv, FiguresType
  <2>3. /\ rows'[r].dispatched /\ rows'[r].completed
        /\ rows'[r].completedAt = rows[r].completedAt /\ rows'[r].completedAt # NotYet
        /\ rows[r].completedAt <= clock /\ rows[r].tokens > 0
      BY <2>1 DEF Grown, Eligible
  <2>4. rows'[r].sub.provider \in Provider
      BY <2>1 DEF Grown, Eligible
  <2>5. rows'[r].completedAt <= clock' /\ rows'[r].tokens > 0
      BY <2>1, <2>2, <2>3 DEF Grown, RunRow
  <2> QED
      BY <2>1, <2>3, <2>4, <2>5 DEF Eligible, NotYet
<1>3. D \subseteq E /\ D \in SUBSET DOMAIN rows /\ E \in SUBSET DOMAIN rows'
    BY <1>2
<1> HIDE DEF D, E
<1> QED
    BY <1>1, <1>3, PartsGrow, CostsGrow

\* FiguresOnlyGrow: no step of an executor, no deletion and no purge takes
\* anything from what the public was shown of all runs.
THEOREM FiguresOnlyGrowTheorem == FiguresSpec => FiguresOnlyGrow
<1> DEFINE Step == LET usage == RowsUsage(NoCutoff)
                       costs == RowsCosts(NoCutoff)
                   IN /\ AtLeast(usage, usage')
                      /\ costs.runs <= costs'.runs /\ costs.total <= costs'.total
<1>1. FiguresInv /\ [FiguresNext]_figuresVars => [Step]_rows
  <2> SUFFICES ASSUME FiguresInv, [FiguresNext]_figuresVars PROVE Step
      OBVIOUS
  <2>1. FiguresInv' /\ RunsGrow
      BY FiguresKept, StepsGrow
  <2> QED
      BY <2>1, UsageGrows, ConfirmedCostsGrow
<1> QED
    BY <1>1, FiguresStart, FiguresKept, PTL DEF FiguresSpec, FiguresOnlyGrow
=============================================================================
