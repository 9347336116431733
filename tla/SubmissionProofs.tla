--------------------------- MODULE SubmissionProofs ---------------------------
(* Theorems about Submission, for every value of its constants.            *)
EXTENDS Submission, FiniteSetTheorems, TLAPS

Executors(k) == {p \in Of(k) : request[p].at \in {"executing", "ended"}}

\* The part of TypeOK that the argument needs.
RequestType ==
    /\ request \in [Request -> [at : Point, key : Key]]
    /\ runs \subseteq Key

\* Whoever executes a run has found its row absent and has created it: so a
\* second executor of the same key would have to find the row absent again.
ExecutorsOwnRows ==
    /\ RequestType
    /\ \A p \in Request : request[p].at \in {"executing", "ended"} => KeyOf(p) \in runs
    /\ \A p, q \in Request :
           /\ request[p].at \in {"executing", "ended"}
           /\ request[q].at \in {"executing", "ended"}
           /\ KeyOf(p) = KeyOf(q)
           => p = q

\* A set whose elements are all equal has one element at most.
LEMMA AtMostOne ==
    ASSUME NEW S, \A x, y \in S : x = y
    PROVE  Cardinality(S) <= 1
<1>1. CASE S = {}
    BY <1>1, FS_EmptySet
<1>2. CASE S # {}
  <2>1. PICK x \in S : TRUE
      BY <1>2
  <2>2. S = {x}
      BY <2>1
  <2> QED
      BY <2>2, FS_Singleton
<1> QED
    BY <1>1, <1>2

\* A step of a request that neither starts nor creates a run.
LEMMA OtherStep ==
    ASSUME ExecutorsOwnRows, NEW p \in Request, NEW point \in Point,
           point \notin {"executing", "ended"}, To(p, point),
           runs' \subseteq Key, runs \subseteq runs'
    PROVE  ExecutorsOwnRows'
<1> USE DEF ExecutorsOwnRows, RequestType, To, KeyOf
<1>1. request' \in [Request -> [at : Point, key : Key]]
    OBVIOUS
<1>2. \A q \in Request : request'[q].key = request[q].key
    OBVIOUS
<1>3. \A q \in Request : q # p => request'[q].at = request[q].at
    OBVIOUS
<1>4. request'[p].at = point
    OBVIOUS
<1>5. \A q \in Request : request'[q].at \in {"executing", "ended"}
        => q # p /\ request[q].at \in {"executing", "ended"}
    BY <1>3, <1>4
<1> QED
    BY <1>1, <1>2, <1>5

LEMMA InitExecutors == Init => ExecutorsOwnRows
BY DEF Init, ExecutorsOwnRows, RequestType, Point, Waiting

\* Every step of a request keeps a run's executor the only one.
LEMMA StepExecutors ==
    ASSUME ExecutorsOwnRows, NEW p \in Request,
           \/ Post(p) \/ Claim(p) \/ Provide(p) \/ Reserve(p) \/ Create(p) \/ Execute(p)
           \/ GiveUp(p) \/ Deny(p) \/ Catch(p) \/ Return(p) \/ Die(p)
    PROVE  ExecutorsOwnRows'
<1> USE DEF Point, Waiting
<1>0. runs \subseteq Key /\ KeyOf(p) \in Key
    BY DEF ExecutorsOwnRows, RequestType, KeyOf
<1>1. CASE Post(p)
    BY <1>0, <1>1, OtherStep DEF Post
<1>2. CASE Claim(p)
    BY <1>0, <1>2, OtherStep DEF Claim
<1>3. CASE Provide(p)
    BY <1>0, <1>3, OtherStep DEF Provide
<1>4. CASE Reserve(p)
    BY <1>0, <1>4, OtherStep DEF Reserve
<1>5. CASE Create(p)
  <2> DEFINE k == KeyOf(p)
  <2>1. CASE k \notin runs /\ runs' = runs \cup {k} /\ To(p, "executing")
    <3>1. request' = [request EXCEPT ![p].at = "executing"]
        BY <2>1 DEF To
    <3>2. \A q \in Request : q # p /\ request[q].at \in {"executing", "ended"}
                               => KeyOf(q) # k
        BY <2>1 DEF ExecutorsOwnRows
    <3> QED
        BY <1>0, <2>1, <3>1, <3>2 DEF ExecutorsOwnRows, RequestType, KeyOf
  <2>2. CASE To(p, "return") /\ runs' \in {runs, runs \cup {k}}
    <3>1. runs' \subseteq Key /\ runs \subseteq runs'
        BY <1>0, <2>2
    <3> QED
        BY <2>2, <3>1, OtherStep
  <2> QED
      BY <1>5, <2>1, <2>2 DEF Create
<1>6. CASE Execute(p)
  <2>1. request' = [request EXCEPT ![p].at = "ended"] /\ runs' = runs
        /\ request[p].at = "executing"
      BY <1>6 DEF Execute, To, At
  <2> QED
      BY <1>0, <2>1 DEF ExecutorsOwnRows, RequestType, KeyOf
<1>7. CASE GiveUp(p)
    BY <1>0, <1>7, OtherStep DEF GiveUp, Release
<1>8. CASE Deny(p)
    BY <1>0, <1>8, OtherStep DEF Deny, Release
<1>9. CASE Catch(p)
    BY <1>0, <1>9, OtherStep DEF Catch, Release
<1>10. CASE Return(p)
    BY <1>0, <1>10, OtherStep DEF Return
<1>11. CASE Die(p)
    BY <1>0, <1>11, OtherStep DEF Die
<1> QED
    BY <1>1, <1>2, <1>3, <1>4, <1>5, <1>6, <1>7, <1>8, <1>9, <1>10, <1>11

LEMMA NextExecutors == ExecutorsOwnRows /\ [Next]_vars => ExecutorsOwnRows'
<1> SUFFICES ASSUME ExecutorsOwnRows, [Next]_vars
             PROVE  ExecutorsOwnRows'
    OBVIOUS
<1>1. ASSUME NEW p \in Request,
             \/ Post(p) \/ Claim(p) \/ Provide(p) \/ Reserve(p) \/ Create(p)
             \/ Execute(p) \/ GiveUp(p) \/ Deny(p) \/ Catch(p) \/ Return(p) \/ Die(p)
      PROVE  ExecutorsOwnRows'
    BY <1>1, StepExecutors
<1>2. ASSUME request' = request, runs' = runs
      PROVE  ExecutorsOwnRows'
    BY <1>2 DEF ExecutorsOwnRows, RequestType, KeyOf
<1>3. CASE Tick
    BY <1>2, <1>3 DEF Tick
<1>4. CASE UNCHANGED vars
    BY <1>2, <1>4 DEF vars
<1> QED
    BY <1>1, <1>3, <1>4 DEF Next

LEMMA ExecutorsOne == ExecutorsOwnRows => OneExecutor
<1> SUFFICES ASSUME ExecutorsOwnRows, NEW k \in Key
             PROVE  Cardinality(Executors(k)) <= 1
    BY DEF OneExecutor, Executors
<1>1. \A p, q \in Executors(k) : p = q
    BY DEF ExecutorsOwnRows, Executors, Of
<1> QED
    BY <1>1, AtMostOne

\* Whatever the requests, keys, expiring claims, failing calls and dying
\* processes, no run is ever executed by two requests: the primary key of the
\* runs holds even where the claims do not.
THEOREM OneExecutorTheorem == Spec => []OneExecutor
<1>1. ExecutorsOwnRows /\ [Next]_vars => ExecutorsOwnRows'
    BY NextExecutors
<1> QED
    BY <1>1, InitExecutors, ExecutorsOne, PTL DEF Spec
-----------------------------------------------------------------------------
(* Types and the quota.                                                    *)

\* TypeOK with what makes it inductive: whoever may give a reservation back
\* or settle it has drawn on the quota.
TypeInv ==
    /\ TypeOK
    /\ \A p \in Request :
           request[p].at \in {"create", "return", "executing"} => reserved[p] # "none"

Holders(map) == {q \in Request : map[q] # "none"}

\* Of the reservations there are finitely many.
LEMMA HoldersFinite ==
    ASSUME NEW map
    PROVE  IsFiniteSet(Holders(map)) /\ Cardinality(Holders(map)) \in Nat
<1>1. Holders(map) \subseteq Request /\ IsFiniteSet(Request)
    BY SubmissionAssumption DEF Holders, SubmissionAssumption
<1> QED
    BY <1>1, FS_Subset, FS_CardinalityType

\* A reservation that changes hands keeps the quota, and a new one does if
\* there was room for it.
LEMMA HeldWithin ==
    ASSUME TypeOK, NEW p \in Request, NEW state \in {"pending", "settled", "released"},
           reserved' = [reserved EXCEPT ![p] = state],
           reserved[p] # "none" \/ Held < Quota
    PROVE  Held' <= Quota
<1>1. Held = Cardinality(Holders(reserved)) /\ Held' = Cardinality(Holders(reserved'))
    BY DEF Held, Holders
<1>2. Holders(reserved') = Holders(reserved) \cup {p}
    BY DEF Holders, TypeOK
<1>3. CASE reserved[p] # "none"
  <2>1. p \in Holders(reserved)
    BY <1>3 DEF Holders
  <2> QED
    BY <1>1, <1>2, <2>1 DEF TypeOK
<1>4. CASE reserved[p] = "none"
  <2>1. p \notin Holders(reserved)
    BY <1>4 DEF Holders
  <2>2. Cardinality(Holders(reserved) \cup {p}) = Cardinality(Holders(reserved)) + 1
    BY <2>1, HoldersFinite, FS_AddElement
  <2>3. Cardinality(Holders(reserved)) + 1 <= Quota
    BY <1>1, <1>4, HoldersFinite, SubmissionAssumption DEF SubmissionAssumption
  <2> QED
    BY <1>1, <1>2, <2>2, <2>3
<1> QED
    BY <1>3, <1>4

\* What a step of one request may do.
LEMMA StepType ==
    ASSUME TypeInv, NEW p \in Request, NEW point \in Point, To(p, point),
           claims' \in [Key -> 0..(MaxTime + ClaimTicks)], runs' \subseteq Key,
           faults' \in 0..MaxFaults,
           \/ reserved' = reserved
           \/ \E state \in {"pending", "settled", "released"} :
                  /\ reserved' = [reserved EXCEPT ![p] = state]
                  /\ reserved[p] # "none" \/ Held < Quota,
           point \in {"create", "return", "executing"} => reserved'[p] # "none"
    PROVE  TypeInv'
<1>1. now' \in 0..MaxTime
    BY DEF TypeInv, TypeOK, To
<1>2. request' \in [Request -> [at : Point, key : Key]]
    BY DEF TypeInv, TypeOK, To
<1>3. reserved' \in [Request -> {"none", "pending", "settled", "released"}]
    BY DEF TypeInv, TypeOK
<1>4. Held' <= Quota
  <2>1. CASE reserved' = reserved
    BY <2>1 DEF TypeInv, TypeOK, Held
  <2> QED
    BY <2>1, HeldWithin DEF TypeInv
<1>5. \A q \in Request :
          request'[q].at \in {"create", "return", "executing"} => reserved'[q] # "none"
  <2>1. request'[p].at = point
    BY DEF TypeInv, TypeOK, To
  <2>2. \A q \in Request : q # p => request'[q] = request[q] /\ reserved'[q] = reserved[q]
    BY DEF TypeInv, TypeOK, To
  <2> QED
    BY <2>1, <2>2 DEF TypeInv
<1> QED
    BY <1>1, <1>2, <1>3, <1>4, <1>5 DEF TypeInv, TypeOK

LEMMA InitType == Init => TypeInv
<1> SUFFICES ASSUME Init PROVE TypeInv
    OBVIOUS
<1>1. Held = 0
  <2>1. {p \in Request : reserved[p] # "none"} = {}
    BY DEF Init
  <2> QED
    BY <2>1, FS_EmptySet DEF Held
<1> QED
    BY <1>1, SubmissionAssumption
       DEF Init, TypeInv, TypeOK, SubmissionAssumption, Point, Waiting

\* What claiming, releasing and failing leave of the claims and the faults.
LEMMA ClaimsType ==
    ASSUME TypeOK, NEW k \in Key
    PROVE  /\ Cleared \in [Key -> 0..(MaxTime + ClaimTicks)]
           /\ Taken(k) \in [Key -> 0..(MaxTime + ClaimTicks)]
           /\ [claims EXCEPT ![k] = 0] \in [Key -> 0..(MaxTime + ClaimTicks)]
           /\ Fails => faults' \in 0..MaxFaults
           /\ Succeeds => faults' \in 0..MaxFaults
<1>1. now + ClaimTicks \in 0..(MaxTime + ClaimTicks) /\ 0 \in 0..(MaxTime + ClaimTicks)
    BY SubmissionAssumption DEF SubmissionAssumption, TypeOK
<1> QED
    BY <1>1, SubmissionAssumption
       DEF SubmissionAssumption, TypeOK, Cleared, Taken, Fails, Succeeds

\* Every step of a request keeps the types.
LEMMA RequestsType ==
    ASSUME TypeInv, NEW p \in Request,
           \/ Post(p) \/ Claim(p) \/ Provide(p) \/ Reserve(p) \/ Create(p) \/ Execute(p)
           \/ GiveUp(p) \/ Deny(p) \/ Catch(p) \/ Return(p) \/ Die(p)
    PROVE  TypeInv'
<1> USE DEF Point, Waiting
<1>0. /\ KeyOf(p) \in Key /\ TypeOK /\ runs \subseteq Key
      /\ claims \in [Key -> 0..(MaxTime + ClaimTicks)]
      /\ At(p, "create") \/ At(p, "return") \/ At(p, "executing") => reserved[p] # "none"
    BY DEF TypeInv, TypeOK, KeyOf, At
<1>1. CASE Post(p)
    BY <1>0, <1>1, StepType, ClaimsType DEF Post
<1>2. CASE Claim(p)
  <2>1. claims' \in {claims, Cleared, Taken(KeyOf(p))}
    BY <1>2 DEF Claim
  <2>2. claims' \in [Key -> 0..(MaxTime + ClaimTicks)] /\ faults' \in 0..MaxFaults
    BY <1>0, <1>2, <2>1, ClaimsType DEF Claim
  <2> QED
    BY <1>0, <1>2, <2>2, StepType DEF Claim
<1>3. CASE Provide(p)
    BY <1>0, <1>3, StepType, ClaimsType DEF Provide
<1>4. CASE Reserve(p)
  <2>1. faults' \in 0..MaxFaults
    BY <1>0, <1>4, ClaimsType DEF Reserve
  <2>2. CASE /\ Held < Quota /\ reserved' = [reserved EXCEPT ![p] = "pending"]
             /\ To(p, "create") \/ To(p, "return")
    <3>1. reserved'[p] # "none"
      BY <2>2 DEF TypeInv, TypeOK
    <3> QED
      BY <1>0, <1>4, <2>1, <2>2, <3>1, StepType DEF Reserve
  <2>3. CASE UNCHANGED reserved /\ To(p, "deny")
    BY <1>0, <1>4, <2>1, <2>3, StepType DEF Reserve
  <2>4. CASE /\ To(p, "catch")
             /\ \/ reserved' = reserved
                \/ Held < Quota /\ reserved' = [reserved EXCEPT ![p] = "pending"]
    BY <1>0, <1>4, <2>1, <2>4, StepType DEF Reserve
  <2> QED
    BY <1>4, <2>2, <2>3, <2>4 DEF Reserve
<1>5. CASE Create(p)
  <2>1. runs' \subseteq Key /\ faults' \in 0..MaxFaults /\ reserved' = reserved
        /\ claims' = claims /\ reserved[p] # "none"
    BY <1>0, <1>5, ClaimsType DEF Create
  <2> QED
    BY <1>0, <1>5, <2>1, StepType DEF Create
<1>6. CASE Execute(p)
    BY <1>0, <1>6, StepType, ClaimsType DEF Execute
<1>7. ASSUME NEW point, NEW failed \in {"catch", "refused"}, Release(p, point, failed)
      PROVE  TypeInv'
  <2>1. claims' \in [Key -> 0..(MaxTime + ClaimTicks)] /\ faults' \in 0..MaxFaults
    BY <1>0, <1>7, ClaimsType DEF Release
  <2> QED
    BY <1>0, <1>7, <2>1, StepType DEF Release
<1>8. CASE GiveUp(p) \/ Deny(p) \/ Catch(p)
    BY <1>7, <1>8 DEF GiveUp, Deny, Catch
<1>9. CASE Return(p)
  <2>1. faults' \in 0..MaxFaults /\ reserved[p] # "none"
    BY <1>0, <1>9, ClaimsType DEF Return
  <2> QED
    BY <1>0, <1>9, <2>1, StepType DEF Return
<1>10. CASE Die(p)
    BY <1>0, <1>10, StepType, ClaimsType DEF Die
<1> QED
    BY <1>1, <1>2, <1>3, <1>4, <1>5, <1>6, <1>8, <1>9, <1>10

LEMMA NextType == TypeInv /\ [Next]_vars => TypeInv'
<1> SUFFICES ASSUME TypeInv, [Next]_vars
             PROVE  TypeInv'
    OBVIOUS
<1>1. ASSUME NEW p \in Request,
             \/ Post(p) \/ Claim(p) \/ Provide(p) \/ Reserve(p) \/ Create(p)
             \/ Execute(p) \/ GiveUp(p) \/ Deny(p) \/ Catch(p) \/ Return(p) \/ Die(p)
      PROVE  TypeInv'
    BY <1>1, RequestsType
<1>2. CASE Tick
    BY <1>2, SubmissionAssumption
       DEF Tick, TypeInv, TypeOK, Held, SubmissionAssumption
<1>3. CASE UNCHANGED vars
    BY <1>3 DEF vars, TypeInv, TypeOK, Held
<1> QED
    BY <1>1, <1>2, <1>3 DEF Next

\* The types hold, and with them the quota: however many requests arrive, no
\* more of them than the quota allows ever hold or held a reservation.
THEOREM TypeTheorem == Spec => []TypeOK
<1>1. TypeInv => TypeOK
    BY DEF TypeInv
<1> QED
    BY <1>1, InitType, NextType, PTL DEF Spec

-----------------------------------------------------------------------------
(* Draws on the quota.                                                     *)

\* Past the claim, and on the way to a run.
Past(p) ==
    request[p].at \in {"provider", "giveUp", "reserve", "deny", "create", "return", "executing",
                       "ended", "failed"}

\* Nobody draws on the quota before the reservation, or after being denied.
Undrawn ==
    \A p \in Request :
        request[p].at \in {"idle", "claim", "provider", "giveUp", "reserve", "deny"} =>
            reserved[p] = "none"

\* A claim lasts its time.
ClaimsLast == \A k \in Key : claims[k] = 0 \/ claims[k] >= ClaimTicks

\* While no call has failed, a refusal is the only end without a reservation.
Unfailed ==
    Faultless =>
        \A p \in Request : /\ request[p].at \notin {"catch", "dead"}
                           /\ request[p].at = "refused" => reserved[p] = "none"

\* Nor is a key claimed without a request past its claim.
Backed == Faultless => \A k \in Claimed : \E p \in Request : KeyOf(p) = k /\ Past(p)

\* And while claims last, the request past it is the only one of its key.
Sole ==
    Faultless /\ now < ClaimTicks =>
        /\ \A p \in Request : Past(p) => claims[KeyOf(p)] > 0
        /\ \A p, q \in Request : Past(p) /\ Past(q) /\ KeyOf(p) = KeyOf(q) => p = q

\* Reservations nobody works on are paid for by faults.
Lost ==
    {p \in Request : reserved[p] = "pending" /\ request[p].at \in {"refused", "failed", "dead", "catch"}}

LostInv == Cardinality(Lost) <= MaxFaults - faults

DrawInv == TypeInv /\ Undrawn /\ ClaimsLast /\ Unfailed /\ Backed /\ Sole /\ LostInv

Step(p) ==
    \/ Post(p) \/ Claim(p) \/ Provide(p) \/ Reserve(p) \/ Create(p) \/ Execute(p)
    \/ GiveUp(p) \/ Deny(p) \/ Catch(p) \/ Return(p) \/ Die(p)

\* A step of one request moves that request alone.
LEMMA Moves ==
    ASSUME TypeInv, NEW p \in Request, NEW point, To(p, point)
    PROVE  /\ request'[p].at = point /\ request'[p].key = request[p].key
           /\ \A q \in Request : q # p => request'[q] = request[q]
           /\ now' = now
BY DEF TypeInv, TypeOK, To

\* While no call fails, none has.
LEMMA FaultsTell ==
    ASSUME TypeInv
    PROVE  /\ Succeeds => (Faultless' <=> Faultless) /\ faults' = faults
           /\ Fails => ~ Faultless' /\ faults' = faults - 1
           /\ faults \in Nat /\ MaxFaults \in Nat /\ faults <= MaxFaults
BY SubmissionAssumption DEF TypeInv, TypeOK, Succeeds, Fails, Faultless

LEMMA UndrawnKept ==
    ASSUME TypeInv, Undrawn, NEW p \in Request, Step(p)
    PROVE  Undrawn'
<1> DEFINE early == {"idle", "claim", "provider", "giveUp", "reserve", "deny"}
<1>1. /\ \A q \in Request : q # p => request'[q] = request[q] /\ reserved'[q] = reserved[q]
      /\ request'[p].at \in early => request[p].at \in early /\ reserved'[p] = reserved[p]
  <2> USE Moves DEF At
  <2>1. CASE Post(p) \/ Claim(p) \/ Provide(p) \/ Create(p) \/ Die(p)
      BY <2>1 DEF Post, Claim, Provide, Create, Die
  <2>2. CASE Reserve(p) \/ Execute(p) \/ Return(p)
      BY <2>2 DEF Reserve, Execute, Return, TypeInv, TypeOK
  <2>3. CASE GiveUp(p) \/ Deny(p) \/ Catch(p)
      BY <2>3 DEF GiveUp, Deny, Catch, Release
  <2> QED
      BY <2>1, <2>2, <2>3 DEF Step
<1> QED
    BY <1>1 DEF Undrawn

LEMMA ClaimsKept ==
    ASSUME TypeInv, ClaimsLast, NEW p \in Request, Step(p)
    PROVE  ClaimsLast'
<1>1. now \in Nat /\ ClaimTicks \in Nat /\ claims \in [Key -> 0..(MaxTime + ClaimTicks)] /\ MaxTime \in Nat
    BY SubmissionAssumption DEF TypeInv, TypeOK
<1>2. \/ claims' = claims \/ claims' = Cleared \/ claims' = Taken(KeyOf(p))
      \/ claims' = [claims EXCEPT ![KeyOf(p)] = 0]
    BY DEF Step, Post, Claim, Provide, Reserve, Create, Execute, GiveUp, Deny, Catch, Release,
           Return, Die
<1>3. \A k \in Key : claims'[k] \in {claims[k], 0, now + ClaimTicks}
    BY <1>1, <1>2 DEF Cleared, Taken
<1> QED
    BY <1>1, <1>3 DEF ClaimsLast

LEMMA UnfailedKept ==
    ASSUME TypeInv, Undrawn, Unfailed, NEW p \in Request, Step(p)
    PROVE  Unfailed'
<1> SUFFICES ASSUME Faultless'
             PROVE  \A q \in Request : /\ request'[q].at \notin {"catch", "dead"}
                                       /\ request'[q].at = "refused" => reserved'[q] = "none"
    BY DEF Unfailed
<1>1. ~ Fails
    BY FaultsTell
<1>2. Faultless
    BY <1>1, FaultsTell
    DEF Step, Post, Claim, Provide, Reserve, Create, Execute, GiveUp, Deny, Catch, Release,
        Return, Die
<1>3. /\ \A q \in Request : q # p => request'[q] = request[q] /\ reserved'[q] = reserved[q]
      /\ request'[p].at \notin {"catch", "dead"}
      /\ request'[p].at = "refused" => reserved'[p] = reserved[p] /\ request[p].at \in {"claim", "giveUp", "deny"}
  <2> USE <1>1, Moves DEF At
  <2>1. CASE Post(p) \/ Claim(p) \/ Provide(p) \/ Create(p) \/ Die(p)
      BY <2>1 DEF Post, Claim, Provide, Create, Die
  <2>2. CASE Reserve(p) \/ Execute(p) \/ Return(p)
      BY <2>2 DEF Reserve, Execute, Return, TypeInv, TypeOK
  <2>3. CASE GiveUp(p) \/ Deny(p)
      BY <2>3 DEF GiveUp, Deny, Release
  <2>4. CASE Catch(p)
      BY <1>2, <2>4 DEF Catch, Release, Unfailed
  <2> QED
      BY <2>1, <2>2, <2>3, <2>4 DEF Step
<1> QED
    BY <1>2, <1>3 DEF Unfailed, Undrawn

\* A step without a failure releases the claim of the request that leaves.
LEMMA PastSteps ==
    ASSUME TypeInv, Unfailed, NEW p \in Request, Step(p), Faultless'
    PROVE  /\ Faultless
           /\ \A q \in Request : KeyOf(q)' = KeyOf(q) /\ (q # p => (Past(q)' <=> Past(q)))
           /\ \/ claims' = claims /\ (Past(p)' <=> Past(p))
              \/ claims' = Cleared /\ ~ Past(p) /\ ~ Past(p)'
              \/ claims' = Taken(KeyOf(p)) /\ Cleared[KeyOf(p)] = 0 /\ ~ Past(p) /\ Past(p)'
              \/ claims' = [claims EXCEPT ![KeyOf(p)] = 0] /\ Past(p) /\ ~ Past(p)'
<1>1. ~ Fails
    BY FaultsTell
<1>2. Faultless
    BY <1>1, FaultsTell
    DEF Step, Post, Claim, Provide, Reserve, Create, Execute, GiveUp, Deny, Catch, Release,
        Return, Die
<1>3. \A point : To(p, point) =>
          /\ \A q \in Request : KeyOf(q)' = KeyOf(q) /\ (q # p => (Past(q)' <=> Past(q)))
          /\ request'[p].at = point
  <2> SUFFICES ASSUME NEW point, To(p, point)
               PROVE  /\ \A q \in Request : KeyOf(q)' = KeyOf(q) /\ (q # p => (Past(q)' <=> Past(q)))
                      /\ request'[p].at = point
      OBVIOUS
  <2> QED
      BY Moves DEF KeyOf, Past
<1> USE <1>1, <1>2, <1>3 DEF At, Past
<1>4. CASE Post(p) \/ Provide(p) \/ Create(p) \/ Die(p) \/ Reserve(p) \/ Execute(p) \/ Return(p)
    BY <1>4 DEF Post, Provide, Create, Die, Reserve, Execute, Return
<1>5. CASE Claim(p)
    BY <1>5 DEF Claim
<1>6. CASE GiveUp(p) \/ Deny(p)
    BY <1>6 DEF GiveUp, Deny, Release
<1>7. ~ Catch(p)
    BY DEF Catch, Release, Unfailed
<1> QED
    BY <1>4, <1>5, <1>6, <1>7 DEF Step

LEMMA BackedKept ==
    ASSUME TypeInv, Unfailed, Backed, NEW p \in Request, Step(p)
    PROVE  Backed'
<1> SUFFICES ASSUME Faultless', NEW k \in Key, claims'[k] > 0
             PROVE  \E q \in Request : KeyOf(q)' = k /\ Past(q)'
    BY DEF Backed, Claimed
<1>1. /\ Faultless /\ KeyOf(p) \in Key /\ claims \in [Key -> 0..(MaxTime + ClaimTicks)]
      /\ \A q \in Request : KeyOf(q)' = KeyOf(q) /\ (q # p => (Past(q)' <=> Past(q)))
    BY PastSteps DEF TypeInv, TypeOK, KeyOf
<1>2. CASE k = KeyOf(p) /\ Past(p)'
    BY <1>1, <1>2
<1>3. CASE ~ (k = KeyOf(p) /\ Past(p)')
  <2>1. claims[k] > 0 /\ (k = KeyOf(p) => ~ Past(p))
    <3>1. \A j \in Key : Cleared[j] = 0 \/ Cleared[j] = claims[j]
        BY DEF Cleared
    <3>2. claims' = Taken(KeyOf(p)) => k = KeyOf(p) \/ claims'[k] = Cleared[k]
        BY DEF Taken, Cleared
    <3> QED
        BY <1>1, <1>3, <3>1, <3>2, PastSteps
  <2>2. PICK q \in Request : KeyOf(q) = k /\ Past(q)
      BY <1>1, <2>1 DEF Backed, Claimed
  <2> QED
      BY <1>1, <2>1, <2>2
<1> QED
    BY <1>2, <1>3

LEMMA SoleKept ==
    ASSUME TypeInv, Unfailed, ClaimsLast, Sole, NEW p \in Request, Step(p)
    PROVE  Sole'
<1> SUFFICES ASSUME Faultless', now' < ClaimTicks
             PROVE  /\ \A q \in Request : Past(q)' => claims'[KeyOf(q)'] > 0
                    /\ \A q, r \in Request : Past(q)' /\ Past(r)' /\ KeyOf(q)' = KeyOf(r)' => q = r
    BY DEF Sole, KeyOf
<1>1. /\ Faultless /\ KeyOf(p) \in Key /\ claims \in [Key -> 0..(MaxTime + ClaimTicks)]
      /\ \A q \in Request : KeyOf(q)' = KeyOf(q) /\ (q # p => (Past(q)' <=> Past(q)))
      /\ \A q \in Request : KeyOf(q) \in Key
      /\ now' = now /\ now \in Nat /\ ClaimTicks \in Nat
  <2>1. /\ Faultless
        /\ \A q \in Request : KeyOf(q)' = KeyOf(q) /\ (q # p => (Past(q)' <=> Past(q)))
    BY PastSteps
  <2>2. claims \in [Key -> 0..(MaxTime + ClaimTicks)] /\ now \in Nat /\ ClaimTicks \in Nat
    BY SubmissionAssumption DEF TypeInv, TypeOK
  <2>3. \A q \in Request : KeyOf(q) \in Key
    BY DEF TypeInv, TypeOK, KeyOf
  <2>4. now' = now
    BY DEF Step, Post, Claim, Provide, Reserve, Create, Execute, GiveUp, Deny, Catch, Release,
           Return, Die, To
  <2> QED
    BY <2>1, <2>2, <2>3, <2>4
<1>2. Cleared = claims
    BY <1>1 DEF Cleared, ClaimsLast
<1>3. /\ \A q \in Request : Past(q) => claims[KeyOf(q)] > 0
      /\ \A q, r \in Request : Past(q) /\ Past(r) /\ KeyOf(q) = KeyOf(r) => q = r
    BY <1>1 DEF Sole
<1>4. CASE claims' = claims /\ (Past(p)' => Past(p))
    BY <1>1, <1>3, <1>4
<1>5. CASE claims' = Taken(KeyOf(p)) /\ Cleared[KeyOf(p)] = 0
  <2>1. \A q \in Request : Past(q) => KeyOf(q) # KeyOf(p)
      BY <1>2, <1>3, <1>5
  <2>2. \A k \in Key : claims[k] > 0 \/ k = KeyOf(p) => claims'[k] > 0
      BY <1>1, <1>2, <1>5 DEF Taken
  <2> QED
      BY <1>1, <1>3, <2>1, <2>2
<1>6. CASE claims' = [claims EXCEPT ![KeyOf(p)] = 0] /\ Past(p) /\ ~ Past(p)'
  <2>1. \A q \in Request : Past(q)' => Past(q) /\ KeyOf(q) # KeyOf(p)
      BY <1>1, <1>3, <1>6
  <2> QED
      BY <1>1, <1>3, <1>6, <2>1
<1> QED
    BY <1>2, <1>4, <1>5, <1>6, PastSteps

\* The reservations nobody works on are finitely many.
LEMMA LostFinite == IsFiniteSet(Lost) /\ Cardinality(Lost) \in Nat
<1>1. Lost \subseteq Request /\ IsFiniteSet(Request)
    BY SubmissionAssumption DEF Lost
<1> QED
    BY <1>1, FS_Subset, FS_CardinalityType

\* One element more makes a set larger by one at most.
LEMMA OneMore ==
    ASSUME NEW S, IsFiniteSet(S), Cardinality(S) \in Nat, NEW e
    PROVE  Cardinality(S \cup {e}) <= Cardinality(S) + 1 /\ IsFiniteSet(S \cup {e})
<1>1. CASE e \in S
  <2>1. S \cup {e} = S
      BY <1>1
  <2>2. Cardinality(S \cup {e}) = Cardinality(S) /\ IsFiniteSet(S \cup {e})
      BY <2>1, Zenon
  <2> QED
      BY <2>2
<1>2. CASE e \notin S
  <2>1. Cardinality(S \cup {e}) = Cardinality(S) + 1 /\ IsFiniteSet(S \cup {e})
      BY <1>2, FS_AddElement
  <2> QED
      BY <2>1
<1> QED
    BY <1>1, <1>2

\* One step loses one reservation at most, and none without a failing call.
LEMMA LostKept ==
    ASSUME TypeInv, Undrawn, LostInv, NEW p \in Request, Step(p)
    PROVE  LostInv'
<1> DEFINE astray == {"refused", "failed", "dead", "catch"}
<1>1. /\ faults \in Nat /\ MaxFaults \in Nat
      /\ Succeeds => faults' = faults
      /\ Fails => faults' = faults - 1
    BY FaultsTell
<1>2. /\ \A q \in Request : q # p => request'[q] = request[q] /\ reserved'[q] = reserved[q]
      /\ Fails \/ /\ Succeeds
                  /\ p \in Lost' => p \in Lost
  <2> USE Moves DEF At, Lost
  <2>1. CASE Post(p) \/ Claim(p) \/ Provide(p) \/ Create(p) \/ Die(p)
      BY <2>1 DEF Post, Claim, Provide, Create, Die, Undrawn
  <2>2. CASE Reserve(p) \/ Execute(p) \/ Return(p)
      BY <2>2 DEF Reserve, Execute, Return, TypeInv, TypeOK
  <2>3. CASE GiveUp(p) \/ Deny(p) \/ Catch(p)
      BY <2>3 DEF GiveUp, Deny, Catch, Release, Undrawn
  <2> QED
      BY <2>1, <2>2, <2>3 DEF Step
<1>3. Lost' \subseteq Lost \cup {p}
    BY <1>2 DEF Lost
<1>4. Cardinality(Lost \cup {p}) <= Cardinality(Lost) + 1 /\ IsFiniteSet(Lost \cup {p})
    BY LostFinite, OneMore
<1>5. Cardinality(Lost') <= Cardinality(Lost) + 1 /\ Cardinality(Lost') \in Nat
    BY <1>3, <1>4, LostFinite, FS_Subset, FS_CardinalityType
<1>6. CASE Fails
    BY <1>1, <1>5, <1>6, LostFinite DEF LostInv
<1>7. CASE Succeeds /\ (p \in Lost' => p \in Lost)
  <2>1. Lost' \subseteq Lost
      BY <1>3, <1>7
  <2>2. Cardinality(Lost') <= Cardinality(Lost)
      BY <2>1, LostFinite, FS_Subset
  <2> QED
      BY <1>1, <1>5, <1>7, <2>2, LostFinite DEF LostInv
<1> QED
    BY <1>2, <1>6, <1>7

LEMMA DrawsKept == DrawInv /\ [Next]_vars => DrawInv'
<1> SUFFICES ASSUME DrawInv, [Next]_vars PROVE DrawInv'
    OBVIOUS
<1>1. TypeInv'
    BY NextType DEF DrawInv
<1>2. ASSUME NEW p \in Request, Step(p) PROVE DrawInv'
    BY <1>1, <1>2, UndrawnKept, ClaimsKept, UnfailedKept, BackedKept, SoleKept, LostKept DEF DrawInv
<1>3. CASE Tick \/ UNCHANGED vars
  <2>1. /\ UNCHANGED <<claims, runs, request, reserved, faults>>
        /\ now' < ClaimTicks => now < ClaimTicks
      BY <1>3, SubmissionAssumption DEF Tick, vars, DrawInv, TypeInv, TypeOK
  <2>2. Undrawn' /\ ClaimsLast' /\ Unfailed' /\ Backed' /\ LostInv'
      BY <2>1 DEF DrawInv, Undrawn, ClaimsLast, Unfailed, Backed, LostInv, Lost, Faultless, Past, KeyOf, Claimed
  <2>3. Sole'
      BY <2>1 DEF DrawInv, Sole, Faultless, Past, KeyOf
  <2> QED
      BY <1>1, <2>2, <2>3 DEF DrawInv
<1> QED
    BY <1>2, <1>3 DEF Next, Step

LEMMA InitDraws == Init => DrawInv
<1> SUFFICES ASSUME Init PROVE DrawInv
    OBVIOUS
<1>1. TypeInv
    BY InitType
<1>2. \A p \in Request : request[p].at = "idle" /\ reserved[p] = "none"
    BY DEF Init
<1>3. Undrawn /\ ClaimsLast /\ Unfailed /\ Sole /\ Backed
    BY <1>2 DEF Init, Undrawn, ClaimsLast, Unfailed, Sole, Past, Backed, Claimed
<1>4. Lost = {}
    BY <1>2 DEF Lost
<1>5. LostInv
    BY <1>4, FS_EmptySet, SubmissionAssumption DEF LostInv, Init
<1> QED
    BY <1>1, <1>3, <1>5 DEF DrawInv

LEMMA DrawsTell == DrawInv => DrawsAreUsed
<1> SUFFICES ASSUME DrawInv PROVE DrawsAreUsed
    OBVIOUS
<1>1. ASSUME Faultless, now < ClaimTicks, NEW k \in Key
      PROVE  Cardinality({p \in Of(k) : reserved[p] # "none"}) <= 1
  <2>1. \A p \in Request : reserved[p] # "none" => Past(p)
    <3>1. \A p \in Request : request[p].at \in Point
        BY DEF DrawInv, TypeInv, TypeOK
    <3> QED
        BY <1>1, <3>1 DEF DrawInv, Undrawn, Unfailed, Past, Point, Waiting
  <2>2. \A p, q \in {r \in Of(k) : reserved[r] # "none"} : p = q
      BY <1>1, <2>1 DEF Of, DrawInv, Sole
  <2> QED
      BY <2>2, AtMostOne
<1>2. ASSUME Faultless, NEW k \in Claimed
      PROVE  \E p \in Of(k) : request[p].at \notin {"idle", "claim", "refused"}
    BY <1>2 DEF DrawInv, Backed, Of, Past
<1>3. Cardinality({p \in Request : /\ reserved[p] = "pending"
                                   /\ request[p].at \in {"refused", "failed", "dead", "catch"}})
          <= MaxFaults - faults
    BY DEF DrawInv, LostInv, Lost
<1> QED
    BY <1>1, <1>2, <1>3 DEF DrawsAreUsed

\* However requests, ticks, failures and deaths fall: while no call fails and
\* claims last, a key draws once; while none fails, no claim outlives the last
\* request behind it; and each reservation astray is one fault's.
THEOREM DrawsTheorem == Spec => []DrawsAreUsed
BY InitDraws, DrawsKept, DrawsTell, PTL DEF Spec

=============================================================================
