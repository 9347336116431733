------------------------------ MODULE Submission ------------------------------
(***************************************************************************)
(* POST /api/runs up to the start of the run: the idempotency claim, the   *)
(* provider, the quota and the row of the run, in that order, each an      *)
(* awaited call that may fail with or without effect (handleRunsPost of    *)
(* src/src/server/http/runs-handler.ts and the beginning of executeRun).   *)
(* A request that its transport repeats arrives as another request with    *)
(* the same key.                                                           *)
(***************************************************************************)
EXTENDS Naturals, FiniteSets

CONSTANTS
    Request,        \* invocations of the handler
    Key,            \* idempotency keys, one run id each
    Quota,          \* runs the browser may still submit today
    ClaimTicks,     \* IDEMPOTENCY_TTL_MS
    MaxTime,        \* bound on the clock
    MaxFaults       \* bound on calls that fail and processes that die

ASSUME SubmissionAssumption ==
    /\ IsFiniteSet(Request) /\ IsFiniteSet(Key)
    /\ Quota \in Nat /\ ClaimTicks \in Nat \ {0}
    /\ MaxTime \in Nat /\ MaxFaults \in Nat

VARIABLES
    now,
    claims,         \* run_submission_claims: expiry of each claimed key, 0 if none
    runs,           \* keys with a row in table runs
    request,        \* each request: its key, the call it waits for
    reserved,       \* the reservation of each request
    faults

vars == <<now, claims, runs, request, reserved, faults>>

Waiting == {"claim", "provider", "giveUp", "reserve", "deny", "catch", "create", "return"}
Point == {"idle", "executing", "ended", "refused", "failed", "dead"} \cup Waiting

Init ==
    /\ now = 0
    /\ claims = [k \in Key |-> 0]
    /\ runs = {}
    /\ request \in [Request -> [at : {"idle"}, key : Key]]
    /\ reserved = [p \in Request |-> "none"]
    /\ faults = MaxFaults

At(p, point) == request[p].at = point
KeyOf(p) == request[p].key
To(p, point) == request' = [request EXCEPT ![p].at = point] /\ UNCHANGED now

Succeeds == UNCHANGED faults
Fails == faults > 0 /\ faults' = faults - 1

Claimed == {k \in Key : claims[k] > 0}
Held == Cardinality({p \in Request : reserved[p] # "none"})

-----------------------------------------------------------------------------

\* The submission limit, the headers and the multipart body are in order.
Post(p) ==
    At(p, "idle") /\ To(p, "claim") /\ Succeeds /\ UNCHANGED <<claims, runs, reserved>>

\* claimRunRequest.  Whether the expired claims go before or after the insert
\* is not defined: the two are parts of one statement, so an expired claim of
\* the same key may refuse its successor.
Cleared == [k \in Key |-> IF claims[k] <= now THEN 0 ELSE claims[k]]
Taken(k) == [Cleared EXCEPT ![k] = now + ClaimTicks]

\* A claim that fails is released like one that succeeded: claimedRunId is set.
Claim(p) ==
    LET k == KeyOf(p)
    IN  /\ At(p, "claim") /\ UNCHANGED <<runs, reserved>>
        /\ \/ Succeeds /\ Cleared[k] = 0 /\ claims' = Taken(k) /\ To(p, "provider")
           \/ Succeeds /\ k \in Claimed /\ claims' = Cleared /\ To(p, "refused")
           \/ /\ Fails /\ To(p, "catch")
              /\ claims' \in {claims, Cleared} \cup (IF Cleared[k] = 0 THEN {Taken(k)} ELSE {})

\* createProvider, which may fail of itself.
Provide(p) ==
    /\ At(p, "provider") /\ (To(p, "reserve") \/ To(p, "giveUp"))
    /\ Succeeds /\ UNCHANGED <<claims, runs, reserved>>

\* releaseRunRequest, and where the request goes when it fails.
Release(p, point, failed) ==
    LET released == [claims EXCEPT ![KeyOf(p)] = 0]
    IN  /\ At(p, point) /\ UNCHANGED <<runs, reserved>>
        /\ \/ Succeeds /\ claims' = released /\ To(p, "refused")
           \/ Fails /\ claims' \in {claims, released} /\ To(p, failed)

GiveUp(p) == Release(p, "giveUp", "catch")

Deny(p) == Release(p, "deny", "catch")

\* The outer catch: a release that fails is ignored.
Catch(p) == Release(p, "catch", "refused")

\* Fault: the quota is counted after the reservation is made, not before.
ReserveUncounted(p) ==
    At(p, "reserve") /\ Succeeds /\ reserved' = [reserved EXCEPT ![p] = "pending"]
        /\ To(p, IF Held < Quota THEN "create" ELSE "deny") /\ UNCHANGED <<claims, runs>>

\* The quota of the browser is drawn on for good; the reservation can be
\* given back: at once when the client is gone or the upload is not valid.
Reserve(p) ==
    LET held == [reserved EXCEPT ![p] = "pending"]
    IN  /\ At(p, "reserve") /\ UNCHANGED <<claims, runs>>
        /\ \/ /\ Succeeds /\ Held < Quota /\ reserved' = held
              /\ To(p, "create") \/ To(p, "return")
           \/ Succeeds /\ Held >= Quota /\ UNCHANGED reserved /\ To(p, "deny")
           \/ /\ Fails /\ To(p, "catch")
              /\ reserved' \in {reserved} \cup (IF Held < Quota THEN {held} ELSE {})

\* Fault: a row that exists is written over.
CreateOver(p) ==
    At(p, "create") /\ Succeeds /\ runs' = runs \cup {KeyOf(p)} /\ To(p, "executing")
        /\ UNCHANGED <<claims, reserved>>

\* createRun: the run id is the primary key.
Create(p) ==
    LET k == KeyOf(p)
    IN  /\ At(p, "create") /\ UNCHANGED <<claims, reserved>>
        /\ \/ Succeeds /\ k \notin runs /\ runs' = runs \cup {k} /\ To(p, "executing")
           \/ Succeeds /\ k \in runs /\ UNCHANGED runs /\ To(p, "return")
           \/ Fails /\ runs' \in {runs, runs \cup {k}} /\ To(p, "return")

\* Fault: the reservation is kept when the run does not begin.
KeepReservation(p) ==
    At(p, "return") /\ To(p, "failed") /\ Succeeds /\ UNCHANGED <<claims, runs, reserved>>

\* The reservation goes back; the claim stays.
Return(p) ==
    LET released == [reserved EXCEPT ![p] = "released"]
    IN  /\ At(p, "return") /\ To(p, "failed") /\ UNCHANGED <<claims, runs>>
        /\ \/ Succeeds /\ reserved' = released
           \/ Fails /\ reserved' \in {reserved, released}

\* The run: what follows is RunExecution's.
Execute(p) ==
    /\ At(p, "executing") /\ To(p, "ended")
    /\ reserved' = [reserved EXCEPT ![p] = "settled"]
    /\ Succeeds /\ UNCHANGED <<claims, runs>>

Die(p) ==
    /\ request[p].at \in Waiting \cup {"executing"} /\ Fails /\ To(p, "dead")
    /\ UNCHANGED <<claims, runs, reserved>>

Tick ==
    /\ now < MaxTime /\ now' = now + 1
    /\ UNCHANGED <<claims, runs, request, reserved, faults>>

Next ==
    \/ \E p \in Request :
           \/ Post(p) \/ Claim(p) \/ Provide(p) \/ Reserve(p) \/ Create(p) \/ Execute(p)
           \/ GiveUp(p) \/ Deny(p) \/ Catch(p) \/ Return(p) \/ Die(p)
    \/ Tick

Spec == Init /\ [][Next]_vars

-----------------------------------------------------------------------------
(* Properties                                                               *)

\* The tables and requests have their shapes.
TypeOK ==
    /\ now \in 0..MaxTime
    /\ claims \in [Key -> 0..(MaxTime + ClaimTicks)]
    /\ runs \subseteq Key
    /\ request \in [Request -> [at : Point, key : Key]]
    /\ reserved \in [Request -> {"none", "pending", "settled", "released"}]
    /\ Held <= Quota      \* the submissions of the browser's day
    /\ faults \in 0..MaxFaults

Of(k) == {p \in Request : KeyOf(p) = k}
Faultless == faults = MaxFaults

\* A run is executed by one request only: repeated requests, expired claims
\* and claims released twice never set two executors on one run's row and
\* document.
OneExecutor ==
    \A k \in Key : Cardinality({p \in Of(k) : request[p].at \in {"executing", "ended"}}) <= 1

\* As long as no call fails, a submission that is repeated while its claim lasts
\* draws on the quota once, whatever the order of the requests, and a key stays
\* claimed only for a request that got further than a refusal, so that one that
\* was denied can be submitted again.  And a reservation without a request that
\* works on it is the mark of a failure: at most one for each fault.
DrawsAreUsed ==
    /\ Faultless /\ now < ClaimTicks =>
           \A k \in Key : Cardinality({p \in Of(k) : reserved[p] # "none"}) <= 1
    /\ Faultless =>
           \A k \in Claimed :
               \E p \in Of(k) : request[p].at \notin {"idle", "claim", "refused"}
    /\ Cardinality({p \in Request : /\ reserved[p] = "pending"
                                    /\ request[p].at \in {"refused", "failed", "dead", "catch"}})
           <= MaxFaults - faults

\* What the test of the claim says ("claims a concurrent idempotency key once
\* before quota and provider work"): while a claim lasts, one request of its
\* key at most is past the claim and on its way to the run.  The code does not
\* keep it, and no run checks it: a claim call that fails releases the claim of
\* another request.
ClaimedOnce ==
    now < ClaimTicks =>
        \A k \in Key :
            Cardinality({p \in Of(k) :
                request[p].at \in {"provider", "reserve", "create", "executing"}}) <= 1

=============================================================================
