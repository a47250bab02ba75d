------------------------------ MODULE GatewayLanes ------------------------------
(***************************************************************************)
(* How the GitHub gateway lets requests through (src/github/gateway-       *)
(* owner.ts, gateway-scheduling.ts, gateway-write-tracker.ts, with the     *)
(* requests of rest.ts and the write transactions of writes.ts).           *)
(*                                                                         *)
(* A request submits steps.  A dispatch loop takes one of them, admits it, *)
(* sleeps until the pacing interval is over, admits it again and runs it.  *)
(* Its response may publish what is left of the budget of a bucket, may    *)
(* trip the circuit, or may be lost.  The gateway may be closed at any     *)
(* time: what waits is interrupted, what runs has a window to end in.      *)
(*                                                                         *)
(* Which of the eligible steps is taken (priority, ageing, turns of the    *)
(* repositories) is left open, and so is time: a check of a deadline may   *)
(* find it passed.  What leases exclude is in GatewayCache.                *)
(***************************************************************************)
EXTENDS Integers, FiniteSets, NoValue

CONSTANTS
    LogicalRequests, \* logical requests
    WriteRequests,   \* the ones that are write transactions
    Paired,          \* the ones that read two things at once
    Repo,            \* the repository of a step
    Bucket,          \* the bucket it is charged to
    TotalCap,        \* CREDENTIAL_TOTAL_CONCURRENCY
    RepoCap,         \* REPOSITORY_CONCURRENCY
    ProbeCap,        \* UNKNOWN_BUDGET_PROBE_CAP
    MaxLeft,         \* bound: the budget a response publishes
    MaxRepublished,  \* bound: publications of a bucket in a row
    MaxMishaps       \* bound: refusals, rate limits, lost answers and missed deadlines

\* Step 0 sends a write; steps 1 and 2 read, or read a write back.
Reads(r) == {r} \X (IF r \in Paired THEN {1, 2} ELSE {1})
Sends(r) == IF r \in WriteRequests THEN {<<r, 0>>} ELSE {}
Steps == UNION {Reads(r) \cup Sends(r) : r \in LogicalRequests}
Buckets == {Bucket[s] : s \in Steps}

ASSUME LanesAssumption ==
    /\ WriteRequests \subseteq LogicalRequests /\ Paired \subseteq LogicalRequests
    /\ {TotalCap, RepoCap, ProbeCap} \subseteq Nat \ {0}
    /\ MaxLeft \in Nat

VARIABLES
    stepAt,          \* where the gateway has a step
    promise,         \* what the promise of a step was settled with, first
    headers,         \* the budget a successful response still has to publish
    evidenceSeq,     \* the evidence a step was dispatched under
    buckets,         \* the ledger of a bucket, None when unknown
    pacing,          \* the paced step that close() finds under a request
    looping,         \* a dispatch loop is between two steps
    dispatchScheduled,
    tooSoon,         \* nextStartAt is ahead
    wakes,           \* buckets whose reset a timer waits for
    tripped,         \* the circuit of the credential is tripped
    closing,         \* how far close() is
    progress,        \* where a request is
    terminal,        \* the terminal event of a request
    result,          \* what the caller was told
    landed,          \* writes that GitHub has executed
    allowed,         \* history: steps a bucket still allows since it was last published
    mishaps

promisevars == <<promise, headers, evidenceSeq>>
budgetvars == <<buckets, allowed>>
loopvars == <<looping, dispatchScheduled>>
timervars == <<tooSoon, wakes, tripped>>
requestvars == <<progress, terminal, result>>
worldvars == <<closing, landed, mishaps>>
lanevars == <<stepAt, pacing, promisevars, budgetvars, loopvars, timervars,
              requestvars, worldvars>>

Stages == {"unborn", "waiting", "held", "dispatched", "upstream", "over"}
Answers == {"value", "parsed", "rejected", "limited", "lost",
            "expired", "closed", "woken", "cut"}
Phases == {"new", "queued", "marking", "sending", "reading", "ended"}
Results == {"value", "confirmed", "unknown", "failed", "refused"}
Terminals == {"succeeded", "failed", "rate-limited", "interrupted", "unknown"}

ASSUME AnswersAssumption ==
    /\ None \notin Answers \cup Results \cup Terminals
    /\ None \notin [left : 0..MaxLeft, reset : {"ahead", "none"}]

\* A response that leaves nothing is a rate limit, whatever its status.
RateFields == [left : 1..MaxLeft, reset : {"ahead", "none"}]
Ledgers == [left : 0..MaxLeft, reset : {"ahead", "passed", "none"}, seq : Nat]

LanesTypeOK ==
    /\ stepAt \in [Steps -> Stages]
    /\ promise \in [Steps -> Answers \cup {None}]
    /\ headers \in [Steps -> RateFields \cup {None}]
    /\ evidenceSeq \in [Steps -> Nat]
    /\ \A b \in Buckets : buckets[b] = None \/ buckets[b] \in Ledgers
    /\ \A r \in LogicalRequests : pacing[r] = None \/ pacing[r] \in Reads(r) \cup Sends(r)
    /\ looping \in BOOLEAN /\ dispatchScheduled \in BOOLEAN /\ tooSoon \in BOOLEAN
    /\ tripped \in BOOLEAN /\ wakes \subseteq Buckets
    /\ closing \in {"open", "draining", "settling", "sealed"}
    /\ progress \in [LogicalRequests -> Phases]
    /\ terminal \in [LogicalRequests -> Terminals \cup {None}]
    /\ result \in [LogicalRequests -> Results \cup {None}]
    /\ landed \subseteq WriteRequests

LanesInit ==
    /\ stepAt = [s \in Steps |-> "unborn"]
    /\ promise = [s \in Steps |-> None]
    /\ headers = [s \in Steps |-> None]
    /\ evidenceSeq = [s \in Steps |-> 0]
    /\ buckets = [b \in Buckets |-> None]
    /\ pacing = [r \in LogicalRequests |-> None]
    /\ looping = FALSE /\ dispatchScheduled = FALSE /\ tooSoon = FALSE
    /\ wakes = {} /\ tripped = FALSE /\ closing = "open"
    /\ progress = [r \in LogicalRequests |-> "new"]
    /\ terminal = [r \in LogicalRequests |-> None]
    /\ result = [r \in LogicalRequests |-> None]
    /\ landed = {}
    /\ allowed = [b \in Buckets |-> 0]
    /\ mishaps = 0

Mishap == mishaps < MaxMishaps /\ mishaps' = mishaps + 1

InStage(label) == {s \in Steps : stepAt[s] = label}
Waiting == InStage("waiting")
Held == InStage("held")
Running == InStage("dispatched") \cup InStage("upstream")
Of(s) == s[1]

\* Write transactions that are tracked until they settle.
ActiveWrites == {r \in WriteRequests : progress[r] \notin {"new", "ended"}}

\* Exactly one terminal per logical request: the first one stays.
Noted(terms, rs, kind) ==
    [r \in LogicalRequests |-> IF r \in rs /\ terms[r] = None THEN kind ELSE terms[r]]

\* The first settlement of a promise stays.
FirstAnswer(answers, ss, kind) ==
    [s \in Steps |-> IF s \in ss /\ answers[s] = None THEN kind ELSE answers[s]]

-----------------------------------------------------------------------------
(* Budgets *)

\* reservedByBucket: one unit for every step under way.
ReservedByBucket(b) == Cardinality({s \in Running : Bucket[s] = b})

\* A response with rate fields republishes its bucket.
Republished(b, seen) ==
    IF seen = None THEN buckets
    ELSE [buckets EXCEPT ![b] =
             [left |-> seen.left, reset |-> seen.reset,
              seq |-> (IF buckets[b] = None THEN 0 ELSE buckets[b].seq) + 1]]

Allowed(b, seen) == IF seen = None THEN allowed ELSE [allowed EXCEPT ![b] = seen.left]

\* A step that settled without fresh evidence has used up a unit.
Charged(ledger, s) ==
    IF ledger # None /\ ledger.seq = evidenceSeq[s] /\ ledger.left > 0
    THEN [ledger EXCEPT !.left = @ - 1]
    ELSE ledger

\* A ledger whose reset has passed is dropped.
Current(b) ==
    IF buckets[b] # None /\ buckets[b].reset = "passed" THEN None ELSE buckets[b]

Exhausted(b) == Current(b) # None /\ Current(b).left <= ReservedByBucket(b)

-----------------------------------------------------------------------------
(* Admission *)

RepoRunning(s) == Cardinality({t \in Running : Repo[t] = Repo[s]})

Full(s) == Cardinality(Running) >= TotalCap \/ RepoRunning(s) >= RepoCap

\* Steps under way in buckets nobody knows, the bucket b of the candidate among them.
UnknownRunning(b) == Cardinality({t \in Running : Bucket[t] = b \/ buckets[Bucket[t]] = None})

\* Something under way holds what the step needs: its settlement schedules a dispatch.
MustWait(s) ==
    \/ Full(s)
    \/ Exhausted(Bucket[s]) /\ ReservedByBucket(Bucket[s]) > 0
    \/ Current(Bucket[s]) = None /\ UnknownRunning(Bucket[s]) >= ProbeCap

Paused(s) == Exhausted(Bucket[s]) /\ Current(Bucket[s]).reset = "ahead"

AdmitsOnce(s) == s \in Held \/ (~MustWait(s) /\ ~Paused(s))

Admits(s) == ~MustWait(s) /\ ~Paused(s)

\* The ledgers after admission has looked: one whose reset has passed is dropped, and
\* so is one that is exhausted with no reset to wait for.
Looked(s) ==
    LET b == Bucket[s] IN
    IF Full(s) THEN buckets
    ELSE IF Exhausted(b) /\ ReservedByBucket(b) = 0 /\ Current(b).reset = "none"
         THEN [buckets EXCEPT ![b] = None]
         ELSE [buckets EXCEPT ![b] = Current(b)]

\* An admission that does not let the step through: it goes back and the loop ends,
\* or its reset is after its deadline, and the loop goes on.
Requeue(s) ==
    /\ stepAt' = [stepAt EXCEPT ![s] = "waiting"]
    /\ looping' = FALSE
    /\ buckets' = Looked(s)
    /\ \/ MustWait(s) /\ UNCHANGED wakes
       \/ ~MustWait(s) /\ Paused(s) /\ wakes' = wakes \cup {Bucket[s]}
    /\ UNCHANGED <<promise, terminal, mishaps>>

\* A step is given up with a terminal of its own.
GivenUp(s, kind, end) ==
    /\ stepAt' = [stepAt EXCEPT ![s] = "over"]
    /\ promise' = FirstAnswer(promise, {s}, kind)
    /\ terminal' = Noted(terminal, {Of(s)}, end)
    /\ UNCHANGED <<buckets, wakes>>

RejectLimited(s) ==
    /\ ~MustWait(s) /\ Paused(s) /\ Mishap
    /\ GivenUp(s, "limited", "rate-limited")
    /\ looping' = TRUE

-----------------------------------------------------------------------------
(* The dispatch loops.  One runs until it sleeps or returns: only then does *)
(* anything else happen.                                                    *)

StartLoop ==
    /\ dispatchScheduled
    /\ dispatchScheduled' = FALSE /\ looping' = TRUE
    /\ UNCHANGED <<stepAt, pacing, promisevars, budgetvars, timervars, requestvars, worldvars>>

\* takeCandidate: a waiting step whose repository has room.
Eligible(s) == s \in Waiting /\ RepoRunning(s) < RepoCap

LoopEnds ==
    /\ Cardinality(Running) >= TotalCap \/ ~\E s \in Steps : Eligible(s)
    /\ looping' = FALSE
    /\ UNCHANGED <<stepAt, pacing, promisevars, budgetvars, dispatchScheduled, timervars,
                   requestvars, worldvars>>

\* A step that waited past its deadline is interrupted, and the loop goes on.
Expire(s) ==
    /\ Mishap
    /\ GivenUp(s, "expired", "interrupted")
    /\ looping' = TRUE

\* run() is called, under the evidence of the moment, and the loop goes on.
DispatchStep(s) ==
    LET b == Bucket[s]
        ledger == Looked(s)[b] IN
    /\ Admits(s)
    /\ stepAt' = [stepAt EXCEPT ![s] = "dispatched"]
    /\ buckets' = Looked(s)
    /\ evidenceSeq' = [evidenceSeq EXCEPT ![s] = IF ledger = None THEN 0 ELSE ledger.seq]
    /\ allowed' = [allowed EXCEPT ![b] = IF ledger = None THEN 0 ELSE @ - 1]
    /\ tooSoon' = TRUE /\ looping' = TRUE
    /\ UNCHANGED <<promise, terminal, wakes, mishaps>>

\* The loop sleeps with the step it was about to run.
Pace(s) ==
    /\ Admits(s)
    /\ stepAt' = [stepAt EXCEPT ![s] = "held"]
    /\ pacing' = [pacing EXCEPT ![Of(s)] = s]
    /\ buckets' = Looked(s)
    /\ looping' = FALSE
    /\ UNCHANGED <<promise, evidenceSeq, allowed, tooSoon, wakes, terminal, mishaps>>

\* The taken step is put under its request, over another of that request which a loop
\* holds, and is removed from there once it is not paced.
TakeCandidate(s) ==
    /\ Cardinality(Running) < TotalCap /\ Eligible(s)
    /\ \/ /\ \/ /\ Expire(s) \/ Requeue(s) \/ RejectLimited(s)
                /\ UNCHANGED <<evidenceSeq, allowed, tooSoon>>
             \/ ~tooSoon /\ DispatchStep(s)
          /\ pacing' = [pacing EXCEPT ![Of(s)] = None]
       \/ tooSoon /\ Pace(s)
    /\ UNCHANGED <<headers, dispatchScheduled, tripped, progress, result, closing, landed>>

\* What runs before any timer can: loops, calls and the continuations of callers.
Continues(r) ==
    \/ progress[r] = "sending" /\ promise[<<r, 0>>] # None
    \/ \E s \in Reads(r) : promise[s] = "value"
    \/ /\ progress[r] = "reading"
       /\ \/ \E s \in Reads(r) : promise[s] \notin {None, "parsed"}
          \/ \A s \in Reads(r) : promise[s] = "parsed"

Quiet ==
    /\ ~dispatchScheduled /\ InStage("dispatched") = {}
    /\ ~\E r \in LogicalRequests : Continues(r)

\* The gateway was closed while the step was paced: it is not dispatched.
WakeClosed(s) ==
    /\ closing # "open"
    /\ GivenUp(s, "woken", "interrupted")
    /\ looping' = FALSE
    /\ UNCHANGED mishaps

\* The interval is over: the loop goes on with the step it held, and admission, whose
\* facts may have moved meanwhile, is asked again.
Resume(s) ==
    /\ s \in Held /\ ~tooSoon /\ Quiet
    /\ pacing' = [pacing EXCEPT ![Of(s)] = None]
    /\ \/ /\ \/ Expire(s) \/ WakeClosed(s)
             \/ closing = "open" /\ (Requeue(s) \/ RejectLimited(s))
          /\ UNCHANGED <<evidenceSeq, allowed, tooSoon>>
       \/ closing = "open" /\ DispatchStep(s)
    /\ UNCHANGED <<headers, dispatchScheduled, tripped, progress, result, closing, landed>>

-----------------------------------------------------------------------------
(* Running *)

\* A step settles: its reservation is given back, its caller answered, unless close()
\* has already done that, and a dispatch scheduled.
Settle(s, kind, ledgers) ==
    /\ stepAt' = [stepAt EXCEPT ![s] = "over"]
    /\ promise' = FirstAnswer(promise, {s}, kind)
    /\ evidenceSeq' = [evidenceSeq EXCEPT ![s] = 0]
    /\ buckets' = [ledgers EXCEPT ![Bucket[s]] = Charged(@, s)]
    /\ dispatchScheduled' = TRUE
    /\ UNCHANGED <<pacing, looping, tooSoon, wakes, requestvars, closing, landed>>

\* assertCircuitOpen, of the credential and of the bucket.
CircuitOpen(b) ==
    /\ ~tripped
    /\ ~(buckets[b] # None /\ buckets[b].left = 0 /\ buckets[b].reset = "ahead")

\* A step that was queued before the circuit tripped does not reach GitHub.
Run(s) ==
    /\ stepAt[s] = "dispatched"
    /\ \/ /\ CircuitOpen(Bucket[s])
          /\ stepAt' = [stepAt EXCEPT ![s] = "upstream"]
          /\ UNCHANGED <<pacing, promisevars, budgetvars, loopvars, timervars,
                         requestvars, worldvars>>
       \/ /\ ~CircuitOpen(Bucket[s])
          /\ Settle(s, "limited", buckets)
          /\ UNCHANGED <<headers, allowed, tripped, mishaps>>

Upstream(s) == stepAt[s] = "upstream"
Send(s) == s \in Sends(Of(s))

\* GitHub executes a write.
Execute(s) ==
    /\ Upstream(s) /\ Send(s)
    /\ landed' = landed \cup {Of(s)}
    /\ UNCHANGED <<stepAt, pacing, promisevars, budgetvars, loopvars, timervars,
                   requestvars, closing, mishaps>>

\* 2xx: the budget it publishes is read by the caller, after the settlement.
Succeed(s, seen) ==
    /\ Upstream(s) /\ (Send(s) => Of(s) \in landed)
    /\ headers' = [headers EXCEPT ![s] = seen]
    /\ Settle(s, "value", buckets)
    /\ UNCHANGED <<allowed, tripped, mishaps>>

\* 4xx, whose budget is published before the settlement.
Reject(s, seen) ==
    /\ Upstream(s) /\ (Send(s) => Of(s) \notin landed) /\ Mishap
    /\ Settle(s, "rejected", Republished(Bucket[s], seen))
    /\ allowed' = Allowed(Bucket[s], seen)
    /\ UNCHANGED <<headers, tripped>>

\* A rate limit: a refusal, or a response that leaves nothing in the bucket, which the
\* success of a write may be.  A primary one empties the bucket until its reset, any
\* other one, or one that names no bucket, trips the circuit of the credential.
RateLimited(s) ==
    /\ Upstream(s) /\ Mishap
    /\ \/ /\ Settle(s, "limited", Republished(Bucket[s], [left |-> 0, reset |-> "ahead"]))
          /\ allowed' = [allowed EXCEPT ![Bucket[s]] = 0]
          /\ UNCHANGED tripped
       \/ /\ Settle(s, "limited", buckets)
          /\ tripped' = TRUE
          /\ UNCHANGED allowed
    /\ UNCHANGED headers

\* No answer, or an answer that says nothing.
Lose(s) ==
    /\ Upstream(s) /\ Mishap
    /\ Settle(s, "lost", buckets)
    /\ UNCHANGED <<headers, allowed, tripped>>

-----------------------------------------------------------------------------
(* Requests *)

\* submitStep of several steps: a closed gateway refuses them.
Submit(ss) ==
    /\ closing = "open"
    /\ stepAt' = [s \in Steps |-> IF s \in ss THEN "waiting" ELSE stepAt[s]]
    /\ dispatchScheduled' = TRUE

NothingSubmitted == UNCHANGED <<stepAt, dispatchScheduled>>

Refused == closing # "open" /\ NothingSubmitted

Goes(r, to) == progress' = [progress EXCEPT ![r] = to] /\ UNCHANGED <<terminal, result>>

Ends(r, kind, told) ==
    /\ progress' = [progress EXCEPT ![r] = "ended"]
    /\ terminal' = Noted(terminal, {r}, kind)
    /\ result' = [result EXCEPT ![r] = told]

\* A read submits its steps, a write queues for its leases; a closed gateway declares
\* no request.
Declare(r) ==
    /\ progress[r] = "new"
    /\ \/ r \notin WriteRequests /\ Submit(Reads(r)) /\ Goes(r, "reading")
       \/ closing = "open" /\ r \in WriteRequests /\ NothingSubmitted /\ Goes(r, "queued")
       \/ /\ Refused
          /\ progress' = [progress EXCEPT ![r] = "ended"]
          /\ result' = [result EXCEPT ![r] = "refused"]
          /\ UNCHANGED terminal
    /\ UNCHANGED <<pacing, promisevars, budgetvars, looping, timervars, worldvars>>

\* The leases are granted, and the attempt marker is written or is not.  What is
\* submitted to a closed gateway was certainly not sent: that write has not happened.
Begin(r) ==
    /\ \/ progress[r] = "queued" /\ NothingSubmitted /\ Goes(r, "marking")
       \/ /\ progress[r] = "marking"
          /\ \/ NothingSubmitted /\ Ends(r, "failed", "failed")
             \/ Submit(Sends(r)) /\ Goes(r, "sending")
             \/ Refused /\ Ends(r, "interrupted", "failed")
    /\ UNCHANGED <<pacing, promisevars, budgetvars, looping, timervars, worldvars>>

\* The caller of a step has its response and publishes the budget it tells.
ReadHeaders(s) ==
    /\ headers' = [headers EXCEPT ![s] = None]
    /\ buckets' = Republished(Bucket[s], headers[s])
    /\ allowed' = Allowed(Bucket[s], headers[s])

\* Answers that prove that a write was never sent.
NeverSent == {"closed", "woken"}

\* The dispatch of a write is over.  Unless it was provably not performed, only a
\* readback tells what became of it.
Dispatched(r) ==
    LET s == <<r, 0>> IN
    /\ progress[r] = "sending" /\ promise[s] # None
    /\ ReadHeaders(s)
    /\ \/ promise[s] \in NeverSent /\ NothingSubmitted /\ Ends(r, "interrupted", "failed")
       \/ promise[s] = "rejected" /\ NothingSubmitted /\ Ends(r, "failed", "failed")
       \/ /\ promise[s] \notin NeverSent \cup {"rejected"}
          /\ \/ Submit(Reads(r)) /\ Goes(r, "reading")
             \/ Refused /\ Ends(r, "unknown", "unknown")
    /\ UNCHANGED <<pacing, promise, evidenceSeq, looping, timervars, worldvars>>

Parse(s) ==
    /\ ~Send(s) /\ promise[s] = "value"
    /\ promise' = [promise EXCEPT ![s] = "parsed"]
    /\ ReadHeaders(s)
    /\ UNCHANGED <<stepAt, pacing, evidenceSeq, loopvars, timervars, requestvars, worldvars>>

\* A request ends with the first step that fails, or when all have been read.  A write
\* is confirmed by what the readback finds, and by nothing else.
EndRequest(r) ==
    /\ progress[r] = "reading"
    /\ \/ \E s \in Reads(r) :
             /\ promise[s] \notin {None, "value", "parsed"}
             /\ IF r \in WriteRequests THEN Ends(r, "unknown", "unknown")
                ELSE IF promise[s] = "limited" THEN Ends(r, "rate-limited", "failed")
                ELSE Ends(r, "failed", "failed")
       \/ /\ \A s \in Reads(r) : promise[s] = "parsed"
          /\ IF r \notin WriteRequests THEN Ends(r, "succeeded", "value")
             ELSE IF r \in landed THEN Ends(r, "succeeded", "confirmed")
             ELSE Ends(r, "unknown", "unknown")
    /\ UNCHANGED <<stepAt, pacing, promisevars, budgetvars, loopvars, timervars, worldvars>>

-----------------------------------------------------------------------------
(* Time *)

TimersFire ==
    /\ Quiet
    /\ \/ /\ tooSoon /\ tooSoon' = FALSE
          /\ UNCHANGED <<buckets, dispatchScheduled, wakes, tripped>>
       \/ /\ tripped /\ tripped' = FALSE
          /\ UNCHANGED <<buckets, dispatchScheduled, tooSoon, wakes>>
       \/ \E b \in Buckets :
             /\ buckets[b] # None /\ buckets[b].reset = "ahead"
             /\ buckets' = [buckets EXCEPT ![b].reset = "passed"]
             /\ UNCHANGED <<dispatchScheduled, tooSoon, wakes, tripped>>
       \/ \E b \in wakes :
             /\ wakes' = wakes \ {b} /\ dispatchScheduled' = TRUE
             /\ UNCHANGED <<buckets, tooSoon, tripped>>
    /\ UNCHANGED <<stepAt, pacing, promisevars, allowed, looping, requestvars, worldvars>>

-----------------------------------------------------------------------------
(* close() *)

\* Writes that queue for leases are rejected, and so are the steps that wait and the
\* paced ones that are found; a write settles its own terminal.
Close ==
    LET leaving == {r \in WriteRequests : progress[r] = "queued"}
        stopped == Waiting \cup ({pacing[r] : r \in LogicalRequests} \ {None})
        ended == leaving \cup ({Of(s) : s \in stopped} \ ActiveWrites) IN
    /\ closing = "open" /\ closing' = "draining"
    /\ progress' = [r \in LogicalRequests |-> IF r \in leaving THEN "ended" ELSE progress[r]]
    /\ result' = [r \in LogicalRequests |-> IF r \in leaving THEN "failed" ELSE result[r]]
    /\ terminal' = Noted(terminal, ended, "interrupted")
    /\ stepAt' = [s \in Steps |-> IF s \in Waiting THEN "over" ELSE stepAt[s]]
    /\ promise' = FirstAnswer(promise, stopped, "closed")
    /\ pacing' = [r \in LogicalRequests |-> None]
    /\ UNCHANGED <<headers, evidenceSeq, budgetvars, loopvars, timervars, landed, mishaps>>

\* The window is over, or nothing is under way: what still runs is cut off.
DrainEnds ==
    /\ closing = "draining" /\ Quiet
    /\ closing' = "settling"
    /\ promise' = FirstAnswer(promise, Running, "cut")
    /\ terminal' = Noted(terminal, {Of(s) : s \in Running} \ ActiveWrites, "interrupted")
    /\ UNCHANGED <<stepAt, pacing, headers, evidenceSeq, budgetvars, loopvars, timervars,
                   progress, result, landed, mishaps>>

\* Writes that could settle have done so.  The sweep judges the others by whether their
\* dispatch was attempted, and the gateway is sealed.
Declared == {r \in LogicalRequests : progress[r] # "new" /\ result[r] # "refused"}

DispatchAttempted == {r \in ActiveWrites : progress[r] \in {"sending", "reading"}}

Seal ==
    /\ closing = "settling" /\ Quiet
    /\ closing' = "sealed"
    /\ terminal' = Noted(Noted(terminal, DispatchAttempted, "unknown"), Declared, "interrupted")
    /\ UNCHANGED <<stepAt, pacing, promisevars, budgetvars, loopvars, timervars,
                   progress, result, landed, mishaps>>

-----------------------------------------------------------------------------

Responds(s) ==
    \/ RateLimited(s) \/ Lose(s) \/ Reject(s, None) \/ Succeed(s, None)
    \/ \E seen \in RateFields :
          /\ buckets[Bucket[s]] # None => buckets[Bucket[s]].seq < MaxRepublished
          /\ Succeed(s, seen) \/ Reject(s, seen)

LanesNext ==
    \/ looping /\ (LoopEnds \/ \E s \in Steps : TakeCandidate(s))
    \/ /\ ~looping
       /\ \/ StartLoop \/ TimersFire \/ Close \/ DrainEnds \/ Seal
          \/ \E s \in Steps : Resume(s) \/ Run(s) \/ Execute(s) \/ Responds(s) \/ Parse(s)
          \/ \E r \in LogicalRequests : Declare(r) \/ Begin(r) \/ Dispatched(r) \/ EndRequest(r)

LanesSpec == LanesInit /\ [][LanesNext]_lanevars

-----------------------------------------------------------------------------
(* Properties *)

\* However many loops sleep with a step that was admitted before they did, no more
\* steps are under way than the gateway allows, of the credential and of a repository.
CapsKept ==
    /\ Cardinality(Running) <= TotalCap
    /\ \A s \in Running : RepoRunning(s) <= RepoCap

\* No more steps are sent to a bucket than it last said were left.
BudgetKept == \A b \in Buckets : buckets[b] # None => allowed[b] >= 0

\* While a step waits, something will look at it: a dispatch that is scheduled, a loop,
\* a step under way whose settlement schedules one, or the timer of a reset.
NobodyStalls ==
    Waiting # {} => dispatchScheduled \/ looping \/ Running # {} \/ Held # {} \/ wakes # {}

\* What a caller of a write is told, and the terminal on record, is what happened to
\* it, wherever close() met it.  (A write that was sent is "interrupted" only when a
\* step of its readback was, by its deadline or unseen by close().)
EndsAreTrue ==
    \A r \in WriteRequests :
        /\ result[r] = "confirmed" => r \in landed
        /\ result[r] = "failed" => r \notin landed
        /\ terminal[r] = "failed" => r \notin landed
        /\ terminal[r] = "interrupted" /\ r \in landed =>
               \E s \in Reads(r) : promise[s] \in {"expired", "woken"}

\* A sealed gateway owes nobody a terminal, nor an answer but to a step that a loop
\* still holds, and sends nothing.
SealedOwesNothing ==
    closing = "sealed" =>
        /\ \A r \in Declared : terminal[r] # None
        /\ \A s \in Steps : stepAt[s] # "unborn" => promise[s] # None \/ stepAt[s] = "held"
        /\ Waiting = {}

\* The promise of the gateway: its caps and budgets hold whatever sleeps between two
\* admissions, nothing it took is forgotten, and every end, through close() too, is
\* true.
LanesAreSafe ==
    /\ LanesTypeOK /\ CapsKept /\ BudgetKept
    /\ NobodyStalls /\ EndsAreTrue /\ SealedOwesNothing
=============================================================================
