------------------------------ MODULE Assessments ------------------------------
(***************************************************************************)
(* The advisory assessment of Issues (src/workflow/assessment.ts,          *)
(* src/infra/assessment-store.ts, src/infra/assessment-harness.ts,         *)
(* src/github/assessment-publication.ts).  The runs are kept in one file   *)
(* that every change reads and replaces under its link lock, so a change   *)
(* is one step here; all the rest of a drain is interleaved with the other *)
(* processes, with the user, and with the death of a process.              *)
(*                                                                         *)
(* An input stands for an Issue with the basis it is assessed on.  A run   *)
(* is claimed once at most, so that its owner stands for the token too.    *)
(***************************************************************************)
EXTENDS Integers, Sequences, FiniteSets, GithubWrite

CONSTANTS
    Processes,    \* that share the state directory
    Inputs,
    MaxRuns,      \* bound: runs submitted
    MaxDeaths,    \* bound: deaths of a process
    MaxFaults     \* bound: changes of the state file that fail

VARIABLES
    runs,      \* the state file
    session,   \* what the session of each run has recorded
    alive,     \* processes that are there
    closed,    \* processes whose controller was closed
    drain,     \* the drain of each process
    aborted,   \* processes whose running agent was told to stop
    pub,       \* the publications of each process: of its drain and of its user
    comments,  \* comments of each run that GitHub has
    late,      \* runs with a comment whose request is still on its way
    fails,     \* deaths and faults so far
    shared     \* history: the reports that two callers have had in hand at once

avars == <<runs, session, alive, closed, drain, aborted, pub, comments, late, fails>>

ASSUME AssessmentAssumption ==
    /\ MaxRuns \in Nat /\ MaxDeaths \in Nat /\ MaxFaults \in Nat
    /\ None \notin Processes

Runs == 1..MaxRuns
RunPhases == {"queued", "running", "completed", "failed", "interrupted", "cancelled"}
Statuses == {"pending", "unknown", "published", "failed"}
Callers == {"drain", "user"}
Publishers == Processes \X Callers

Asleep == [at |-> "asleep", run |-> 0, todo |-> {}]
NotPublishing == [at |-> "none", run |-> 0, answer |-> None, status |-> None]

AssessmentTypeOK ==
    /\ \A r \in DOMAIN runs : runs[r] \in
          [input : Inputs, phase : RunPhases, owner : Processes \cup {None}, status : Statuses]
    /\ \A r \in DOMAIN runs :
          /\ runs[r].phase = "running" => runs[r].owner # None
          /\ runs[r].owner # None => runs[r].phase \in {"running", "cancelled"}
    /\ Len(runs) <= MaxRuns
    /\ session \in [Runs -> {"none", "open", "finished", "broken"}]
    /\ alive \subseteq Processes /\ closed \subseteq Processes /\ aborted \subseteq Processes
    /\ \A p \in Processes :
          /\ drain[p].at \in {"asleep", "recover", "interrupt", "claim", "run", "fail",
                              "publish", "sweep"}
          /\ drain[p].run \in Runs \cup {0}
          /\ drain[p].todo \subseteq IF drain[p].at = "sweep" THEN Runs ELSE Runs \X Processes
    /\ \A w \in Publishers :
          /\ pub[w].at \in {"none", "lease", "mark", "dispatch", "readback", "confirm", "look",
                            "keep", "report", "write", "catch", "rewrite"}
          /\ pub[w].run \in Runs \cup {0}
    /\ comments \in [Runs -> Nat]
    /\ late \subseteq Runs
    /\ fails \in [deaths : 0..MaxDeaths, faults : 0..MaxFaults]

AssessmentInit ==
    /\ runs = <<>>
    /\ session = [r \in Runs |-> "none"]
    /\ alive = Processes /\ closed = {} /\ aborted = {}
    /\ drain = [p \in Processes |-> Asleep]
    /\ pub = [w \in Publishers |-> NotPublishing]
    /\ comments = [r \in Runs |-> 0]
    /\ late = {}
    /\ fails = [deaths |-> 0, faults |-> 0]

-----------------------------------------------------------------------------
(* The user *)

\* A run of the same basis is reused while it is not settled, and after that
\* too unless the user asks for a new one.
Reused(input, retry) ==
    \E r \in DOMAIN runs : /\ runs[r].input = input
                           /\ (runs[r].phase \in {"queued", "running"} \/ ~retry)

Submit(input, retry) ==
    /\ ~Reused(input, retry)
    /\ Len(runs) < MaxRuns
    /\ runs' = Append(runs, [input |-> input, phase |-> "queued", owner |-> None,
                             status |-> "pending"])
    /\ UNCHANGED <<session, alive, closed, drain, aborted, pub, comments, late, fails>>

\* The agent is only told where the request arrives: another process's goes on.
Cancel(p, r) ==
    /\ p \in alive /\ r \in DOMAIN runs
    /\ runs[r].phase \in {"queued", "running"}
    /\ runs' = [runs EXCEPT ![r].phase = "cancelled"]
    /\ aborted' = IF drain[p].at = "run" /\ drain[p].run = r THEN aborted \cup {p} ELSE aborted
    /\ UNCHANGED <<session, alive, closed, drain, pub, comments, late, fails>>

Close(p) ==
    /\ p \in alive \ closed
    /\ closed' = closed \cup {p}
    /\ aborted' = IF drain[p].at = "run" THEN aborted \cup {p} ELSE aborted
    /\ UNCHANGED <<runs, session, alive, drain, pub, comments, late, fails>>

Dies(p) ==
    /\ p \in alive /\ alive # {p}
    /\ fails.deaths < MaxDeaths
    /\ alive' = alive \ {p}
    /\ drain' = [drain EXCEPT ![p] = Asleep]
    /\ pub' = [w \in Publishers |-> IF w[1] = p THEN NotPublishing ELSE pub[w]]
    /\ fails' = [fails EXCEPT !.deaths = @ + 1]
    /\ UNCHANGED <<runs, session, closed, aborted, comments, late>>

-----------------------------------------------------------------------------
(* The drain of a process *)

\* A drain takes its next step when its publication, if any, has ended.
Draining(p, at) == p \in alive /\ drain[p].at = at /\ pub[<<p, "drain">>] = NotPublishing

Moves(p, state) == drain' = [drain EXCEPT ![p] = state]
Goes(p, at) == Moves(p, [drain[p] EXCEPT !.at = at])

\* The error is noted, and the drain ends without a look at what is left.
Rejects(p) == Moves(p, Asleep)

\* A change of the file that cannot be made.
Fault == fails.faults < MaxFaults /\ fails' = [fails EXCEPT !.faults = @ + 1]
NoFault == UNCHANGED fails

Elsewhere == UNCHANGED <<alive, closed, comments, late>>

Claimed == {r \in DOMAIN runs : runs[r].owner # None}

\* The runs that are claimed, each with its owner.
Claims == {<<r, runs[r].owner>> : r \in Claimed}

\* The runs are gone through in the order of the file.
FirstClaim(claim, todo) == claim \in todo /\ \A c \in todo : claim[1] <= c[1]
First(r, todo) == r \in todo /\ \A q \in todo : r <= q

\* The drain begins with the runs as they are now.
Wake(p) ==
    /\ p \notin closed /\ Draining(p, "asleep") /\ runs # <<>>
    /\ Moves(p, [Asleep EXCEPT !.at = "recover", !.todo = Claims])
    /\ Elsewhere /\ NoFault /\ UNCHANGED <<runs, session, aborted, pub>>

\* The session of a run has recorded its answer in full.
Proved(r) == session[r] = "finished"

\* The claim is still held (nobody can claim a run again), and nobody cancelled.
Completable(r) == runs[r].owner # None /\ runs[r].phase = "running"

Complete(r) == runs' = [runs EXCEPT ![r].phase = "completed", ![r].owner = None]

\* Mutant: a run that failed or was cancelled keeps its claim.
FailHolding(r, phase) ==
    runs' = [runs EXCEPT ![r].phase = IF @ = "cancelled" THEN @ ELSE phase]

Fail(r, phase) ==
    runs' = [runs EXCEPT ![r].phase = IF @ = "cancelled" THEN @ ELSE phase, ![r].owner = None]

\* The claims of the living are let alone.
PassOver(p) ==
    /\ Draining(p, "recover")
    /\ \E claim \in drain[p].todo :
          /\ FirstClaim(claim, drain[p].todo) /\ claim[2] \in alive
          /\ Moves(p, [drain[p] EXCEPT !.todo = @ \ {claim}])
    /\ Elsewhere /\ NoFault /\ UNCHANGED <<runs, session, aborted, pub>>

RecoverClaim(p, claim) ==
    LET r == claim[1] IN
    \/ /\ Proved(r) /\ Completable(r) /\ Complete(r) /\ NoFault
       /\ Moves(p, [drain[p] EXCEPT !.todo = @ \ {claim}])
    \/ /\ (~(Proved(r) /\ Completable(r)) /\ NoFault) \/ Fault
       /\ UNCHANGED runs
       /\ Goes(p, "interrupt")

Recover(p) ==
    /\ Draining(p, "recover")
    /\ \E claim \in drain[p].todo :
          FirstClaim(claim, drain[p].todo) /\ claim[2] \notin alive /\ RecoverClaim(p, claim)
    /\ Elsewhere /\ UNCHANGED <<session, aborted, pub>>

InterruptClaim(p, claim) ==
    LET r == claim[1] IN
    \/ /\ r \in Claimed /\ Fail(r, "interrupted") /\ NoFault
       /\ Moves(p, [drain[p] EXCEPT !.at = "recover", !.todo = @ \ {claim}])
    \/ /\ (r \notin Claimed /\ NoFault) \/ Fault
       /\ UNCHANGED runs
       /\ Rejects(p)

Interrupt(p) ==
    /\ Draining(p, "interrupt")
    /\ \E claim \in drain[p].todo :
          FirstClaim(claim, drain[p].todo) /\ InterruptClaim(p, claim)
    /\ Elsewhere /\ UNCHANGED <<session, aborted, pub>>

AllRecovered(p) ==
    /\ Draining(p, "recover") /\ drain[p].todo = {}
    /\ Goes(p, "claim")
    /\ Elsewhere /\ NoFault /\ UNCHANGED <<runs, session, aborted, pub>>

Queued == {r \in DOMAIN runs : runs[r].phase = "queued"}

\* One assessment at a time, whoever claims.
Claimable(p) == Queued # {} /\ Claimed = {}

ClaimRun(p, r) ==
    /\ runs' = [runs EXCEPT ![r].phase = "running", ![r].owner = p]
    /\ session' = [session EXCEPT ![r] = "open"]
    /\ aborted' = aborted \ {p}
    /\ Moves(p, [Asleep EXCEPT !.at = "run", !.run = r]) /\ NoFault

Claim(p) ==
    /\ Draining(p, "claim") /\ p \notin closed /\ Claimable(p)
    /\ \/ \E r \in Queued : First(r, Queued) /\ ClaimRun(p, r)
       \/ Rejects(p) /\ Fault /\ UNCHANGED <<runs, session, aborted>>
    /\ Elsewhere /\ UNCHANGED pub

\* The reports that are still to be published.
Unpublished ==
    {r \in DOMAIN runs : runs[r].phase = "completed" /\ runs[r].status = "pending"}

Exhausted(p) ==
    /\ Draining(p, "claim") /\ (p \in closed \/ ~Claimable(p))
    /\ Moves(p, [Asleep EXCEPT !.at = "sweep", !.todo = Unpublished])
    /\ Elsewhere /\ NoFault /\ UNCHANGED <<runs, session, aborted, pub>>

\* The agent comes to an end, with an answer or without.
AgentEnds(p) ==
    LET r == drain[p].run IN
    /\ Draining(p, "run") /\ session[r] = "open"
    /\ \E end \in {"finished", "broken"} : session' = [session EXCEPT ![r] = end]
    /\ Elsewhere /\ NoFault /\ UNCHANGED <<runs, drain, aborted, pub>>

Settle(p) ==
    LET r == drain[p].run IN
    /\ Draining(p, "run")
    /\ \/ /\ session[r] # "open" /\ p \notin aborted /\ NoFault
          /\ Proved(r) /\ Completable(r) /\ Complete(r)
          /\ Goes(p, "publish")
       \/ /\ \/ p \in aborted /\ NoFault
             \/ session[r] # "open" /\ ~(Proved(r) /\ Completable(r)) /\ NoFault
             \/ session[r] # "open" /\ Fault
          /\ Goes(p, "fail")
          /\ UNCHANGED runs
    /\ Elsewhere /\ UNCHANGED <<session, aborted, pub>>

FailRun(p) ==
    LET r == drain[p].run IN
    /\ Draining(p, "fail")
    /\ \/ r \in Claimed /\ Fail(r, "failed") /\ Goes(p, "publish") /\ NoFault
       \/ Rejects(p) /\ UNCHANGED runs /\ ((r \notin Claimed /\ NoFault) \/ Fault)
    /\ Elsewhere /\ UNCHANGED <<session, aborted, pub>>

\* Mutant: what is unknown is published again.
PublishingAgain(w, r, status) ==
    pub' = IF runs[r].phase = "completed" /\ status \in {"pending", "unknown"}
             THEN [pub EXCEPT ![w] = [NotPublishing EXCEPT !.at = "lease", !.run = r]]
             ELSE pub

\* A caller has read a run and takes its report to GitHub.
Publishing(w, r, status) ==
    pub' = CASE runs[r].phase = "completed" /\ status = "pending" ->
                  [pub EXCEPT ![w] = [NotPublishing EXCEPT !.at = "lease", !.run = r]]
             [] runs[r].phase = "completed" /\ status = "unknown" ->
                  [pub EXCEPT ![w] = [NotPublishing EXCEPT !.at = "look", !.run = r]]
             [] OTHER -> pub

\* The report of the run just settled; then the next run.
PublishSettled(p) ==
    /\ Draining(p, "publish")
    /\ Publishing(<<p, "drain">>, drain[p].run, runs[drain[p].run].status)
    /\ Goes(p, "claim")
    /\ Elsewhere /\ NoFault /\ UNCHANGED <<runs, session, aborted>>

\* What was pending when the sweep began; then the drain has ended.
Sweep(p) ==
    /\ Draining(p, "sweep")
    /\ \/ drain[p].todo = {} /\ Moves(p, Asleep) /\ UNCHANGED pub
       \/ \E r \in drain[p].todo :
             /\ First(r, drain[p].todo)
             /\ Publishing(<<p, "drain">>, r, "pending")
             /\ Moves(p, [drain[p] EXCEPT !.todo = @ \ {r}])
    /\ Elsewhere /\ NoFault /\ UNCHANGED <<runs, session, aborted>>

-----------------------------------------------------------------------------
(* The publication of a report, by a drain or at the user's request *)

\* A user who publishes again what has failed makes it pending first.
UserPublishes(p, r) ==
    LET w == <<p, "user">> IN
    /\ p \in alive /\ r \in DOMAIN runs /\ runs[r].phase = "completed"
    /\ pub[w] = NotPublishing /\ runs[r].status # "published"
    /\ IF runs[r].status = "failed"
         THEN runs' = [runs EXCEPT ![r].status = "pending"] /\ Publishing(w, r, "pending")
         ELSE UNCHANGED runs /\ Publishing(w, r, runs[r].status)
    /\ Elsewhere /\ NoFault /\ UNCHANGED <<session, drain, aborted>>

Stands(w, at) == pub[w].at = at
To(w, at) == pub' = [pub EXCEPT ![w].at = at]
Ends(w) == pub' = [pub EXCEPT ![w] = NotPublishing]

\* An error in a drain's own error handler ends the drain.
Escapes(w) ==
    /\ Ends(w)
    /\ drain' = IF w[2] = "drain" THEN [drain EXCEPT ![w[1]] = Asleep] ELSE drain

\* The status is changed only from what the caller believes it to be.
Changes(w, from, to) ==
    /\ runs[pub[w].run].status = from
    /\ runs' = [runs EXCEPT ![pub[w].run].status = to]

\* A repository's comments are written one at a time in a process.
Leased(p) ==
    \E c \in Callers : pub[<<p, c>>].at \in {"mark", "dispatch", "readback"}

Lease(w) ==
    /\ Stands(w, "lease") /\ ~Leased(w[1])
    /\ To(w, "mark")
    /\ NoFault /\ UNCHANGED <<runs, drain, comments, late>>

\* Without its marker nothing is dispatched, and the write counts as failed.
Mark(w) ==
    /\ Stands(w, "mark")
    /\ \/ Changes(w, "pending", "unknown") /\ To(w, "dispatch") /\ NoFault
       \/ /\ pub' = [pub EXCEPT ![w].at = "report", ![w].answer = "closed"]
          /\ UNCHANGED runs
          /\ (runs[pub[w].run].status # "pending" /\ NoFault) \/ Fault
    /\ UNCHANGED <<drain, comments, late>>

Dispatch(w) ==
    LET r == pub[w].run IN
    /\ Stands(w, "dispatch")
    /\ \E answer \in Answers :
          /\ pub' = [pub EXCEPT ![w].answer = answer,
                                ![w].at = IF NeverHappened(answer) THEN "report" ELSE "readback"]
          /\ \/ /\ answer \in {"accepted", "lost"}
                /\ comments' = [comments EXCEPT ![r] = @ + 1] /\ UNCHANGED late
             \/ answer = "lost" /\ late' = late \cup {r} /\ UNCHANGED comments
             \/ answer # "accepted" /\ UNCHANGED <<comments, late>>
    /\ NoFault /\ UNCHANGED <<runs, drain>>

\* GitHub carries out what it was sent.
Lands(r) ==
    /\ r \in late
    /\ late' = late \ {r} /\ comments' = [comments EXCEPT ![r] = @ + 1]
    /\ NoFault /\ UNCHANGED <<runs, session, alive, closed, drain, aborted, pub>>

\* Confirmed with the answer's identifier; without one, the comment is looked for.
Readback(w) ==
    /\ Stands(w, "readback")
    /\ \E seen \in Readings(comments[pub[w].run] > 0) :
          IF Outcome(pub[w].answer, seen) # "confirmed" THEN To(w, "report")
          ELSE IF pub[w].answer = "accepted" THEN To(w, "confirm") ELSE To(w, "look")
    /\ NoFault /\ UNCHANGED <<runs, drain, comments, late>>

\* What is unknown is only read, and confirmed by one comment exactly.
Look(w) ==
    /\ Stands(w, "look")
    /\ \/ comments[pub[w].run] = 1 /\ To(w, "confirm")
       \/ comments[pub[w].run] # 1 /\ To(w, "keep")
       \/ To(w, "catch")
    /\ NoFault /\ UNCHANGED <<runs, drain, comments, late>>

SaveAs(w, at, from, to) ==
    /\ Stands(w, at)
    /\ \/ Changes(w, from, to) /\ Ends(w) /\ NoFault
       \/ /\ UNCHANGED runs /\ To(w, "catch")
          /\ (runs[pub[w].run].status # from /\ NoFault) \/ Fault
    /\ UNCHANGED <<drain, comments, late>>

Confirm(w) == SaveAs(w, "confirm", "unknown", "published")
Keep(w) == SaveAs(w, "keep", "unknown", "unknown")

\* What is not confirmed is saved over the status that is found.
Report(w) ==
    /\ Stands(w, "report")
    /\ pub' = [pub EXCEPT ![w].at = "write", ![w].status = runs[pub[w].run].status]
    /\ NoFault /\ UNCHANGED <<runs, drain, comments, late>>

Write(w) ==
    SaveAs(w, "write", pub[w].status,
           IF NeverHappened(pub[w].answer) THEN "failed" ELSE "unknown")

\* The error is saved with the status that is found.
Catch(w) ==
    /\ Stands(w, "catch")
    /\ pub' = [pub EXCEPT ![w].at = "rewrite", ![w].status = runs[pub[w].run].status]
    /\ NoFault /\ UNCHANGED <<runs, drain, comments, late>>

Rewrite(w) ==
    /\ Stands(w, "rewrite")
    /\ \/ Changes(w, pub[w].status, pub[w].status) /\ Ends(w) /\ NoFault /\ UNCHANGED drain
       \/ /\ UNCHANGED runs /\ Escapes(w)
          /\ (runs[pub[w].run].status # pub[w].status /\ NoFault) \/ Fault
    /\ UNCHANGED <<comments, late>>

Publication(w) ==
    /\ \/ Lease(w) \/ Mark(w) \/ Dispatch(w) \/ Readback(w) \/ Look(w) \/ Confirm(w)
       \/ Keep(w) \/ Report(w) \/ Write(w) \/ Catch(w) \/ Rewrite(w)
    /\ UNCHANGED <<session, alive, closed, aborted>>

Drain(p) ==
    \/ PassOver(p) \/ Recover(p) \/ Interrupt(p) \/ AllRecovered(p) \/ Claim(p) \/ Exhausted(p)
    \/ AgentEnds(p) \/ Settle(p) \/ FailRun(p) \/ PublishSettled(p) \/ Sweep(p)

AssessmentNext ==
    \/ \E i \in Inputs, retry \in BOOLEAN : Submit(i, retry)
    \/ \E p \in Processes : \/ Close(p) \/ Dies(p) \/ Wake(p) \/ Drain(p)
                            \/ \E r \in Runs : Cancel(p, r) \/ UserPublishes(p, r)
    \/ \E w \in Publishers : Publication(w)
    \/ \E r \in Runs : Lands(r)

\* A panel that is open asks for the state again and again, which wakes.
AssessmentFairness ==
    /\ \A p \in Processes : WF_avars(Wake(p)) /\ WF_avars(Drain(p))
    /\ \A w \in Publishers : WF_avars(Publication(w))

AssessmentSpec == AssessmentInit /\ [][AssessmentNext]_avars /\ AssessmentFairness

-----------------------------------------------------------------------------
(* Properties *)

\* The reports a caller has in hand or before it: what two of them have at once is shared,
\* which nothing in the code sees to (assessment-publication.ts:53).
Swept(w) == IF w[2] = "drain" /\ drain[w[1]].at = "sweep" THEN drain[w[1]].todo ELSE {}
Hands(w) == ({pub[w].run} \cup Swept(w)) \ {0}
Contended == {r \in Runs : \E u, w \in Publishers : u # w /\ r \in Hands(u) \cap Hands(w)}

Watched == AssessmentInit /\ shared = {}
Watches == AssessmentNext /\ shared' = shared \cup Contended'
WatchedSpec == Watched /\ [][Watches]_<<avars, shared>>

\* At most one assessment agent runs, in whatever process (the claim of
\* AssessmentStore.claim, with the liveness check of the recovery), and it is
\* the agent of the run that the file says is owned.
OneAgent ==
    \A p, q \in Processes : drain[p].at = "run" /\ drain[q].at = "run" =>
        p = q /\ runs[drain[p].run].owner = p

\* A completed assessment is one whose session has recorded the whole answer,
\* also when another process finds it after a death.
ReportIsProved == \A r \in DOMAIN runs : runs[r].phase = "completed" => session[r] = "finished"

\* What the publication's status says is so at GitHub: published is there,
\* failed is not and never will be; unless two callers have shared the report.
StatusIsTrue ==
    \A r \in DOMAIN runs \ shared :
        /\ runs[r].status = "published" => comments[r] > 0
        /\ runs[r].status = "failed" => comments[r] = 0 /\ r \notin late

CommentedAtMostOnce(r) == comments[r] + (IF r \in late THEN 1 ELSE 0) <= 1

\* A report is commented once, whoever publishes it and however often.
CommentedOnce == \A r \in Runs : CommentedAtMostOnce(r)

\* A run that is owned by a process which is there but no longer at it, because
\* the file could not be changed: nobody may claim or recover it.
Stuck ==
    \E r \in DOMAIN runs : /\ runs[r].owner \in alive
                           /\ drain[runs[r].owner].at \notin {"run", "fail"}

\* A queue does not stand still while a process is there, unless it is stuck.
QueueMoves ==
    \A r \in Runs : r \in Queued ~> (r \notin Queued \/ Stuck \/ alive \subseteq closed)

\* A run that has ended never becomes another one; a cancelled run in particular never
\* completes, however late its agent answers.
EndedStays ==
    [][\A r \in DOMAIN runs : runs[r].phase \notin {"queued", "running"} =>
          runs'[r].phase = runs[r].phase]_avars

\* The queue goes on, and what has left it does not come back.
QueueAdvances == QueueMoves /\ EndedStays

\* One agent and a proved report, whatever dies between the claim of an assessment and the
\* publication of its report; and a true status and a single comment for each report that
\* no two callers have had in hand at once, whatever became of the others.
AssessmentsAreTrue ==
    /\ AssessmentTypeOK /\ OneAgent /\ ReportIsProved /\ StatusIsTrue
    /\ \A r \in Runs \ shared : CommentedAtMostOnce(r)
=============================================================================
