---------------------------- MODULE TaskLifecycle ----------------------------
(***************************************************************************)
(* The agent tasks of one workflow, from the request that starts one to    *)
(* the end of its host job: workflow/develop-start.ts, resume.ts,          *)
(* review-flow.ts and task-api.ts on top of agent/task-supervisor.ts and   *)
(* infra/task-ownership.ts.                                                *)
(*                                                                         *)
(* A controller is one instance of the plugin, with its own live tasks and *)
(* its own gates.  Controllers of one host share the host's job registry,  *)
(* which dies with the host; a host that restarts is another host here.    *)
(* All of them share the record and the worktree.  A step runs from one    *)
(* await to the next: what a call read before is in seen and may be old.   *)
(*                                                                         *)
(* A command on the record is one step, and conflicts of revisions are     *)
(* retried inside it (WorkflowStore), so revisions are left out.  Commands *)
(* may fail (a lock times out, a disk refuses); the registry does not,     *)
(* and the host keeps the snapshot of a job that ended.                    *)
(***************************************************************************)
EXTENDS WorkflowRecord, FiniteSets

CONSTANTS
    Calls,          \* requests that may become tasks
    EntryOf,        \* the route a request takes
    ExactSession,   \* requests that find an exact session to resume
    Unsettled,      \* requests that find GitHub writes of an earlier task
                    \* unsettled, and have to record what became of them
    Controllers,
    CtrlOf,         \* the controller that serves a request
    Hosts,
    HostOf,         \* the host of a controller
    MortalHosts,    \* bound: hosts whose process may die
    MaxStops        \* bound: tasks that users stop in one behaviour

Entry == {"develop", "resume", "review"}
Nobody == "nobody"
Handled == "handled"

ASSUME TaskAssumption ==
    /\ EntryOf \in [Calls -> Entry]
    /\ ExactSession \subseteq {c \in Calls : EntryOf[c] # "develop"}
    /\ Unsettled \subseteq Calls
    /\ CtrlOf \in [Calls -> Controllers]
    /\ HostOf \in [Controllers -> Hosts]
    /\ MortalHosts \subseteq Hosts
    /\ MaxStops \in Nat
    /\ {Nobody, Handled} \cap Controllers = {}

VARIABLES
    record,   \* the workflow file
    file,     \* the review result file in the worktree: the task it is from
    up,       \* hosts whose process lives
    pc,       \* where a request, then its task, is
    seen,     \* the record a request loaded
    id,       \* the task id of a request, None before it has one
    live,     \* its LiveTask
    aborted,  \* LiveTask.status is stopped or timed_out
    job,      \* its host job
    agent,    \* its agent process
    exact,    \* it resumes an exact session, and may fall back to a fresh one
    result,   \* how its agent ended, once settle has looked
    lease,    \* taskStateRevision of its lease, 0 without one
    stop      \* the controller that is about to commit a stop of it

vars == <<record, file, up, pc, seen, id, live, aborted, job, agent, exact,
          result, lease, stop>>
request == <<seen, id, exact>>
supervised == <<live, aborted, job>>

Label == {"idle", "loaded", "reserved", "hosted", "claimed", "cleared", "running",
          "fallback", "relaunch", "exiting", "closing", "done"}

TypeOK ==
    /\ record \in Workflow({})
    /\ file \in Nat
    /\ up \in SUBSET Hosts
    /\ pc \in [Calls -> Label]
    /\ seen \in [Calls -> Workflow({})]
    /\ id \in [Calls -> Nat]
    /\ live \in [Calls -> {"none", "open", "closed"}]
    /\ aborted \in [Calls -> BOOLEAN]
    /\ job \in [Calls -> {"none", "active", "settled"}]
    /\ agent \in [Calls -> {"none", "alive", "killed", "exited"}]
    /\ exact \in [Calls -> BOOLEAN]
    /\ result \in [Calls -> {"none", "ok", "bad"}]
    /\ lease \in [Calls -> Nat]
    /\ stop \in [Calls -> Controllers \cup {Nobody, Handled}]

\* The worktree is prepared and no task has run.
Prepared == [Absent EXCEPT !.rev = 1]

Init ==
    /\ record = Prepared
    /\ file = None
    /\ up = Hosts
    /\ pc = [c \in Calls |-> "idle"]
    /\ seen = [c \in Calls |-> Prepared]
    /\ id = [c \in Calls |-> None]
    /\ live = [c \in Calls |-> "none"]
    /\ aborted = [c \in Calls |-> FALSE]
    /\ job = [c \in Calls |-> "none"]
    /\ agent = [c \in Calls |-> "none"]
    /\ exact = [c \in Calls |-> FALSE]
    /\ result = [c \in Calls |-> "none"]
    /\ lease = [c \in Calls |-> 0]
    /\ stop = [c \in Calls |-> Nobody]

KindOf(c) == IF EntryOf[c] = "review" THEN "review" ELSE "dev"
Home(c) == HostOf[CtrlOf[c]]
Goto(c, l) == pc' = [pc EXCEPT ![c] = l]
Forget(c) == seen' = [seen EXCEPT ![c] = Prepared]

\* The code of a request is over, and what it held is gone.
Leave(c) ==
    /\ Goto(c, "done")
    /\ Forget(c)
    /\ exact' = [exact EXCEPT ![c] = FALSE]
    /\ lease' = [lease EXCEPT ![c] = 0]
At(c, l) == pc[c] = l /\ Home(c) \in up

Commits(next, advance) == record' = [Commit(record, next, advance) EXCEPT !.rev = record.rev]

HoldsLease(c) == Owns(record, id[c]) /\ record.tsr = lease[c]

\* mutateLiveTaskWorkflow: through the lease, or not at all.
Mutates(c, next, advance) ==
    IF HoldsLease(c)
    THEN /\ Commits(next, advance)
         /\ lease' = [lease EXCEPT ![c] = record'.tsr]
    ELSE UNCHANGED <<record, lease>>

\* finishTask: a closed task releases its gate and settles the host job it
\* has reserved; to finish twice changes nothing.
FinishTask(c) ==
    /\ live' = [live EXCEPT ![c] = "closed"]
    /\ aborted' = [aborted EXCEPT ![c] = FALSE]
    /\ job' = IF live[c] = "open" /\ job[c] = "active"
              THEN [job EXCEPT ![c] = "settled"] ELSE job

-----------------------------------------------------------------------------
(* observeTaskOwnership and taskLaunchDecision *)

Named(w) == {c \in Calls : id[c] # None /\ id[c] \in {w.dev, w.review}}

\* The tasks a controller can see running.
SeenRunning(k, w) ==
    {c \in Named(w) : \/ CtrlOf[c] = k /\ live[c] = "open"
                      \/ Home(c) = HostOf[k] /\ job[c] = "active"}

Expected(w) ==
    CASE w.stage = "developing" -> w.dev
      [] w.stage = "reviewing" -> w.review
      [] OTHER -> None

\* The host of k still has the snapshot of the expected task's job.
SeenEnded(k, w) ==
    \E c \in Named(w) : id[c] = Expected(w) /\ Home(c) = HostOf[k] /\ job[c] = "settled"

Ownership(k, w) ==
    CASE SeenRunning(k, w) # {} -> "running"
      [] SeenRunning(k, w) = {} /\ Expected(w) = None -> "none"
      [] /\ SeenRunning(k, w) = {}
         /\ Expected(w) # None
         /\ (w.stage = "developing" /\ w.interrupted) \/ SeenEnded(k, w) -> "interrupted"
      [] OTHER -> "unknown"

\* Mutant: no proof that a task lives is proof that it is dead.
LaunchUnlessRunning(k, w) == Ownership(k, w) # "running"

LaunchAllowed(k, w) == Ownership(k, w) \in {"none", "interrupted"}

-----------------------------------------------------------------------------
(* From a request to its launch *)

Load(c) ==
    /\ At(c, "idle")
    /\ EntryOf[c] = "resume" => record.dev # None
    /\ seen' = [seen EXCEPT ![c] = record]
    /\ Goto(c, "loaded")
    /\ UNCHANGED <<record, file, up, id, exact, supervised, agent, result, lease, stop>>

\* ExclusiveTaskGate: resume and review each have one per controller.
GateTaken(c) ==
    /\ EntryOf[c] # "develop"
    /\ \E t \in Calls : /\ CtrlOf[t] = CtrlOf[c] /\ EntryOf[t] = EntryOf[c]
                        /\ live[t] = "open"

\* The caller gets the running task's id, or an error.
Turned(c) ==
    /\ At(c, "loaded")
    /\ ~LaunchAllowed(CtrlOf[c], seen[c]) \/ GateTaken(c)
    /\ Leave(c)
    /\ UNCHANGED <<record, file, up, id, supervised, agent, result, stop>>

\* taskId(kind): the id carries the time, so a later one is greater.
Mint(c) == id' = [id EXCEPT ![c] = Cardinality({t \in Calls : id[t] # None}) + 1]

\* resumeDevelop and startReview reserve their gate and go on to await the
\* snapshot, the fetch and the prompt.
ReserveGate(c) ==
    /\ At(c, "loaded")
    /\ EntryOf[c] # "develop"
    /\ LaunchAllowed(CtrlOf[c], seen[c])
    /\ ~GateTaken(c)
    /\ Mint(c)
    /\ live' = [live EXCEPT ![c] = "open"]
    /\ exact' = [exact EXCEPT ![c] = c \in ExactSession]
    /\ Goto(c, "reserved")
    /\ UNCHANGED <<record, file, up, seen, aborted, job, agent, result, lease, stop>>

PrepareFails(c) ==
    /\ At(c, "reserved")
    /\ FinishTask(c)
    /\ Leave(c)
    /\ UNCHANGED <<record, file, up, id, agent, result, stop>>

\* A rate limit met while the comments of the pull request are read is
\* thrown through the caller, which leaves its live task as it is.
SnapshotThrows(c) ==
    /\ At(c, "reserved")
    /\ Leave(c)
    /\ UNCHANGED <<record, file, up, id, supervised, agent, result, stop>>

\* reserveHostTask finds a job of this workflow that has not ended.
HostBusy(c) == \E t \in Calls : Home(t) = Home(c) /\ job[t] = "active"

\* startDevelop: gate, live task and host job between two awaits.
StartDevelop(c) ==
    /\ At(c, "loaded")
    /\ EntryOf[c] = "develop"
    /\ LaunchAllowed(CtrlOf[c], seen[c])
    /\ Mint(c)
    /\ \/ /\ HostBusy(c)
          /\ live' = [live EXCEPT ![c] = "closed"]
          /\ Leave(c)
          /\ UNCHANGED job
       \/ /\ ~HostBusy(c)
          /\ live' = [live EXCEPT ![c] = "open"]
          /\ job' = [job EXCEPT ![c] = "active"]
          /\ Goto(c, "hosted")
          /\ UNCHANGED <<seen, exact, lease>>
    /\ UNCHANGED <<record, file, up, aborted, agent, result, stop>>

\* The reservation does not look whether the task was stopped meanwhile.
ReserveHost(c) ==
    /\ At(c, "reserved")
    /\ \/ /\ HostBusy(c)
          /\ FinishTask(c)
          /\ Leave(c)
       \/ /\ ~HostBusy(c)
          /\ job' = [job EXCEPT ![c] = "active"]
          /\ Goto(c, "hosted")
          /\ UNCHANGED <<live, aborted, seen, exact, lease>>
    /\ UNCHANGED <<record, file, up, id, agent, result, stop>>

ExpectationHolds(c) ==
    /\ CurrentTask(record) = CurrentTask(seen[c])
    /\ record.tsr = seen[c].tsr

\* Mutant: a loser is left as it is.
ClaimLostOpen(c) ==
    /\ At(c, "hosted")
    /\ Leave(c)
    /\ UNCHANGED <<record, file, up, id, supervised, agent, result, stop>>

\* establishTaskClaim: a loser ends before any agent is launched, and so does
\* a task whose claim throws.
ClaimLost(c) ==
    /\ At(c, "hosted")
    /\ FinishTask(c)
    /\ Leave(c)
    /\ UNCHANGED <<record, file, up, id, agent, result, stop>>

ClaimWon(c) ==
    /\ At(c, "hosted")
    /\ ExpectationHolds(c)
    /\ Commits(Claimed(record, KindOf(c), id[c]), TRUE)
    /\ lease' = [lease EXCEPT ![c] = record'.tsr]
    /\ Forget(c)
    /\ Goto(c, "claimed")
    /\ UNCHANGED <<file, up, id, exact, supervised, agent, result, stop>>

\* recoverUnsettledWrites follows the claim; its own write may throw, through
\* the caller, which leaves task and job as they are.
RecoveryThrows(c) ==
    /\ At(c, "claimed")
    /\ c \in Unsettled
    /\ Leave(c)
    /\ UNCHANGED <<record, file, up, id, supervised, agent, result, stop>>

\* settle has seen how the agent ended; the report follows.
Ends(c, r) ==
    /\ result' = [result EXCEPT ![c] = r]
    /\ exact' = [exact EXCEPT ![c] = FALSE]
    /\ Goto(c, "exiting")

\* Mutant: the previous result file stays.
ClearResultSkipped(c) ==
    /\ At(c, "claimed")
    /\ EntryOf[c] = "review"
    /\ Goto(c, "cleared")
    /\ UNCHANGED <<record, file, up, request, supervised, agent, result, lease, stop>>

\* A review removes the previous result file once it has claimed.
ClearResult(c) ==
    /\ At(c, "claimed")
    /\ EntryOf[c] = "review"
    /\ \/ /\ file' = None
          /\ Goto(c, "cleared")
          /\ UNCHANGED <<result, exact>>
       \/ Ends(c, "bad") /\ UNCHANGED file
    /\ UNCHANGED <<record, up, seen, id, supervised, agent, lease, stop>>

-----------------------------------------------------------------------------
(* attachAgentProcess: launch, settle, fall back, report, finish *)

Launchable(c) == live[c] = "open"

ReadyToLaunch(c) ==
    IF EntryOf[c] = "review" THEN At(c, "cleared") ELSE At(c, "claimed")

\* The shell starts the agent, or refuses to.
Starts(c) ==
    \/ /\ agent' = [agent EXCEPT ![c] = "alive"]
       /\ Goto(c, "running")
       /\ UNCHANGED <<result, exact>>
    \/ Ends(c, "bad") /\ UNCHANGED agent

Launch(c) ==
    /\ ReadyToLaunch(c)
    /\ \/ Launchable(c) /\ Starts(c) /\ UNCHANGED <<seen, lease>>
       \/ ~Launchable(c) /\ Leave(c) /\ UNCHANGED <<result, agent>>
    /\ UNCHANGED <<record, file, up, id, supervised, stop>>

\* The agent of a review leaves its verdict in the worktree.
AgentWrites(c) ==
    /\ agent[c] \in {"alive", "killed"}
    /\ EntryOf[c] = "review"
    /\ file' = id[c]
    /\ UNCHANGED <<record, up, pc, request, supervised, agent, result, lease, stop>>

AgentExits(c) ==
    /\ agent[c] \in {"alive", "killed"}
    /\ agent' = [agent EXCEPT ![c] = "exited"]
    /\ UNCHANGED <<record, file, up, pc, request, supervised, result, lease, stop>>

\* settle, when the last output is drained.
Settle(c) ==
    /\ At(c, "running")
    /\ agent[c] = "exited"
    /\ \/ ~aborted[c] /\ Ends(c, "ok")
       \/ Ends(c, "bad")
       \/ /\ ~aborted[c] /\ exact[c]
          /\ exact' = [exact EXCEPT ![c] = FALSE]
          /\ Goto(c, "fallback")
          /\ UNCHANGED result
    /\ UNCHANGED <<record, file, up, seen, id, supervised, agent, lease, stop>>

\* Mutant: a task is finished when it is told to stop.
SettleEarly(c) ==
    /\ At(c, "running")
    /\ agent[c] = "exited" \/ aborted[c]
    /\ FinishTask(c)
    /\ Leave(c)
    /\ UNCHANGED <<record, file, up, id, agent, result, stop>>

\* Mutant: the error of a failed drain skips the end of the task.
SettleFailsOpen(c) ==
    /\ At(c, "running")
    /\ agent[c] = "exited"
    /\ Leave(c)
    /\ UNCHANGED <<record, file, up, id, supervised, agent, result, stop>>

\* The drain fails: nothing is reported, the task just ends.
SettleFails(c) ==
    /\ At(c, "running")
    /\ agent[c] = "exited"
    /\ FinishTask(c)
    /\ Leave(c)
    /\ UNCHANGED <<record, file, up, id, agent, result, stop>>

\* The exact session was refused: its id is cleared through the lease.
ClearStaleSession(c) ==
    /\ At(c, "fallback")
    /\ \/ /\ HoldsLease(c)
          /\ Mutates(c, record, TRUE)
          /\ Goto(c, "relaunch")
          /\ UNCHANGED <<result, exact>>
       \/ Ends(c, "bad") /\ UNCHANGED <<record, lease>>
    /\ UNCHANGED <<file, up, seen, id, supervised, agent, stop>>

\* Mutant: a stop during the fallback is not looked for.
RelaunchUnchecked(c) ==
    /\ At(c, "relaunch")
    /\ Starts(c)
    /\ UNCHANGED <<record, file, up, seen, id, supervised, lease, stop>>

\* The fresh prompt is there, or could not be built.
Relaunch(c) ==
    /\ At(c, "relaunch")
    /\ \/ ~aborted[c] /\ Starts(c)
       \/ Ends(c, "bad") /\ UNCHANGED agent
    /\ UNCHANGED <<record, file, up, seen, id, supervised, lease, stop>>

\* onExit: finalizeDevRun reads the status after it has loaded the record, a
\* review decides with the status settle left.  It may throw: settle goes on.
OutcomesOf(c) ==
    IF KindOf(c) = "dev"
    THEN IF result[c] = "ok" /\ ~aborted[c] THEN {DevFinished(record)}
         ELSE {DevInterrupted(record)}
    ELSE IF result[c] = "ok"
         THEN {ReviewPasses(record), ReviewRejects(record), ReviewUnparsed(record)}
         ELSE {ReviewFailed(record)}

Report(c) ==
    /\ At(c, "exiting")
    /\ \/ \E next \in OutcomesOf(c) : Mutates(c, next, FALSE)
       \/ UNCHANGED <<record, lease>>
    /\ result' = [result EXCEPT ![c] = "none"]
    /\ Goto(c, "closing")
    /\ UNCHANGED <<file, up, request, supervised, agent, stop>>

Close(c) ==
    /\ At(c, "closing")
    /\ FinishTask(c)
    /\ Leave(c)
    /\ UNCHANGED <<record, file, up, id, agent, result, stop>>

-----------------------------------------------------------------------------
(* Stops, the timeout, and the death of a host *)

\* An open task: kill the agent it has started, or finish without one.
Cancel(c) ==
    /\ live[c] = "open"
    /\ IF agent[c] = "none" THEN FinishTask(c) /\ UNCHANGED agent
       ELSE /\ aborted' = [aborted EXCEPT ![c] = TRUE]
            /\ agent' = [agent EXCEPT ![c] = IF @ = "alive" THEN "killed" ELSE @]
            /\ UNCHANGED <<live, job>>

MayStop(c) == stop[c] = Nobody /\ Cardinality({t \in Calls : stop[t] # Nobody}) < MaxStops

\* stopTask where the live task is: it ends here before the record knows.
StopLocal(c) ==
    /\ Home(c) \in up
    /\ MayStop(c)
    /\ Cancel(c)
    /\ stop' = [stop EXCEPT ![c] = CtrlOf[c]]
    /\ UNCHANGED <<record, file, up, pc, request, result, lease>>

\* The user has checked that no job and no process of the task is left.
ConfirmedStopped(c) == job[c] # "active" /\ agent[c] \notin {"alive", "killed"}

\* stopTask of a task that is not live in controller k.
StopRemote(k, c) ==
    /\ HostOf[k] \in up
    /\ MayStop(c)
    /\ ~(CtrlOf[c] = k /\ live[c] = "open")
    /\ \/ /\ c \in SeenRunning(k, record)
          /\ IF live[c] = "open" THEN Cancel(c) ELSE UNCHANGED <<supervised, agent>>
       \/ /\ id[c] # None /\ id[c] = Expected(record)
          /\ \/ Ownership(k, record) = "interrupted"
             \/ Ownership(k, record) = "unknown" /\ ConfirmedStopped(c)
          /\ UNCHANGED <<supervised, agent>>
    /\ stop' = [stop EXCEPT ![c] = k]
    /\ UNCHANGED <<record, file, up, pc, request, result, lease>>

\* stopWorkflowTaskCommand, which may fail after the task was told to stop.
CommitStop(c) ==
    /\ stop[c] \in Controllers
    /\ HostOf[stop[c]] \in up
    /\ \/ Owns(record, id[c]) /\ Commits(Stopped(record, KindOf(c)), TRUE)
       \/ UNCHANGED record
    /\ stop' = [stop EXCEPT ![c] = Handled]
    /\ UNCHANGED <<file, up, pc, request, supervised, agent, result, lease>>

\* The user ends the job in the host's own view.
HostCancel(c) ==
    /\ job[c] = "active"
    /\ ~aborted[c]
    /\ Cancel(c)
    /\ UNCHANGED <<record, file, up, pc, request, result, lease, stop>>

\* Armed when the agent is attached.
Timeout(c) ==
    /\ agent[c] # "none"
    /\ ~aborted[c]
    /\ Cancel(c)
    /\ UNCHANGED <<record, file, up, pc, request, result, lease, stop>>

\* The host's controllers and registry are gone; agents may live on.
HostDies(h) ==
    /\ h \in MortalHosts \cap up
    /\ up' = up \ {h}
    /\ LET Left(f, value) == [c \in Calls |-> IF Home(c) = h THEN value ELSE f[c]] IN
          /\ pc' = Left(pc, "done")
          /\ seen' = Left(seen, Prepared)
          /\ live' = Left(live, "none")
          /\ aborted' = Left(aborted, FALSE)
          /\ job' = Left(job, "none")
          /\ exact' = Left(exact, FALSE)
          /\ result' = Left(result, "none")
          /\ lease' = Left(lease, 0)
    /\ UNCHANGED <<record, file, id, agent, stop>>

-----------------------------------------------------------------------------

Admission(c) == Load(c) \/ Turned(c) \/ ReserveGate(c) \/ StartDevelop(c)
Preparing(c) == PrepareFails(c) \/ SnapshotThrows(c) \/ ReserveHost(c)
Claim(c) == ClaimLost(c) \/ ClaimWon(c) \/ RecoveryThrows(c)
Supervise(c) ==
    \/ ClearResult(c) \/ Launch(c) \/ Settle(c) \/ SettleFails(c)
    \/ ClearStaleSession(c) \/ Relaunch(c) \/ Report(c) \/ Close(c)
Agent(c) == AgentWrites(c) \/ AgentExits(c)

Next ==
    \/ \E c \in Calls : \/ Admission(c) \/ Preparing(c) \/ Claim(c) \/ Supervise(c)
                        \/ Agent(c) \/ StopLocal(c) \/ CommitStop(c)
                        \/ HostCancel(c) \/ Timeout(c)
    \/ \E k \in Controllers, c \in Calls : StopRemote(k, c)
    \/ \E h \in Hosts : HostDies(h)

Spec == Init /\ [][Next]_vars

\* Handlers and callbacks run to their end, the timer of an agent goes off,
\* and a killed agent exits.
Fairness ==
    \A c \in Calls :
        /\ WF_vars(Preparing(c))
        /\ WF_vars(Claim(c))
        /\ WF_vars(Supervise(c))
        /\ WF_vars(Timeout(c))
        /\ WF_vars(agent[c] = "killed" /\ AgentExits(c))

FairSpec == Spec /\ Fairness

-----------------------------------------------------------------------------
(* Properties *)

\* Two agents of one workflow never work in its worktree at the same time
\* on one host, also while a stopped one has yet to exit.
OneAgentPerHost ==
    \A h \in up :
        Cardinality({c \in Calls : Home(c) = h /\ agent[c] \in {"alive", "killed"}}) <= 1

\* No matter how many hosts there are and which of them died, at most one
\* agent of a workflow has not been told to stop.
OneWorkingAgent == Cardinality({c \in Calls : agent[c] = "alive"}) <= 1

\* A job that ended is proof that its agent is gone: the gate launches the
\* next one on the strength of it.
EndedJobMeansDeadAgent ==
    \A c \in Calls : job[c] = "settled" => agent[c] \notin {"alive", "killed"}

\* An agent is started for the task the record names, through a lease that
\* still holds: never for one that was stopped or superseded meanwhile.
LaunchHoldsLease ==
    [][\A c \in Calls : agent[c] # "alive" /\ agent'[c] = "alive" => HoldsLease(c)]_vars

\* The file a review takes its verdict from was written in its own run.
VerdictFromOwnRun ==
    \A c \in Calls :
        pc[c] = "exiting" /\ KindOf(c) = "review" /\ result[c] = "ok" /\ HoldsLease(c)
            => file \in {None, id[c]}

\* What keeps a gate closed for good: a task without an agent whose recovery
\* of earlier writes threw, or one that was stopped while its prompt was being
\* prepared and got its host job afterwards.
Leaked(c) ==
    /\ agent[c] = "none"
    /\ IF live[c] = "open" THEN c \in Unsettled ELSE stop[c] # Nobody

\* While the host of the current task lives, its controllers can tell what
\* became of it, and what they see running still runs.  No failure after the
\* launch and no stop, timeout or cancellation of an agent leaves a gate
\* closed behind it; the two leaks, both before the launch, are the exception.
GateClosedForCause ==
    \A c \in Calls : \A k \in Controllers :
        Owns(record, id[c]) /\ HostOf[k] = Home(c) /\ Home(c) \in up
            => /\ Ownership(k, record) # "unknown"
               /\ \A t \in SeenRunning(k, record) : pc[t] # "done" \/ Leaked(t)

\* The recovery that follows the claim threw, and nobody has stopped the task.
Stranded(c) == c \in Unsettled /\ pc[c] = "done" /\ agent[c] = "none"

\* A job whose task is open comes to its end, whatever else fails, is stopped
\* or dies.  Only a recovery that throws strands it.
OpenJobsEnd ==
    \A c \in Calls : (job[c] = "active" /\ live[c] = "open") ~> (job[c] # "active" \/ Stranded(c))

\* A job the registry calls running has a task that runs.
ActiveJobMeansOpenTask == \A c \in Calls : job[c] = "active" => live[c] = "open"

\* A task that holds a gate lets go of it.
ReservationsEnd == \A c \in Calls : live[c] = "open" ~> live[c] # "open"
=============================================================================
