---------------------------- MODULE WorkflowStore ----------------------------
(***************************************************************************)
(* The command domain of one workflow record: src/infra/workflow-          *)
(* persistence.ts and the commands built on it.  A command holds the       *)
(* record's queue and lock (LinkLock, as Mutex) from its read to its       *)
(* write, so it is one step here.  What a caller read before its command   *)
(* is kept in "seen": between the two steps any other command may run.     *)
(*                                                                         *)
(* A start is one call of startDevelop, resumeDevelop or startReview, up   *)
(* to the last callback of the task it launches.  Whether a start may go   *)
(* on is also decided by the ownership gate (task-ownership.ts), which is  *)
(* not modelled here: the store's promises do not rest on it.              *)
(***************************************************************************)
EXTENDS WorkflowRecord

CONSTANTS
    Starts,      \* calls that may become tasks
    KindOf,      \* the kind of task a start makes
    Writers,     \* callers of appendEvent and other metadata patches
    Controllers, \* auto-run controllers, stop and preparation requests
    MaxRev,      \* bound: commits in one behaviour
    MaxRuns      \* bound: automatic runs authorized in one behaviour

Clients == Starts \cup Writers \cup Controllers

ASSUME StoreAssumption ==
    /\ KindOf \in [Starts -> Kind]
    /\ Starts \cap Writers = {}
    /\ Starts \cap Controllers = {}
    /\ Writers \cap Controllers = {}
    /\ MaxRev \in Nat
    /\ MaxRuns \in Nat

VARIABLES
    record,     \* the workflow file
    minted,     \* the newest task id
    runs,       \* the newest run id
    pc,         \* where a client is
    seen,       \* the record a client works from, Absent when it has none
    expect,     \* the WorkflowTaskExpectation a start froze, and the
                \* revision it claims with
    runOf,      \* the automatic run a start acts for, None when manual
    id,         \* the task id of a start
    lease,      \* taskStateRevision of a start's lease, 0 without one
    lastWriter, \* history: the task that made the last lifecycle change,
                \* None when it was a stop
    lastClaim,  \* history: the task that claimed last
    revoked,    \* history: tasks that were stopped or superseded
    judge,      \* history: the review that gave the verdict
    delivered,  \* history: the newest development that finished
    grants      \* history: cooldowns granted to each run

vars == <<record, minted, runs, pc, seen, expect, runOf, id, lease,
          lastWriter, lastClaim, revoked, judge, delivered, grants>>
caller == <<minted, runs, expect, runOf, id>>
verdicts == <<judge, delivered>>
tasks == <<lease, lastWriter, lastClaim, revoked>>

Label == {"idle", "frozen", "minted", "owner", "loaded", "done"}
Event == Writers \cup Starts
Expectation == [task : Nat, tsr : Nat, rev : Nat]
NoExpectation == [task |-> None, tsr |-> 0, rev |-> 0]

TypeOK ==
    /\ record \in Workflow(Event)
    /\ minted \in Nat
    /\ runs \in Nat
    /\ pc \in [Clients -> Label]
    /\ seen \in [Clients -> Workflow(Event)]
    /\ expect \in [Starts -> Expectation]
    /\ runOf \in [Starts -> Nat]
    /\ id \in [Starts -> Nat]
    /\ lease \in [Starts -> Nat]
    /\ lastWriter \in Nat
    /\ lastClaim \in Nat
    /\ revoked \in SUBSET Nat
    /\ judge \in Nat
    /\ delivered \in Nat
    /\ grants \in [1..MaxRuns -> Nat]

Init ==
    /\ record = Absent
    /\ minted = 0
    /\ runs = 0
    /\ pc = [c \in Clients |-> "idle"]
    /\ seen = [c \in Clients |-> Absent]
    /\ expect = [s \in Starts |-> NoExpectation]
    /\ runOf = [s \in Starts |-> None]
    /\ id = [s \in Starts |-> None]
    /\ lease = [s \in Starts |-> 0]
    /\ lastWriter = None
    /\ lastClaim = None
    /\ revoked = {}
    /\ judge = None
    /\ delivered = None
    /\ grants = [r \in 1..MaxRuns |-> 0]

Goto(c, l) == pc' = [pc EXCEPT ![c] = l]

Forget(c) == seen' = [seen EXCEPT ![c] = Absent]

\* loadWorkflow: read the file without its lock.
Read(c) == seen' = [seen EXCEPT ![c] = record]

\* Mutant: a command does not compare the revision.
FreshUnchecked(c) == TRUE

\* The revision a command expects is the one it finds: nobody wrote since
\* its caller read.
Fresh(c) == record.rev = seen[c].rev

Write(next, advance) ==
    /\ record.rev < MaxRev
    /\ record' = Commit(record, next, advance)

-----------------------------------------------------------------------------
(* Starting a task *)

Expecting(s, e) == expect' = [expect EXCEPT ![s] = e]

\* The gate is passed: freeze what the claim will expect to find.
Freeze(s) ==
    /\ pc[s] = "idle"
    /\ Exists(record)
    /\ Expecting(s, [task |-> CurrentTask(record), tsr |-> record.tsr, rev |-> record.rev])
    /\ \E r \in 0..record.run : runOf' = [runOf EXCEPT ![s] = r]
    /\ Goto(s, "frozen")
    /\ UNCHANGED <<record, minted, runs, seen, id, tasks, verdicts, grants>>

\* taskId(kind): the id carries the time, so a later one is greater.
Mint(s) ==
    /\ pc[s] = "frozen"
    /\ minted' = minted + 1
    /\ id' = [id EXCEPT ![s] = minted + 1]
    /\ Goto(s, "minted")
    /\ UNCHANGED <<record, runs, seen, expect, runOf, tasks, verdicts, grants>>

\* Mutant: a claim that meets another task's record takes it as it is.
ExpectationRefreshed(s) == Exists(record)

ExpectationHolds(s) ==
    /\ Exists(record)
    /\ CurrentTask(record) = expect[s].task
    /\ record.tsr = expect[s].tsr

\* ownership-lost, a run that no longer admits, or an unsettled worktree.
ClaimRefused(s) ==
    /\ pc[s] = "minted"
    /\ \/ ~ExpectationHolds(s)
       \/ record.rev = expect[s].rev /\ ~(Admits(record, runOf[s]) /\ PreparationSettled(record))
    /\ Goto(s, "done")
    /\ Expecting(s, NoExpectation)
    /\ UNCHANGED <<record, minted, runs, seen, runOf, id, tasks, verdicts, grants>>

\* revision-conflict: establishTaskClaim tries again with the new revision.
ClaimRetries(s) ==
    /\ pc[s] = "minted"
    /\ ExpectationHolds(s)
    /\ record.rev # expect[s].rev
    /\ Expecting(s, [expect[s] EXCEPT !.rev = record.rev])
    /\ UNCHANGED <<record, minted, runs, pc, seen, runOf, id, tasks, verdicts, grants>>

ClaimCommits(s) ==
    /\ pc[s] = "minted"
    /\ ExpectationHolds(s)
    /\ record.rev = expect[s].rev
    /\ Admits(record, runOf[s])
    /\ PreparationSettled(record)
    /\ Write(Claimed(record, KindOf[s], id[s]), TRUE)
    /\ lease' = [lease EXCEPT ![s] = record.tsr + 1]
    /\ lastWriter' = id[s]
    /\ lastClaim' = id[s]
    /\ revoked' = revoked \cup {lastClaim}
    /\ Goto(s, "owner")
    /\ Expecting(s, NoExpectation)
    /\ UNCHANGED <<minted, runs, seen, runOf, id, verdicts, grants>>

-----------------------------------------------------------------------------
(* mutateWorkflowForTask: the callbacks of a task *)

LoadForTask(s) ==
    /\ pc[s] = "owner"
    /\ Read(s)
    /\ Goto(s, "loaded")
    /\ UNCHANGED <<record, caller, tasks, verdicts, grants>>

\* Mutant: the task id alone is the capability.
HoldsTaskId(s) == Owns(record, id[s])

HoldsLease(s) == Owns(record, id[s]) /\ record.tsr = lease[s]

MutationLost(s) ==
    /\ s \in Starts
    /\ pc[s] = "loaded"
    /\ ~HoldsLease(s)
    /\ Goto(s, "owner")
    /\ Forget(s)
    /\ UNCHANGED <<record, caller, tasks, verdicts, grants>>

MutationRetries(s) ==
    /\ s \in Starts
    /\ pc[s] = "loaded"
    /\ HoldsLease(s)
    /\ ~Fresh(s)
    /\ Read(s)
    /\ UNCHANGED <<record, pc, caller, tasks, verdicts, grants>>

\* The record read before the command is written back, mutated: an outcome
\* of the run, or a note (an event, a publication, a session id).
MutationCommits(s) ==
    /\ s \in Starts
    /\ pc[s] = "loaded"
    /\ HoldsLease(s)
    /\ Fresh(s)
    /\ \E next \in Outcomes(seen[s], KindOf[s]) \cup {seen[s]}, advance \in BOOLEAN :
          /\ Write([next EXCEPT !.events = @ \cup {s}], advance)
          /\ lastWriter' = IF record'.tsr = record.tsr THEN lastWriter ELSE id[s]
          /\ judge' = IF next.verdict = "none" THEN None
                      ELSE IF KindOf[s] = "review" /\ next \notin {seen[s], ReviewFailed(seen[s])}
                      THEN id[s]
                      ELSE judge
          /\ delivered' = IF next = DevFinished(seen[s]) /\ KindOf[s] = "dev"
                          THEN id[s] ELSE delivered
    /\ lease' = [lease EXCEPT ![s] = record'.tsr]
    /\ Goto(s, "owner")
    /\ Forget(s)
    /\ UNCHANGED <<caller, lastClaim, revoked, grants>>

\* The process of a start dies: its lease and what it read are gone.
Crash(s) ==
    /\ pc[s] \notin {"idle", "done"}
    /\ Goto(s, "done")
    /\ Forget(s)
    /\ Expecting(s, NoExpectation)
    /\ lease' = [lease EXCEPT ![s] = 0]
    /\ UNCHANGED <<record, minted, runs, runOf, id, lastWriter, lastClaim, revoked, verdicts, grants>>

-----------------------------------------------------------------------------
(* Stops *)

\* stopWorkflowTask names the task, whatever revision its caller has seen.
StopTask(s) ==
    /\ Owns(record, id[s])
    /\ Write(Stopped(record, KindOf[s]), TRUE)
    /\ lastWriter' = None
    /\ revoked' = revoked \cup {id[s]}
    /\ judge' = IF KindOf[s] = "review" THEN None ELSE judge
    /\ UNCHANGED <<pc, seen, caller, lease, lastClaim, delivered, grants>>

-----------------------------------------------------------------------------
(* Metadata writers: load, then commit a patch with the loaded revision *)

Load(c) ==
    /\ c \in Writers \cup Controllers
    /\ pc[c] = "idle"
    /\ Read(c)
    /\ Goto(c, "loaded")
    /\ UNCHANGED <<record, caller, tasks, verdicts, grants>>

\* A patch replaces the whole event list, and may pause the automatic run.
CommitMetadata(w) ==
    /\ w \in Writers
    /\ pc[w] = "loaded"
    /\ \/ /\ ~Fresh(w)
          /\ UNCHANGED record
       \/ /\ Fresh(w)
          /\ \E running \in {FALSE, seen[w].running} :
                Write([record EXCEPT !.events = seen[w].events \cup {w},
                                     !.running = running], FALSE)
    /\ Goto(w, "done")
    /\ Forget(w)
    /\ UNCHANGED <<caller, tasks, verdicts, grants>>

-----------------------------------------------------------------------------
(* Controllers: commitRecoveryControl, and the two preparation commands *)

Ready(c) == c \in Controllers /\ pc[c] = "loaded"

\* A command of a controller that found another revision throws.
ControlConflicts(c) ==
    /\ Ready(c)
    /\ ~Fresh(c)
    /\ Goto(c, "idle")
    /\ Forget(c)
    /\ UNCHANGED <<record, caller, tasks, verdicts, grants>>

\* startAutoRun: the user authorizes a new run.
AuthorizeRun(c) ==
    /\ Ready(c)
    /\ Exists(record) /\ Fresh(c)
    /\ runs < MaxRuns
    /\ runs' = runs + 1
    /\ Write(Authorized(record, runs + 1), FALSE)
    /\ Goto(c, "idle")
    /\ Forget(c)
    /\ UNCHANGED <<minted, expect, runOf, id, tasks, verdicts, grants>>

\* Mutant: an observed failure resumes its run as an ordinary patch: nothing
\* is asked of the allowance, neither of the copy nor inside the command.
ConsumeUnguarded(c) ==
    /\ Ready(c)
    /\ seen[c].run # None
    /\ Exists(record) /\ Fresh(c)
    /\ Write([record EXCEPT !.used = TRUE, !.running = TRUE], FALSE)
    /\ grants' = [grants EXCEPT ![seen[c].run] = IF seen[c].used THEN @ ELSE @ + 1]
    /\ Goto(c, "idle")
    /\ Forget(c)
    /\ UNCHANGED <<caller, tasks, verdicts>>

\* consumeRecoveryCooldown checks and changes what it loaded.
ConsumeCooldown(c) ==
    /\ Ready(c)
    /\ seen[c].run # None /\ ~seen[c].used /\ ~seen[c].halted
    /\ LET next == [record EXCEPT !.used = TRUE, !.running = TRUE] IN
          /\ Exists(record) /\ Fresh(c)
          /\ record.run = seen[c].run /\ SameRun(record, next)
          /\ Write(next, FALSE)
    /\ grants' = [grants EXCEPT ![seen[c].run] = @ + 1]
    /\ Goto(c, "idle")
    /\ Forget(c)
    /\ UNCHANGED <<caller, tasks, verdicts>>

\* haltRepeatedFailure and persistControllerFuse: pause, and halt the run
\* whose cooldown was used.
Fuse(c) ==
    /\ Ready(c)
    /\ seen[c].run # None
    /\ LET next == [record EXCEPT !.halted = seen[c].halted \/ seen[c].used,
                                  !.running = FALSE] IN
          /\ Exists(record) /\ Fresh(c)
          /\ record.run = seen[c].run /\ SameRun(record, next)
          /\ Write(next, FALSE)
    /\ Goto(c, "idle")
    /\ Forget(c)
    /\ UNCHANGED <<caller, tasks, verdicts, grants>>

\* stopWorkflowPreparation compares the taskStateRevision, not the revision.
StopPreparation(c) ==
    /\ Ready(c)
    /\ record.tsr = seen[c].tsr
    /\ Write(PreparationStopped(record), TRUE)
    /\ lastWriter' = None
    /\ revoked' = revoked \cup {lastClaim}
    /\ Goto(c, "idle")
    /\ Forget(c)
    /\ UNCHANGED <<caller, lease, lastClaim, verdicts, grants>>

\* ensureWorktree: one transaction commits these states in order and holds
\* the lock between them, so its outcome is one of them, reached or left by
\* a failure.  An interrupted record needs an authorization of this revision.
Prepare(c) ==
    /\ Ready(c)
    /\ record.interrupted => seen[c].tsr = record.tsr
    /\ record.prep \in {"none", "prepared", "settled", "verified"}
    /\ record.prep # "none" => record.prepTsr = record.tsr \/ seen[c].tsr = record.tsr
    /\ \E status \in Preparation \ {"none"} :
          Write([record EXCEPT !.prep = status, !.prepTsr = record.tsr], FALSE)
    /\ Goto(c, "idle")
    /\ Forget(c)
    /\ UNCHANGED <<caller, tasks, verdicts, grants>>

-----------------------------------------------------------------------------

Claim(s) == ClaimRefused(s) \/ ClaimRetries(s) \/ ClaimCommits(s)

Mutate(s) == LoadForTask(s) \/ MutationLost(s) \/ MutationRetries(s) \/ MutationCommits(s)

Control(c) == \/ ControlConflicts(c) \/ AuthorizeRun(c) \/ ConsumeCooldown(c)
              \/ Fuse(c) \/ StopPreparation(c) \/ Prepare(c)

Next ==
    \/ \E s \in Starts : Freeze(s) \/ Mint(s) \/ Claim(s) \/ Mutate(s) \/ StopTask(s) \/ Crash(s)
    \/ \E c \in Writers \cup Controllers : Load(c)
    \/ \E w \in Writers : CommitMetadata(w)
    \/ \E c \in Controllers : Control(c)

Spec == Init /\ [][Next]_vars

-----------------------------------------------------------------------------
(* Properties *)

\* A start whose lease still matches the record is the one that made the
\* last lifecycle change: no two callers can both write next.
LeaseNamesLastWriter ==
    \A s \in Starts : lease[s] # 0 /\ record.tsr = lease[s] => lastWriter = id[s]

\* The task the record names as current is the last one that claimed, also
\* after its stage has moved on and only the times in the ids decide.
CurrentIsLastClaim == CurrentTask(record) = lastClaim

\* A stop and a successor's claim are final: the task they revoked commits
\* nothing more, however late its callbacks come.
RevokedNeverCommits ==
    [][\A s \in Starts : id[s] \in revoked => ~MutationCommits(s)]_vars

\* No committed event of the timeline is lost to a writer that had read an
\* older record.
EventsKept == [][record.events \subseteq record'.events]_vars

\* A verdict is given by a review that claimed after the newest development
\* that finished: never by one that was superseded meanwhile.
VerdictIsFresh ==
    record.verdict # "none" => judge > delivered

\* A workflow whose stage says "passed" carries the verdict that passed it,
\* and the review that gave it is the last task that claimed.
PassedHasVerdict ==
    record.stage = "passed" => record.verdict = "passed" /\ judge = lastClaim

\* A run is granted its one cooldown at most once, whoever asks for it.
OneCooldownPerRun == \A r \in 1..MaxRuns : grants[r] <= 1

\* A halted run never runs again; only a new authorization does.
HaltIsFinal ==
    [][record.halted /\ record'.run = record.run => record'.halted /\ ~record'.running]_vars
=============================================================================
