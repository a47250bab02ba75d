--------------------------- MODULE WorkflowRecord ---------------------------
(***************************************************************************)
(* The durable record of one Work Item (IssueWorkflow) and what each       *)
(* command of src/infra/workflow-persistence.ts makes of it.  Only the     *)
(* fields the lifecycle depends on are kept.  Task ids are numbers in the  *)
(* order they are minted: the id carries the time of its minting, and      *)
(* currentWorkflowTaskRef compares those.  The session fields are left     *)
(* out; that a command changed one shows in taskStateRevision only.        *)
(***************************************************************************)
EXTENDS Naturals

None == 0

Stage == {"idle", "developing", "review-ready", "reviewing", "passed"}
Kind == {"dev", "review"}
Preparation == {"none", "prepared", "dispatched", "settled", "verified", "blocked"}

Workflow(Event) ==
    [rev : Nat,             \* revision; 0 stands for "no file"
     tsr : Nat,             \* taskStateRevision
     stage : Stage,
     dev : Nat,             \* devTaskId, None or an id
     review : Nat,          \* reviewTaskId
     interrupted : BOOLEAN, \* devInterrupted
     verdict : {"none", "failed", "passed"},   \* reviewResult
     prep : Preparation,    \* preparation.status
     prepTsr : Nat,         \* preparation.taskStateRevision
     run : Nat,             \* autoRun.recoveryBudget.runId, None without one
     used : BOOLEAN,        \* autoRun.recoveryBudget.cooldownUsed
     halted : BOOLEAN,      \* autoRun.recoveryBudget.halted
     running : BOOLEAN,     \* autoRun.status = 'running'
     events : SUBSET Event]

Absent ==
    [rev |-> 0, tsr |-> 0, stage |-> "idle", dev |-> None, review |-> None,
     interrupted |-> FALSE, verdict |-> "none", prep |-> "none", prepTsr |-> 0,
     run |-> None, used |-> FALSE, halted |-> FALSE, running |-> FALSE,
     events |-> {}]

Exists(w) == w.rev > 0

Later(i, j) == IF i >= j THEN i ELSE j

\* The one persisted answer to which task owns the workflow.
CurrentTask(w) ==
    IF w.stage = "developing" /\ w.dev # None THEN w.dev
    ELSE IF w.stage = "reviewing" /\ w.review # None THEN w.review
    ELSE Later(w.dev, w.review)

Owns(w, id) == id # None /\ CurrentTask(w) = id

TaskStateChanged(w, next) ==
    \/ w.stage # next.stage
    \/ w.dev # next.dev
    \/ w.review # next.review
    \/ w.interrupted # next.interrupted
    \/ w.verdict # next.verdict

\* commit: "advance" is a forced advance, or a session field that changed.
Commit(w, next, advance) ==
    [next EXCEPT
        !.rev = w.rev + 1,
        !.tsr = IF ~Exists(w) THEN next.tsr
                ELSE IF advance \/ TaskStateChanged(w, next) THEN w.tsr + 1
                ELSE w.tsr]

-----------------------------------------------------------------------------
(* Claims and stops *)

PreparationSettled(w) ==
    w.prep = "none" \/ (w.prep = "verified" /\ w.prepTsr = w.tsr)

\* assertAutomaticRunAdmission; a manual action carries no run.
Admits(w, run) ==
    run # None => w.run = run /\ ~w.halted /\ w.running

Claimed(w, kind, id) ==
    IF kind = "dev"
    THEN [w EXCEPT !.prep = "none", !.prepTsr = 0, !.stage = "developing",
                   !.dev = id, !.interrupted = FALSE]
    ELSE [w EXCEPT !.prep = "none", !.prepTsr = 0, !.stage = "reviewing",
                   !.review = id]

Stopped(w, kind) ==
    IF kind = "dev"
    THEN [w EXCEPT !.stage = "developing", !.interrupted = TRUE]
    ELSE [w EXCEPT !.stage = "review-ready", !.verdict = "none"]

\* stopWorkflowPreparation: before any task exists, or between two of them.
PreparationStopped(w) ==
    [w EXCEPT !.interrupted = TRUE, !.running = FALSE,
              !.tsr = IF Exists(w) THEN w.tsr ELSE 1]

-----------------------------------------------------------------------------
(* What a task's callbacks write, through its lease *)

\* Mutant: a finished development keeps the verdict on the previous one.
DevFinishedUnjudged(w) == [w EXCEPT !.stage = "review-ready", !.interrupted = FALSE]

DevFinished(w) ==
    [w EXCEPT !.stage = "review-ready", !.interrupted = FALSE, !.verdict = "none"]

DevInterrupted(w) ==
    [w EXCEPT !.stage = "developing", !.interrupted = TRUE]

\* A review whose agent failed keeps an older verdict; an answer that cannot
\* be parsed clears it.
ReviewFailed(w) == [w EXCEPT !.stage = "review-ready"]
ReviewUnparsed(w) == [w EXCEPT !.stage = "review-ready", !.verdict = "none"]
ReviewRejects(w) == [w EXCEPT !.stage = "review-ready", !.verdict = "failed"]
ReviewPasses(w) == [w EXCEPT !.stage = "passed", !.verdict = "passed"]

Outcomes(w, kind) ==
    IF kind = "dev"
    THEN {DevFinished(w), DevInterrupted(w)}
    ELSE {ReviewFailed(w), ReviewUnparsed(w), ReviewRejects(w), ReviewPasses(w)}

-----------------------------------------------------------------------------
(* applyRecoveryControl *)

\* A new run: a new id, with its allowance untouched.
Authorized(w, run) ==
    [w EXCEPT !.run = run, !.used = FALSE, !.halted = FALSE, !.running = TRUE]

\* Without an authorization a run keeps its id, a used allowance stays used
\* and a halted run stays halted and does not run.
SameRun(w, next) ==
    /\ w.run # None
    /\ next.run = w.run
    /\ w.used => next.used
    /\ w.halted => next.halted /\ ~next.running
=============================================================================
