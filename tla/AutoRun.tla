-------------------------------- MODULE AutoRun --------------------------------
(***************************************************************************)
(* The controller of an automatic run (src/workflow/auto-run.ts,           *)
(* auto-run-recovery.ts, auto-run-pending.ts, infra/auto-run-scheduler.ts) *)
(* of one workflow on one host.  Signals - the user's start, the end of a  *)
(* task, a timer, the refresh of a panel - ask for a pass; one pass runs   *)
(* at a time and reads the record afresh at each of its steps, so that a   *)
(* new run may have been authorized in between.  A commit on the record    *)
(* is refused when anybody has committed since the pass loaded it.         *)
(*                                                                         *)
(* Errors are told apart by their stack: "a", "b", and the rate limit.     *)
(* The time is abstracted to the two questions the code asks: whether the  *)
(* deadline has passed, and whether the cooldown is over.  Every trouble   *)
(* (a store that fails, an unreadable file, a commit of somebody else, a   *)
(* failed observation or action, a restart) counts against one bound.      *)
(***************************************************************************)
EXTENDS Integers, NoValue

CONSTANTS
    FuseAt,      \* equal failures that blow the fuse: 3 in the code
    MaxStarts,   \* bound: runs the user authorizes
    MaxTroubles  \* bound: failures and foreign commits

ASSUME AutoAssumption ==
    FuseAt \in Nat \ {0} /\ MaxStarts \in Nat /\ MaxTroubles \in Nat

VARIABLES
    autorun,  \* the record's autoRun
    agent,    \* the ownership of the task the workflow names
    expired,  \* the deadline of the run has passed
    cool,     \* the cooldown after the fuse is over
    wake,     \* a wake timer is set
    alarm,    \* the deadline timer is set
    memo,     \* failureAttempts: the last failure of the controller
    again,    \* queued: a signal that came during a pass
    pass,     \* the pass under way
    notice,   \* the end of a task that is about to be signalled
    troubles, \* failures so far
    streak    \* history: equal failures in a row with nothing done in between

runvars == <<autorun, agent, expired, cool, wake, alarm, memo, again, pass, notice,
             troubles, streak>>

Errors == {"a", "b", "rate"}
Reasons == {"controller-error", "session-interrupted", "task-timeout", "budget-exhausted",
            "rejected"}
\* How a task ended, if the signal says so.
TaskResults == {None, "done", "failed", "timed_out"}
Failure(fp, cons) == [fp |-> fp, cons |-> cons]
Failures == [fp : Errors \cup {"barrier"}, cons : 0..FuseAt]
Recoveries == [kind : {"transient", "rate-limit", "fused"}, failure : Failures]
Fused(failure) == failure.cons = FuseAt

Budgets == [run : 0..MaxStarts, status : {"none", "running", "paused", "completed"},
            reason : Reasons \cup {None}, used : BOOLEAN, halted : BOOLEAN,
            recovery : Recoveries \cup {None}]
Commits == {"consume", "fuse", "pause", "pause or retry", "complete", "clear", "clear and go on",
            "defer", "halt", "fuse pause", "transient"}
Stops == {"idle", "read", "maintain", "reconcile", "enrich", "wait", "pause", "complete",
          "apply", "act", "clear", "clear and go on", "failed", "commit", "next"}
Writes == [kind : Commits, next : Budgets]

ASSUME NoneAssumption == None \notin Writes \cup Failures

\* A pass stands at a step with what it carries: the run it serves, the signal, the
\* argument of its step (a reason, an error or an action), and the commit it is about
\* to make.
Pass(at, run, end, arg) ==
    [at |-> at, run |-> run, end |-> end, arg |-> arg, write |-> None, stale |-> FALSE]
Idle == Pass("idle", 0, None, None)

AutoTypeOK ==
    /\ autorun \in Budgets
    /\ agent \in {"none", "running", "unknown", "interrupted"}
    /\ expired \in BOOLEAN /\ cool \in BOOLEAN /\ wake \in BOOLEAN /\ alarm \in BOOLEAN
    /\ memo \in Failures \cup {None}
    /\ again \in TaskResults \cup {"no"}
    /\ pass \in [at : Stops, run : 0..MaxStarts, end : TaskResults,
                 arg : Reasons \cup Errors \cup {"agent", "inline", "merge", None},
                 write : Writes \cup {None}, stale : BOOLEAN]
    /\ pass.at = "commit" <=> pass.write # None
    /\ pass.at = "idle" => pass = Idle /\ again = "no"
    /\ notice \in TaskResults
    /\ troubles \in 0..MaxTroubles
    /\ streak \in Failures
    /\ autorun.halted => autorun.used /\ autorun.status = "paused"

AutoInit ==
    /\ autorun = [run |-> 0, status |-> "none", reason |-> None, used |-> FALSE,
                  halted |-> FALSE, recovery |-> None]
    /\ agent = "none" /\ expired = FALSE /\ cool = TRUE
    /\ wake = FALSE /\ alarm = FALSE
    /\ memo = None /\ again = "no" /\ pass = Idle /\ notice = None
    /\ troubles = 0 /\ streak = Failure("a", 0)

-----------------------------------------------------------------------------
(* Signals *)

\* Ask for a pass: one that is under way will be followed by another.  What is known
\* of the end of a task is kept.
Request(end) ==
    IF pass.at = "idle" THEN pass' = Pass("read", 0, end, None) /\ UNCHANGED again
    ELSE /\ again' = IF end # None THEN end ELSE IF again = "no" THEN None ELSE again
         /\ UNCHANGED pass

\* startAutoRun: its commit names the run it replaces.  A pass under way finds its
\* copy outdated.
StartRun ==
    /\ autorun.run < MaxStarts /\ agent \in {"none", "interrupted"}
    /\ autorun' = [run |-> autorun.run + 1, status |-> "running", reason |-> None,
                   used |-> FALSE, halted |-> FALSE, recovery |-> None]
    /\ agent' = "none" /\ expired' = FALSE /\ cool' = TRUE
    /\ wake' = FALSE /\ alarm' = TRUE /\ memo' = None
    /\ IF pass.at = "idle" THEN Request(None)
       ELSE /\ pass' = [pass EXCEPT !.stale = TRUE]
            /\ again' = IF again = "no" THEN None ELSE again
    /\ streak' = Failure("a", 0)
    /\ UNCHANGED <<notice, troubles>>

\* The task ends, by itself, by its timeout, or because the user or an exhausted
\* budget has killed it.
TaskEnds ==
    /\ agent = "running" /\ notice = None
    /\ agent' = "none"
    /\ notice' \in TaskResults \ {None}
    /\ pass' = [pass EXCEPT !.stale = pass.at # "idle"]
    /\ UNCHANGED <<autorun, expired, cool, wake, alarm, memo, again, troubles, streak>>

Notify ==
    /\ notice # None /\ notice' = None
    /\ Request(notice)
    /\ UNCHANGED <<autorun, agent, expired, cool, wake, alarm, memo, troubles, streak>>

WakeFires ==
    /\ wake /\ wake' = FALSE
    /\ Request(None)
    /\ UNCHANGED <<autorun, agent, expired, cool, alarm, memo, notice, troubles, streak>>

AlarmFires ==
    /\ alarm /\ expired /\ alarm' = FALSE
    /\ Request(None)
    /\ UNCHANGED <<autorun, agent, expired, cool, wake, memo, notice, troubles, streak>>

\* Runs that the controller still answers for.
Open(budget) ==
    /\ ~budget.halted
    /\ \/ budget.status = "running"
       \/ budget.status = "paused" /\ budget.reason = "controller-error"

\* Mutant: a run without a task is taken for one that is starting.
OrphanedByTask == Open(autorun) /\ pass.at = "idle" /\ ~wake /\ agent # "none"

Orphaned == Open(autorun) /\ pass.at = "idle" /\ ~wake

\* pauseOrphanedAutoRuns, on a refresh of a panel.
Refresh ==
    /\ Orphaned
    /\ alarm' = TRUE
    /\ Request(IF agent = "interrupted" THEN "failed" ELSE None)
    /\ UNCHANGED <<autorun, agent, expired, cool, wake, memo, notice, troubles, streak>>

Expire ==
    /\ autorun.status # "none" /\ ~expired /\ expired' = TRUE
    /\ UNCHANGED <<autorun, agent, cool, wake, alarm, memo, again, pass, notice, troubles, streak>>

CoolDown ==
    /\ ~cool /\ cool' = TRUE
    /\ UNCHANGED <<autorun, agent, expired, wake, alarm, memo, again, pass, notice, troubles, streak>>

Trouble == troubles < MaxTroubles /\ troubles' = troubles + 1

\* Somebody else commits to the record: a task, a delivery, a panel.
SomebodyCommits ==
    /\ Trouble /\ pass.at = "commit"
    /\ pass' = [pass EXCEPT !.stale = TRUE]
    /\ UNCHANGED <<autorun, agent, expired, cool, wake, alarm, memo, again, notice, streak>>

\* Timers and memory are gone; the new process cannot see the old task, or has
\* proof of its end.
Restart ==
    /\ Trouble
    /\ wake' = FALSE /\ alarm' = FALSE /\ memo' = None /\ again' = "no" /\ pass' = Idle
    /\ notice' = None /\ streak' = Failure("a", 0)
    /\ agent' \in IF agent = "running" THEN {"unknown", "interrupted"} ELSE {agent}
    /\ UNCHANGED <<autorun, expired, cool>>

\* The task of another process turns out to be over.
AgentIsGone ==
    /\ agent = "unknown" /\ agent' = "interrupted"
    /\ UNCHANGED <<autorun, expired, cool, wake, alarm, memo, again, pass, notice, troubles, streak>>

-----------------------------------------------------------------------------
(* A pass *)

At(step) == pass.at = step
Turns(step, arg) == pass' = [pass EXCEPT !.at = step, !.arg = arg]
Prepares(kind, next) ==
    pass' = [pass EXCEPT !.at = "commit", !.write = [kind |-> kind, next |-> next], !.stale = FALSE]
Rests == UNCHANGED <<autorun, agent, expired, cool, notice>>
Timers == UNCHANGED <<wake, alarm>>
Memory == UNCHANGED <<memo, streak>>

\* The record as a pass of a given run finds it, still running for it.
Serves == autorun.status = "running" /\ autorun.run = pass.run /\ ~autorun.halted

Troubled(budget) == budget.status = "paused" /\ budget.reason = "controller-error"

\* The file may be unreadable: then the pass knows of no run and ends.
ReadRun ==
    /\ At("read")
    /\ \/ /\ pass' = [pass EXCEPT !.run = autorun.run,
                         !.at = IF Troubled(autorun) THEN "maintain" ELSE "reconcile"]
          /\ UNCHANGED troubles
       \/ Trouble /\ Turns("next", None)
    /\ Rests /\ Timers /\ Memory /\ UNCHANGED again

Paused(reason) == [autorun EXCEPT !.status = "paused", !.reason = reason]

\* maintainPausedAutoRun: the watchdog of a run that paused with an error.
Maintain ==
    /\ At("maintain")
    /\ IF autorun.run # pass.run \/ autorun.halted \/ ~Troubled(autorun) THEN Turns("next", None) /\ Timers
       ELSE IF expired THEN Prepares("pause or retry", Paused("budget-exhausted")) /\ Timers
       ELSE IF agent = "interrupted"
            THEN Prepares("pause or retry", Paused("session-interrupted")) /\ Timers
       ELSE IF agent = "unknown" \/ ~cool
            THEN Turns("next", None) /\ alarm' = TRUE /\ wake' = TRUE
       ELSE IF agent = "running" \/ autorun.used
            THEN Turns("next", None) /\ wake' = TRUE /\ UNCHANGED alarm
       ELSE /\ Prepares("consume", [autorun EXCEPT !.used = TRUE, !.status = "running",
                                                   !.reason = None, !.recovery = None])
            /\ Timers
    /\ Rests /\ Memory /\ UNCHANGED <<again, troubles>>

\* Mutant: a fuse whose pause could not be recorded is forgotten.
FusePendingForgotten == FALSE

\* enforcePendingControllerFuse: a fuse that is not yet on the record as a pause.
FusePending ==
    /\ autorun.recovery # None => autorun.recovery.kind # "rate-limit"
    /\ \/ memo # None /\ Fused(memo)
       \/ autorun.recovery # None /\ autorun.recovery.kind = "fused"

Halts(budget) == [budget EXCEPT !.halted = budget.used]

\* reconcileOnce, up to the observation.
Reconcile ==
    /\ At("reconcile")
    /\ IF ~Serves THEN Turns("next", None)
       ELSE IF expired THEN Turns("pause", "budget-exhausted")
       ELSE IF FusePending
            THEN Prepares("fuse", Halts([Paused("controller-error") EXCEPT !.recovery =
                    [kind |-> "fused", failure |-> IF memo # None /\ Fused(memo) THEN memo
                                                   ELSE autorun.recovery.failure]]))
       ELSE Turns("enrich", None)
    /\ Rests /\ Timers /\ Memory /\ UNCHANGED <<again, troubles>>

\* decideAutoRun: what the facts ask for.  While a task runs or may run they ask for
\* nothing.
Decisions ==
    IF expired THEN {<<"pause", "budget-exhausted">>}
    ELSE IF pass.end = "timed_out" THEN {<<"pause", "task-timeout">>}
    ELSE IF pass.end = "failed" THEN {<<"pause", "session-interrupted">>}
    ELSE {<<"wait", None>>, <<"complete", None>>} \cup
         IF agent \in {"running", "unknown"} THEN {}
         ELSE {<<"pause", "rejected">>, <<"apply", "agent">>, <<"apply", "inline">>,
               <<"apply", "merge">>}

\* The observation takes its time and may fail; the decision follows at once.
Enrich ==
    /\ At("enrich")
    /\ \/ \E d \in Decisions : Turns(d[1], d[2])
          /\ UNCHANGED troubles
       \/ Trouble /\ \E e \in Errors : Turns("failed", e)
    /\ Rests /\ Timers /\ Memory /\ UNCHANGED again

\* Mutant: whatever run there is now is paused or completed.
MineWhichever == TRUE

\* pauseAutoRun and completeAutoRun act for the run of the pass alone.
Mine == autorun.run = pass.run

Wait ==
    /\ At("wait") /\ Turns("next", None)
    /\ wake' = (wake \/ (autorun.status = "running" /\ Mine /\ ~expired))
    /\ Rests /\ Memory /\ UNCHANGED <<alarm, again, troubles>>

Pausable(reason) ==
    \/ autorun.status = "running"
    \/ /\ autorun.status = "paused" /\ autorun.reason = "controller-error"
       /\ reason \in {"budget-exhausted", "session-interrupted", "task-timeout"}

Pause ==
    /\ At("pause")
    /\ IF Mine /\ Pausable(pass.arg) THEN Prepares("pause", Paused(pass.arg))
                                     ELSE Turns("next", None)
    /\ Rests /\ Timers /\ Memory /\ UNCHANGED <<again, troubles>>

CompleteRun ==
    /\ At("complete")
    /\ IF Mine /\ autorun.status = "running"
       THEN Prepares("complete", [autorun EXCEPT !.status = "completed", !.reason = None,
                                                 !.recovery = None])
       ELSE Turns("next", None)
    /\ Rests /\ Timers /\ Memory /\ UNCHANGED <<again, troubles>>

Apply ==
    /\ At("apply")
    /\ Turns(IF Serves THEN "act" ELSE "next", IF Serves THEN pass.arg ELSE None)
    /\ Rests /\ Timers /\ Memory /\ UNCHANGED <<again, troubles>>

\* assertAutomaticRunAdmission, under the lock of the record.
Admits == Serves /\ ~expired

\* The action is admitted and done, or is not: its claim finds another task, it meets
\* a limit, a conflict or an error.  A merge completes the run with its own commit.
Act ==
    /\ At("act")
    /\ \/ /\ Admits /\ (pass.arg = "agent" => agent \in {"none", "interrupted"})
          /\ agent' = IF pass.arg = "agent" THEN "running" ELSE agent
          /\ autorun' = IF pass.arg = "merge"
                        THEN [autorun EXCEPT !.status = "completed", !.reason = None] ELSE autorun
          /\ Turns(IF pass.arg = "inline" THEN "clear and go on" ELSE "clear", None)
          /\ UNCHANGED <<again, troubles>>
       \/ /\ pass.arg = "inline" /\ Admits            \* the conflict is left for an agent
          /\ Turns("next", None) /\ again' = IF again = "no" THEN None ELSE again
          /\ UNCHANGED <<autorun, agent, troubles>>
       \/ /\ ~Admits /\ Turns("failed", "b")
          /\ UNCHANGED <<autorun, agent, again, troubles>>
       \/ /\ Trouble
          /\ \/ \E e \in Errors : Turns("failed", e)
             \/ pass.arg \in {"agent", "merge"} /\ Turns("pause", "rejected")
          /\ UNCHANGED <<autorun, agent, again>>
    /\ UNCHANGED <<expired, cool, notice>> /\ Timers /\ Memory

\* clearAutoRunControllerFailure.
Clear ==
    /\ pass.at \in {"clear", "clear and go on"}
    /\ memo' = IF Mine THEN None ELSE memo
    /\ streak' = IF Mine THEN Failure("a", 0) ELSE streak
    /\ IF Mine /\ autorun.recovery # None /\ autorun.status = "running"
       THEN Prepares(pass.at, [autorun EXCEPT !.recovery = None]) /\ UNCHANGED again
       ELSE /\ Turns("next", None)
            /\ again' = IF At("clear and go on") /\ again = "no" THEN None ELSE again
    /\ Rests /\ Timers /\ UNCHANGED troubles

-----------------------------------------------------------------------------
(* handleAutoRunControllerFailure *)

Previous == IF memo # None THEN memo
            ELSE IF autorun.recovery # None THEN autorun.recovery.failure ELSE Failure("barrier", 0)
Attempt(e) == Failure(e, IF Previous.fp # e THEN 1
                         ELSE IF Previous.cons < FuseAt THEN Previous.cons + 1 ELSE FuseAt)
Marked(kind, attempt) == [autorun EXCEPT !.recovery = [kind |-> kind, failure |-> attempt]]
Counted(e) == Failure(e, IF streak.fp # e THEN 1
                         ELSE IF streak.cons < FuseAt THEN streak.cons + 1 ELSE FuseAt)

\* The file cannot be read: try again soon.
FailureUnread ==
    /\ At("failed") /\ Trouble
    /\ Turns("next", None) /\ wake' = TRUE
    /\ Rests /\ Memory /\ UNCHANGED <<alarm, again>>

\* Failures while a task runs, or may run, never blow the fuse: they leave a barrier.
HandleFailure ==
    /\ At("failed")
    /\ LET e == pass.arg
           attempt == Attempt(e)
       IN \/ /\ autorun.status # "running" \/ ~Mine
             /\ Turns("next", None) /\ Timers /\ Memory
          \/ /\ autorun.status = "running" /\ Mine /\ expired
             /\ Prepares("pause or retry", Paused("budget-exhausted")) /\ Timers /\ Memory
          \/ /\ Serves /\ ~expired /\ e = "rate"
             /\ \/ /\ autorun.recovery # None /\ wake      \* within the window already awaited
                   /\ autorun.recovery.kind = "rate-limit"
                   /\ Turns("next", None) /\ Memory
                \/ /\ memo' = attempt /\ streak' = Failure("a", 0)
                   /\ Prepares("defer", Marked("rate-limit", attempt))
             /\ Timers
          \/ /\ Serves /\ ~expired /\ e # "rate"
             /\ IF agent \in {"running", "unknown"}
                THEN memo' = Failure("barrier", 0) /\ streak' = Failure("a", 0)
                ELSE memo' = attempt /\ streak' = Counted(e)
             /\ \/ /\ agent = "interrupted"
                   /\ Prepares("pause or retry", Paused("session-interrupted")) /\ Timers
                \/ /\ agent = "none" /\ Fused(attempt)
                   /\ IF autorun.used
                      THEN Prepares("halt", Halts(Paused("controller-error")))
                      ELSE Prepares("fuse pause", [Marked("fused", attempt) EXCEPT
                                        !.status = "paused", !.reason = "controller-error"])
                   /\ Timers
                \/ /\ agent = "none" /\ ~Fused(attempt)
                   /\ Prepares("transient", Marked("transient", attempt)) /\ Timers
                \/ /\ agent \in {"running", "unknown"}
                   /\ Turns("next", None) /\ wake' = TRUE /\ UNCHANGED alarm
    /\ Rests /\ UNCHANGED <<again, troubles>>

-----------------------------------------------------------------------------
(* The commits of a pass and what follows them *)

\* Timers after a commit, by its kind and whether it was taken.
Wakes(kind, taken) ==
    CASE kind \in {"pause", "complete", "pause or retry"} /\ taken -> FALSE
      [] kind \in {"halt", "transient"} -> (kind = "halt") # taken
      [] kind = "fuse" -> IF taken THEN ~pass.write.next.halted ELSE ~expired
      [] kind \in {"pause or retry", "defer", "fuse pause"} -> TRUE
      [] kind = "consume" -> wake \/ ~taken
      [] OTHER -> wake
Alarms(kind, taken) ==
    CASE kind \in {"pause", "complete", "pause or retry", "halt"} /\ taken -> FALSE
      [] kind = "transient" /\ ~taken -> FALSE
      [] kind = "fuse" -> alarm /\ (IF taken THEN ~pass.write.next.halted ELSE ~expired)
      [] kind = "fuse pause" \/ (kind = "consume" /\ taken) -> TRUE
      [] OTHER -> alarm

\* A pause or a completion that is not taken is thrown and handled as a failure.
Follows(kind, taken) ==
    IF kind = "consume" /\ taken THEN "reconcile"
    ELSE IF kind \in {"pause", "complete"} /\ ~taken THEN "failed"
    ELSE "next"

Committed(taken) ==
    LET kind == pass.write.kind
    IN /\ pass' = [pass EXCEPT !.at = Follows(kind, taken), !.write = None, !.stale = FALSE,
                               !.arg = IF Follows(kind, taken) = "failed" THEN "b" ELSE None]
       /\ wake' = Wakes(kind, taken) /\ alarm' = Alarms(kind, taken)
       /\ again' = IF kind = "clear and go on" /\ again = "no" THEN None ELSE again
       /\ memo' = IF taken /\ kind \in {"consume", "complete"} THEN None ELSE memo
       /\ cool' = (cool /\ ~(taken /\ kind \in {"fuse", "fuse pause"}))
       /\ streak' = IF taken /\ pass.write.next.status # "running" THEN Failure("a", 0) ELSE streak
       /\ UNCHANGED <<expired, notice>>

Current == ~pass.stale

CommitTaken ==
    /\ At("commit") /\ Current
    /\ autorun' = pass.write.next
    /\ Committed(TRUE) /\ UNCHANGED <<agent, troubles>>

CommitRefused ==
    /\ At("commit")
    /\ \/ ~Current /\ UNCHANGED troubles
       \/ Current /\ Trouble
    /\ Committed(FALSE) /\ UNCHANGED <<autorun, agent>>

\* The end of a pass: a signal that came meanwhile asks for another.
EndPass ==
    /\ At("next")
    /\ pass' = IF again = "no" THEN Idle ELSE Pass("read", 0, again, None)
    /\ again' = "no"
    /\ Rests /\ Timers /\ Memory /\ UNCHANGED troubles

PassStep ==
    \/ ReadRun \/ Maintain \/ Reconcile \/ Enrich \/ Wait \/ Pause \/ CompleteRun \/ Apply \/ Act
    \/ Clear \/ FailureUnread \/ HandleFailure \/ CommitTaken \/ CommitRefused \/ EndPass

AutoNext ==
    \/ StartRun \/ TaskEnds \/ Notify \/ WakeFires \/ AlarmFires \/ Refresh \/ Expire
    \/ CoolDown \/ SomebodyCommits \/ Restart \/ AgentIsGone \/ PassStep

AutoSpec == AutoInit /\ [][AutoNext]_runvars

\* A pass goes on, timers fire, and a panel that is open refreshes.
AutoFairness ==
    /\ WF_runvars(PassStep) /\ WF_runvars(WakeFires) /\ WF_runvars(AlarmFires)
    /\ WF_runvars(Notify) /\ WF_runvars(Refresh)

-----------------------------------------------------------------------------
(* Properties *)

\* What is done for a run that has been replaced changes nothing of the new one and
\* starts nothing: a captured run id is permission for that run only.
SupersededIsSilent ==
    pass.run # autorun.run =>
        /\ autorun' = autorun \/ autorun'.run > autorun.run
        /\ agent' = "running" => agent = "running"

\* A run that ended - completed, paused for a reason that needs a person, halted -
\* stays so until the user authorizes another.
EndIsFinal ==
    autorun.status # "none" /\ ~Open(autorun) /\ autorun'.run = autorun.run => autorun' = autorun

\* Both, of every step.
RunsStayApart == [][SupersededIsSilent /\ EndIsFinal]_runvars

\* After equal failures have blown the fuse no action is taken before the pause is on
\* the record, unless the record still speaks of a rate limit.
FuseHolds ==
    /\ AutoTypeOK
    /\ pass.at = "act" /\ Fused(streak) =>
           autorun.recovery # None /\ autorun.recovery.kind = "rate-limit"

\* The same without the exception: "a failed fuse checkpoint must be repaired before
\* the controller admits another action" (auto-run-pending.ts:1).
FuseAlwaysHolds == pass.at = "act" => ~Fused(streak)

\* When the deadline has passed, the run ends.
BudgetEnds ==
    \A r \in 1..MaxStarts :
        (autorun.run = r /\ expired /\ Open(autorun)) ~> (autorun.run # r \/ ~Open(autorun))

\* A running run whose process lives is never left without a timer, a signal or a
\* pass ("a deadline timer stops a live task and persists budget-exhausted even when
\* no browser is open", docs/plans/2026-08-23-auto-run-controller-design.md:31).
DeadlineArmed == autorun.status = "running" => alarm \/ wake \/ pass.at # "idle" \/ notice # None
=============================================================================
