------------------------------ MODULE AutoRunProofs ------------------------------
(***************************************************************************)
(* Theorems about what drives agents unattended: AutoRun, and below it     *)
(* Assessments.                                                            *)
(*                                                                         *)
(* AutoRun, for any fuse, number of runs and of troubles.  The argument is *)
(* what a pass may do in the name of its run: from the reconciliation on,  *)
(* a run that it still serves is open, and a commit that can be taken is   *)
(* one of the run that is on the record.                                   *)
(***************************************************************************)
EXTENDS AutoRun, Assessments, TLAPS

Arguments == Reasons \cup Errors \cup {"agent", "inline", "merge", None}
Passes == [at : Stops, run : 0..MaxStarts, end : TaskResults, arg : Arguments,
           write : Writes \cup {None}, stale : BOOLEAN]

\* The steps that act for the run of the pass.
Serving == {"enrich", "wait", "pause", "complete", "apply", "act", "failed"}

\* Whatever is neither the record nor the pass.
OthersTyped ==
    /\ agent \in {"none", "running", "unknown", "interrupted"}
    /\ expired \in BOOLEAN /\ cool \in BOOLEAN /\ wake \in BOOLEAN /\ alarm \in BOOLEAN
    /\ memo \in Failures \cup {None}
    /\ again \in TaskResults \cup {"no"}
    /\ notice \in TaskResults
    /\ troubles \in 0..MaxTroubles
    /\ streak \in Failures

HaltIsPause(budget) == budget.halted => budget.used /\ budget.status = "paused"

PassTyped ==
    /\ pass \in Passes
    /\ pass.at = "commit" <=> pass.write # None
    /\ pass.at = "idle" => pass = Idle /\ again = "no"
    /\ pass.at = "failed" => pass.arg \in Errors
    /\ pass.at = "pause" => pass.arg \in Reasons

\* The run of a pass is the one on the record or an earlier one; for the one on the
\* record it acts only while that is open, and it commits for no other.
PassServes ==
    /\ pass.run <= autorun.run
    /\ pass.at \in Serving /\ Mine => Open(autorun)
    /\ pass.at = "commit" =>
          /\ ~pass.stale => Mine
          /\ Mine => Open(autorun) /\ pass.write.next.run = autorun.run
          /\ HaltIsPause(pass.write.next)

AutoInv ==
    /\ autorun \in Budgets /\ HaltIsPause(autorun)
    /\ OthersTyped /\ PassTyped /\ PassServes

-----------------------------------------------------------------------------

LEMMA PassFacts ==
    ASSUME NEW at \in Stops, NEW run \in 0..MaxStarts, NEW end \in TaskResults,
           NEW arg \in Arguments
    PROVE  /\ Pass(at, run, end, arg) \in Passes
           /\ Pass(at, run, end, arg).at = at /\ Pass(at, run, end, arg).run = run
           /\ Pass(at, run, end, arg).write = None /\ Pass(at, run, end, arg).arg = arg
BY DEF Pass, Passes

LEMMA IdleFacts ==
    Idle \in Passes /\ Idle.at = "idle" /\ Idle.run = 0 /\ Idle.write = None
<1>1. "idle" \in Stops /\ 0 \in 0..MaxStarts /\ None \in TaskResults /\ None \in Arguments
  BY AutoAssumption DEF Stops, TaskResults, Arguments
<1>2. QED
  BY <1>1, PassFacts DEF Idle

\* A pass that begins serves no run yet.
LEMMA BegunFacts ==
    ASSUME NEW end \in TaskResults
    PROVE  /\ Pass("read", 0, end, None) \in Passes
           /\ Pass("read", 0, end, None).at = "read" /\ Pass("read", 0, end, None).run = 0
           /\ Pass("read", 0, end, None).write = None
<1>1. "read" \in Stops /\ 0 \in 0..MaxStarts /\ None \in Arguments
  BY AutoAssumption DEF Stops, Arguments
<1>2. QED
  BY <1>1, PassFacts

LEMMA FailureFacts ==
    ASSUME NEW fp \in Errors \cup {"barrier"}, NEW cons \in 0..FuseAt
    PROVE  /\ Failure(fp, cons) \in Failures
           /\ Failure(fp, cons).fp = fp /\ Failure(fp, cons).cons = cons
BY DEF Failure, Failures

LEMMA NoFailure == Failure("a", 0) \in Failures
BY AutoAssumption, FailureFacts DEF Errors

LEMMA AutoInitial == AutoInit => AutoInv
<1> SUFFICES ASSUME AutoInit PROVE AutoInv
  OBVIOUS
<1> USE AutoAssumption DEF AutoInit
<1>1. autorun \in Budgets /\ HaltIsPause(autorun) /\ autorun.run = 0
  BY DEF Budgets, HaltIsPause
<1>2. OthersTyped
  <2>1. streak \in Failures /\ troubles \in 0..MaxTroubles
    BY NoFailure
  <2>2. /\ agent \in {"none", "running", "unknown", "interrupted"}
        /\ memo \in Failures \cup {None}
        /\ again \in TaskResults \cup {"no"} /\ notice \in TaskResults
    BY DEF TaskResults
  <2>3. expired \in BOOLEAN /\ cool \in BOOLEAN /\ wake \in BOOLEAN /\ alarm \in BOOLEAN
    BY Zenon
  <2>4. QED
    BY <2>1, <2>2, <2>3 DEF OthersTyped
<1>3. PassTyped
  BY IdleFacts DEF PassTyped
<1>4. PassServes
  BY <1>1, IdleFacts DEF PassServes, Serving
<1>5. QED
  BY <1>1, <1>2, <1>3, <1>4 DEF AutoInv

-----------------------------------------------------------------------------
(* How the pass and the record move *)


\* Somebody asks for a pass: one that is under way is not disturbed.
LEMMA RequestKeeps ==
    ASSUME AutoInv, NEW end \in TaskResults, Request(end), autorun' = autorun
    PROVE  PassTyped' /\ PassServes' /\ again' \in TaskResults \cup {"no"}
<1>1. CASE pass.at = "idle"
  <2>1. pass' = Pass("read", 0, end, None) /\ again' = again
    BY <1>1 DEF Request
  <2>2. PassTyped' /\ again' \in TaskResults \cup {"no"}
    BY <2>1, BegunFacts DEF AutoInv, OthersTyped, PassTyped
  <2>3. autorun.run \in 0..MaxStarts
    BY DEF AutoInv, Budgets
  <2>4. PassServes'
    BY <2>1, <2>3, BegunFacts, AutoAssumption DEF PassServes, Serving
  <2>5. QED
    BY <2>2, <2>4
<1>2. CASE pass.at # "idle"
  <2>1. pass' = pass /\ again' \in TaskResults \cup {"no"}
    BY <1>2 DEF Request, AutoInv, OthersTyped, TaskResults
  <2>2. QED
    BY <1>2, <2>1 DEF AutoInv, PassTyped, PassServes, Mine, Open, HaltIsPause
<1>3. QED
  BY <1>1, <1>2

\* Nothing is committed and the pass does not move.
LEMMA PassStays ==
    ASSUME AutoInv, UNCHANGED <<autorun, pass, again>>
    PROVE  PassTyped' /\ PassServes'
BY DEF AutoInv, PassTyped, PassServes, Mine, Open, HaltIsPause

\* The copy of the pass becomes outdated, and nothing else changes.
LEMMA OutdatedKeeps ==
    ASSUME AutoInv, NEW outdated \in BOOLEAN, pass.at # "idle" \/ ~outdated,
           pass' = [pass EXCEPT !.stale = outdated], pass.stale => outdated \/ pass.at # "commit",
           UNCHANGED <<autorun, again>>
    PROVE  PassTyped' /\ PassServes'
<1>1. /\ pass' \in Passes /\ pass'.at = pass.at /\ pass'.run = pass.run
      /\ pass'.arg = pass.arg /\ pass'.write = pass.write /\ pass'.stale = outdated
  BY DEF AutoInv, PassTyped, Passes
<1>2. pass.at = "idle" => pass' = pass
  <2>1. Idle.stale = FALSE
    BY DEF Idle, Pass
  <2>2. CASE pass.at = "idle"
    BY <2>1, <2>2 DEF AutoInv, PassTyped, Passes
  <2>3. QED
    BY <2>2
<1>3. PassTyped'
  BY <1>1, <1>2 DEF AutoInv, PassTyped
<1>4. PassServes'
  BY <1>1 DEF AutoInv, PassServes, Mine, Open, HaltIsPause
<1>5. QED
  BY <1>3, <1>4

\* A pass goes on to its next step.
LEMMA TurnsKeeps ==
    ASSUME AutoInv, pass.at \notin {"idle", "commit"},
           NEW step \in Stops \ {"idle", "commit"}, NEW arg \in Arguments, Turns(step, arg),
           step = "failed" => arg \in Errors, step = "pause" => arg \in Reasons,
           autorun' = autorun, step \in Serving /\ Mine => Open(autorun)
    PROVE  PassTyped' /\ PassServes'
<1>1. /\ pass' \in Passes /\ pass'.at = step /\ pass'.run = pass.run
      /\ pass'.arg = arg /\ pass'.write = pass.write
  BY DEF AutoInv, PassTyped, Passes, Turns
<1>2. PassTyped'
  BY <1>1 DEF AutoInv, PassTyped
<1>3. PassServes'
  BY <1>1 DEF AutoInv, PassServes, Mine, Open
<1>4. QED
  BY <1>2, <1>3

\* A pass prepares a commit for the run that is on the record, and open.
LEMMA PreparesKeeps ==
    ASSUME AutoInv, pass.at # "idle", Mine, Open(autorun),
           NEW kind \in Commits, NEW next \in Budgets, Prepares(kind, next),
           next.run = autorun.run, HaltIsPause(next), autorun' = autorun
    PROVE  PassTyped' /\ PassServes'
<1>1. PICK write : write = [kind |-> kind, next |-> next]
  OBVIOUS
<1>2. write \in Writes /\ write # None /\ write.next = next
  BY <1>1, NoneAssumption DEF Writes
<1>3. pass' = [pass EXCEPT !.at = "commit", !.write = write, !.stale = FALSE]
  BY <1>1 DEF Prepares
<1>4. /\ pass' \in Passes /\ pass'.at = "commit" /\ pass'.run = pass.run
      /\ pass'.write = write /\ pass'.stale = FALSE
  BY <1>2, <1>3 DEF AutoInv, PassTyped, Passes, Stops
<1>5. PassTyped'
  BY <1>2, <1>4 DEF PassTyped
<1>6. PassServes'
  BY <1>2, <1>4 DEF AutoInv, PassServes, Mine, Open, Serving
<1>7. QED
  BY <1>5, <1>6

-----------------------------------------------------------------------------
(* What each signal does to the invariant *)

\* A new run is none that a pass under way serves.
LEMMA StartRunKeeps == ASSUME AutoInv, StartRun PROVE AutoInv'
<1> USE AutoAssumption DEF AutoInv
<1>1. /\ autorun' \in Budgets /\ autorun'.run = autorun.run + 1 /\ HaltIsPause(autorun)'
      /\ autorun.run \in Nat /\ autorun'.run \in 0..MaxStarts
  BY DEF StartRun, Budgets, HaltIsPause
<1>2. again' \in TaskResults \cup {"no"}
  BY DEF StartRun, OthersTyped, TaskResults, Request
<1>3. OthersTyped'
  BY <1>2, NoFailure DEF StartRun, OthersTyped
<1>4. CASE pass.at = "idle"
  <2>1. None \in TaskResults
    BY DEF TaskResults
  <2>2. pass' = Pass("read", 0, None, None)
    BY <1>4 DEF StartRun, Request
  <2>3. PassTyped'
    BY <2>1, <2>2, BegunFacts DEF PassTyped
  <2>4. PassServes'
    BY <1>1, <2>1, <2>2, BegunFacts DEF PassServes, Serving
  <2>5. QED
    BY <1>1, <1>3, <2>3, <2>4
<1>5. CASE pass.at # "idle"
  <2>1. pass' = [pass EXCEPT !.stale = TRUE]
    BY <1>5 DEF StartRun
  <2>2. /\ pass' \in Passes /\ pass'.at = pass.at /\ pass'.run = pass.run
        /\ pass'.arg = pass.arg /\ pass'.write = pass.write /\ pass'.stale
    BY <2>1 DEF PassTyped, Passes
  <2>3. PassTyped'
    BY <1>5, <2>2 DEF PassTyped
  <2>4. pass.run \in Nat /\ pass'.run < autorun'.run
    BY <1>1, <2>2 DEF PassTyped, PassServes, Passes
  <2>5. ~Mine' /\ pass'.run <= autorun'.run
    BY <1>1, <2>2, <2>4 DEF Mine
  <2>6. PassServes'
    BY <2>2, <2>5 DEF PassServes
  <2>7. QED
    BY <1>1, <1>3, <2>3, <2>6
<1>6. QED
  BY <1>4, <1>5

LEMMA SignalKeeps ==
    ASSUME AutoInv, Notify \/ WakeFires \/ AlarmFires \/ Refresh PROVE AutoInv'
<1> USE DEF AutoInv
<1>1. \E end \in TaskResults : Request(end)
  BY DEF Notify, WakeFires, AlarmFires, Refresh, OthersTyped, TaskResults
<1>2. autorun' = autorun
  BY DEF Notify, WakeFires, AlarmFires, Refresh
<1>3. PassTyped' /\ PassServes' /\ again' \in TaskResults \cup {"no"}
  BY <1>1, <1>2, RequestKeeps
<1>4. OthersTyped'
  BY <1>3 DEF Notify, WakeFires, AlarmFires, Refresh, OthersTyped, TaskResults
<1>5. QED
  BY <1>2, <1>3, <1>4

LEMMA TimeKeeps ==
    ASSUME AutoInv, Expire \/ CoolDown \/ AgentIsGone PROVE AutoInv'
<1> USE DEF AutoInv
<1>1. UNCHANGED <<autorun, pass, again>>
  BY DEF Expire, CoolDown, AgentIsGone
<1>2. OthersTyped'
  BY DEF Expire, CoolDown, AgentIsGone, OthersTyped
<1>3. QED
  BY <1>1, <1>2, PassStays

LEMMA OtherCommitKeeps ==
    ASSUME AutoInv, TaskEnds \/ SomebodyCommits PROVE AutoInv'
<1> USE AutoAssumption DEF AutoInv
<1>1. \E outdated \in BOOLEAN : /\ pass.at # "idle" \/ ~outdated
                                /\ pass' = [pass EXCEPT !.stale = outdated]
                                /\ outdated \/ pass.at # "commit"
  BY DEF TaskEnds, SomebodyCommits
<1>2. UNCHANGED <<autorun, again>>
  BY DEF TaskEnds, SomebodyCommits
<1>3. OthersTyped'
  BY DEF TaskEnds, SomebodyCommits, Trouble, OthersTyped
<1>4. QED
  BY <1>1, <1>2, <1>3, OutdatedKeeps

LEMMA RestartKeeps == ASSUME AutoInv, Restart PROVE AutoInv'
<1> USE AutoAssumption DEF AutoInv, Restart
<1>1. OthersTyped'
  <2>1. /\ streak' \in Failures /\ troubles' \in 0..MaxTroubles
        /\ memo' \in Failures \cup {None}
        /\ again' \in TaskResults \cup {"no"} /\ notice' \in TaskResults
    BY NoFailure DEF OthersTyped, Trouble, TaskResults
  <2>2. agent' \in {"none", "running", "unknown", "interrupted"}
    <3>1. agent' \in {"unknown", "interrupted"} \/ agent' = agent
      BY Zenon
    <3>2. QED
      BY <3>1 DEF OthersTyped
  <2>3. expired' \in BOOLEAN /\ cool' \in BOOLEAN /\ wake' \in BOOLEAN /\ alarm' \in BOOLEAN
    BY DEF OthersTyped
  <2>4. QED
    BY <2>1, <2>2, <2>3 DEF OthersTyped
<1>2. PassTyped'
  BY IdleFacts DEF PassTyped
<1>3. autorun.run \in 0..MaxStarts
  BY DEF Budgets
<1>4. PassServes'
  BY <1>3, IdleFacts DEF PassServes, Serving
<1>5. QED
  BY <1>1, <1>2, <1>4

-----------------------------------------------------------------------------
(* What a commit may put on the record *)

LEMMA PausedFacts ==
    ASSUME autorun \in Budgets, NEW reason \in Reasons
    PROVE  /\ Paused(reason) \in Budgets /\ Paused(reason).run = autorun.run
           /\ Paused(reason).status = "paused" /\ Paused(reason).used = autorun.used
           /\ Paused(reason).halted = autorun.halted
           /\ Paused(reason).recovery = autorun.recovery
BY DEF Paused, Budgets

LEMMA HaltsFacts ==
    ASSUME NEW budget \in Budgets, budget.status = "paused"
    PROVE  /\ Halts(budget) \in Budgets /\ Halts(budget).run = budget.run
           /\ HaltIsPause(Halts(budget))
<1>1. PICK halted \in BOOLEAN : halted = budget.used
  BY DEF Budgets
<1>2. Halts(budget) = [budget EXCEPT !.halted = halted]
  BY <1>1 DEF Halts
<1>3. QED
  BY <1>1, <1>2 DEF Budgets, HaltIsPause

LEMMA MarkedFacts ==
    ASSUME autorun \in Budgets, NEW kind \in {"transient", "rate-limit", "fused"},
           NEW failure \in Failures
    PROVE  /\ Marked(kind, failure) \in Budgets /\ Marked(kind, failure).run = autorun.run
           /\ Marked(kind, failure).status = autorun.status
           /\ Marked(kind, failure).used = autorun.used
           /\ Marked(kind, failure).halted = autorun.halted
<1>1. PICK mark \in Recoveries : mark = [kind |-> kind, failure |-> failure]
  BY DEF Recoveries
<1>2. Marked(kind, failure) = [autorun EXCEPT !.recovery = mark]
  BY <1>1 DEF Marked
<1>3. QED
  BY <1>2 DEF Budgets

\* An error in a row with the last one counts on, up to the fuse.
LEMMA AttemptFacts ==
    ASSUME AutoInv, NEW e \in Errors
    PROVE  Attempt(e) \in Failures /\ Counted(e) \in Failures
<1> USE AutoAssumption DEF AutoInv, OthersTyped
<1>1. ASSUME NEW f \in Failures
      PROVE  f.cons \in 0..FuseAt
  BY DEF Failures
<1>2. Previous \in Failures
  <2>1. Failure("barrier", 0) \in Failures
    BY FailureFacts
  <2>2. autorun.recovery # None => autorun.recovery.failure \in Failures
    BY DEF Budgets, Recoveries
  <2>3. QED
    BY <2>1, <2>2 DEF Previous
<1>3. ASSUME NEW f \in Failures
      PROVE  (IF f.fp # e THEN 1 ELSE IF f.cons < FuseAt THEN f.cons + 1 ELSE FuseAt)
                \in 0..FuseAt
  BY <1>1
<1>4. QED
  BY <1>2, <1>3, FailureFacts DEF Attempt, Counted

\* A running run is not halted.
LEMMA RunningIsOpen ==
    ASSUME AutoInv, autorun.status = "running"
    PROVE  Open(autorun)
BY DEF AutoInv, HaltIsPause, Open

-----------------------------------------------------------------------------
(* What each step of a pass does to the invariant *)

LEMMA ReadRunKeeps == ASSUME AutoInv, ReadRun PROVE AutoInv'
<1> USE AutoAssumption DEF AutoInv
<1>1. OthersTyped'
  BY DEF ReadRun, Rests, Timers, Memory, Trouble, OthersTyped
<1>2. autorun' = autorun /\ again' = again /\ pass.at = "read"
  BY DEF ReadRun, Rests, At
<1>3. CASE Turns("next", None)
  <2>1. "next" \in Stops \ {"idle", "commit"} /\ "next" \notin Serving /\ None \in Arguments
    BY DEF Stops, Serving, Arguments
  <2>2. QED
    BY <1>1, <1>2, <1>3, <2>1, TurnsKeeps
<1>4. CASE pass' = [pass EXCEPT !.run = autorun.run,
                       !.at = IF Troubled(autorun) THEN "maintain" ELSE "reconcile"]
  <2>1. PICK step \in {"maintain", "reconcile"} :
          step = IF Troubled(autorun) THEN "maintain" ELSE "reconcile"
    BY Zenon
  <2>2. autorun.run \in 0..MaxStarts /\ step \in Stops
    BY <2>1 DEF Budgets, Stops
  <2>3. /\ pass' \in Passes /\ pass'.at = step /\ pass'.run = autorun.run
        /\ pass'.write = pass.write
    BY <1>4, <2>1, <2>2 DEF PassTyped, Passes
  <2>4. PassTyped'
    BY <1>2, <2>1, <2>3 DEF PassTyped
  <2>5. PassServes'
    BY <1>2, <2>1, <2>2, <2>3 DEF PassServes, Serving
  <2>6. QED
    BY <1>1, <1>2, <2>4, <2>5
<1>5. QED
  BY <1>3, <1>4 DEF ReadRun

LEMMA MaintainKeeps == ASSUME AutoInv, Maintain PROVE AutoInv'
<1> USE DEF AutoInv
<1>1. OthersTyped'
  BY DEF Maintain, Rests, Timers, Memory, OthersTyped
<1>2. autorun' = autorun /\ again' = again /\ pass.at = "maintain"
  BY DEF Maintain, Rests, At
<1>3. CASE Turns("next", None)
  <2>1. "next" \in Stops \ {"idle", "commit"} /\ "next" \notin Serving /\ None \in Arguments
    BY DEF Stops, Serving, Arguments
  <2>2. QED
    BY <1>1, <1>2, <1>3, <2>1, TurnsKeeps
<1>4. CASE ~Turns("next", None)
  <2>1. Mine /\ ~autorun.halted /\ Troubled(autorun)
    BY <1>4 DEF Maintain, Mine
  <2>2. Open(autorun)
    BY <2>1 DEF Open, Troubled
  <2>3. CASE \E reason \in {"budget-exhausted", "session-interrupted"} :
               Prepares("pause or retry", Paused(reason))
    <3>1. PICK reason \in Reasons : Prepares("pause or retry", Paused(reason))
      BY <2>3 DEF Reasons
    <3>2. "pause or retry" \in Commits /\ HaltIsPause(Paused(reason))
      BY <2>1, PausedFacts DEF Commits, HaltIsPause
    <3>3. QED
      BY <1>1, <1>2, <2>1, <2>2, <3>1, <3>2, PausedFacts, PreparesKeeps
  <2>4. CASE Prepares("consume", [autorun EXCEPT !.used = TRUE, !.status = "running",
                                                 !.reason = None, !.recovery = None])
    <3>1. PICK next : next = [autorun EXCEPT !.used = TRUE, !.status = "running",
                                             !.reason = None, !.recovery = None]
      OBVIOUS
    <3>2. next \in Budgets /\ next.run = autorun.run /\ next.halted = autorun.halted
      BY <3>1 DEF Budgets
    <3>3. "consume" \in Commits /\ HaltIsPause(next)
      BY <2>1, <3>2 DEF Commits, HaltIsPause
    <3>4. QED
      BY <1>1, <1>2, <2>1, <2>2, <2>4, <3>1, <3>2, <3>3, PreparesKeeps
  <2>5. QED
    BY <1>4, <2>3, <2>4 DEF Maintain
<1>5. QED
  BY <1>3, <1>4

LEMMA ReconcileKeeps == ASSUME AutoInv, Reconcile PROVE AutoInv'
<1> USE DEF AutoInv
<1>1. OthersTyped'
  BY DEF Reconcile, Rests, Timers, Memory, OthersTyped
<1>2. autorun' = autorun /\ again' = again /\ pass.at = "reconcile"
  BY DEF Reconcile, Rests, At
<1>3. CASE ~Serves
  <2>1. Turns("next", None)
    BY <1>3 DEF Reconcile
  <2>2. "next" \in Stops \ {"idle", "commit"} /\ "next" \notin Serving /\ None \in Arguments
    BY DEF Stops, Serving, Arguments
  <2>3. QED
    BY <1>1, <1>2, <2>1, <2>2, TurnsKeeps
<1>4. CASE Serves
  <2>1. Mine /\ Open(autorun) /\ ~autorun.halted
    BY <1>4 DEF Serves, Mine, Open
  <2>2. CASE Turns("pause", "budget-exhausted")
    <3>1. /\ "pause" \in Stops \ {"idle", "commit"} /\ "budget-exhausted" \in Reasons
          /\ "budget-exhausted" \in Arguments /\ "pause" # "failed"
      BY DEF Stops, Reasons, Arguments
    <3>2. QED
      BY <1>1, <1>2, <2>1, <2>2, <3>1, TurnsKeeps
  <2>3. CASE Turns("enrich", None)
    <3>1. "enrich" \in Stops \ {"idle", "commit"} /\ None \in Arguments
      BY DEF Stops, Arguments
    <3>2. QED
      BY <1>1, <1>2, <2>1, <2>3, <3>1, TurnsKeeps
  <2>4. CASE /\ FusePending
             /\ Prepares("fuse", Halts([Paused("controller-error") EXCEPT !.recovery =
                    [kind |-> "fused", failure |-> IF memo # None /\ Fused(memo) THEN memo
                                                   ELSE autorun.recovery.failure]]))
    <3>1. PICK failure : failure = IF memo # None /\ Fused(memo) THEN memo
                                   ELSE autorun.recovery.failure
      OBVIOUS
    <3>2. failure \in Failures
      <4>1. CASE memo # None /\ Fused(memo)
        BY <3>1, <4>1 DEF OthersTyped
      <4>2. CASE ~(memo # None /\ Fused(memo))
        <5>1. autorun.recovery # None
          BY <2>4, <4>2 DEF FusePending
        <5>2. QED
          BY <3>1, <4>2, <5>1 DEF Budgets, Recoveries
      <4>3. QED
        BY <4>1, <4>2
    <3>3. PICK mark : mark = [kind |-> "fused", failure |-> failure]
      OBVIOUS
    <3>4. mark \in Recoveries
      BY <3>2, <3>3 DEF Recoveries
    <3>5. "controller-error" \in Reasons
      BY DEF Reasons
    <3>6. PICK budget : budget = [Paused("controller-error") EXCEPT !.recovery = mark]
      OBVIOUS
    <3>7. budget \in Budgets /\ budget.run = autorun.run /\ budget.status = "paused"
      BY <3>4, <3>5, <3>6, PausedFacts DEF Budgets
    <3>8. "fuse" \in Commits /\ Prepares("fuse", Halts(budget))
      BY <2>4, <3>1, <3>3, <3>6 DEF Commits
    <3>9. QED
      BY <1>1, <1>2, <2>1, <3>7, <3>8, HaltsFacts, PreparesKeeps
  <2>5. QED
    BY <1>4, <2>2, <2>3, <2>4 DEF Reconcile
<1>5. QED
  BY <1>3, <1>4

\* Going on to the end of the pass, which serves nobody.
LEMMA LeavesKeeps ==
    ASSUME AutoInv, pass.at \notin {"idle", "commit"}, Turns("next", None), autorun' = autorun
    PROVE  PassTyped' /\ PassServes'
<1>1. "next" \in Stops \ {"idle", "commit"} /\ "next" \notin Serving /\ None \in Arguments
  BY DEF Stops, Serving, Arguments
<1>2. QED
  BY <1>1, TurnsKeeps

LEMMA EnrichKeeps == ASSUME AutoInv, Enrich PROVE AutoInv'
<1> USE DEF AutoInv
<1>1. OthersTyped'
  BY AutoAssumption DEF Enrich, Rests, Timers, Memory, Trouble, OthersTyped
<1>2. autorun' = autorun /\ again' = again /\ pass.at = "enrich"
  BY DEF Enrich, Rests, At
<1>3. Mine => Open(autorun)
  BY <1>2 DEF PassServes, Serving
<1>4. \E d \in Decisions \cup ({"failed"} \X Errors) : Turns(d[1], d[2])
  <2>1. CASE \E d \in Decisions : Turns(d[1], d[2])
    BY <2>1
  <2>2. CASE \E e \in Errors : Turns("failed", e)
    <3>1. PICK e \in Errors : Turns("failed", e)
      BY <2>2
    <3>2. PICK d \in {"failed"} \X Errors : d = <<"failed", e>>
      OBVIOUS
    <3>3. QED
      BY <3>1, <3>2
  <2>3. QED
    BY <2>1, <2>2 DEF Enrich
<1>5. PICK d \in Decisions \cup ({"failed"} \X Errors) : Turns(d[1], d[2])
  BY <1>4
<1>6. /\ d[1] \in {"pause", "wait", "complete", "apply", "failed"} /\ d[2] \in Arguments
      /\ d[1] = "pause" => d[2] \in Reasons
      /\ d[1] = "failed" => d[2] \in Errors
  BY DEF Decisions, Arguments, Reasons, Errors
<1>7. PICK step \in Stops \ {"idle", "commit"}, arg \in Arguments : step = d[1] /\ arg = d[2]
  BY <1>6 DEF Stops
<1>8. PassTyped' /\ PassServes'
  BY <1>2, <1>3, <1>5, <1>6, <1>7, TurnsKeeps
<1>9. QED
  BY <1>1, <1>2, <1>8

LEMMA WaitKeeps == ASSUME AutoInv, Wait PROVE AutoInv'
<1> USE DEF AutoInv
<1>1. wake' \in BOOLEAN
  BY Zenon DEF Wait, OthersTyped
<1>2. OthersTyped'
  BY <1>1 DEF Wait, Rests, Memory, OthersTyped
<1>3. autorun' = autorun /\ again' = again /\ pass.at = "wait" /\ Turns("next", None)
  BY DEF Wait, Rests, At
<1>4. QED
  BY <1>2, <1>3, LeavesKeeps

LEMMA PauseKeeps == ASSUME AutoInv, Pause PROVE AutoInv'
<1> USE DEF AutoInv
<1>1. OthersTyped'
  BY DEF Pause, Rests, Timers, Memory, OthersTyped
<1>2. autorun' = autorun /\ again' = again /\ pass.at = "pause"
  BY DEF Pause, Rests, At
<1>3. CASE Turns("next", None)
  BY <1>1, <1>2, <1>3, LeavesKeeps
<1>4. CASE Mine /\ Prepares("pause", Paused(pass.arg))
  <2>1. Open(autorun) /\ pass.arg \in Reasons
    BY <1>2, <1>4 DEF PassServes, PassTyped, Serving
  <2>2. "pause" \in Commits /\ HaltIsPause(Paused(pass.arg))
    BY <2>1, PausedFacts DEF Commits, HaltIsPause, Open
  <2>3. QED
    BY <1>1, <1>2, <1>4, <2>1, <2>2, PausedFacts, PreparesKeeps
<1>5. QED
  BY <1>3, <1>4 DEF Pause

LEMMA CompleteRunKeeps == ASSUME AutoInv, CompleteRun PROVE AutoInv'
<1> USE DEF AutoInv
<1>1. OthersTyped'
  BY DEF CompleteRun, Rests, Timers, Memory, OthersTyped
<1>2. autorun' = autorun /\ again' = again /\ pass.at = "complete"
  BY DEF CompleteRun, Rests, At
<1>3. CASE Turns("next", None)
  BY <1>1, <1>2, <1>3, LeavesKeeps
<1>4. CASE /\ Mine /\ autorun.status = "running"
           /\ Prepares("complete", [autorun EXCEPT !.status = "completed", !.reason = None,
                                                   !.recovery = None])
  <2>1. Open(autorun) /\ ~autorun.halted
    BY <1>4, RunningIsOpen DEF Open
  <2>2. PICK next : next = [autorun EXCEPT !.status = "completed", !.reason = None,
                                           !.recovery = None]
    OBVIOUS
  <2>3. next \in Budgets /\ next.run = autorun.run /\ next.halted = autorun.halted
    BY <2>2 DEF Budgets
  <2>4. "complete" \in Commits /\ HaltIsPause(next)
    BY <2>1, <2>3 DEF Commits, HaltIsPause
  <2>5. QED
    BY <1>1, <1>2, <1>4, <2>1, <2>2, <2>3, <2>4, PreparesKeeps
<1>5. QED
  BY <1>3, <1>4 DEF CompleteRun

LEMMA ApplyKeeps == ASSUME AutoInv, Apply PROVE AutoInv'
<1> USE DEF AutoInv
<1>1. OthersTyped'
  BY DEF Apply, Rests, Timers, Memory, OthersTyped
<1>2. autorun' = autorun /\ again' = again /\ pass.at = "apply"
  BY DEF Apply, Rests, At
<1>3. CASE Serves
  <2>1. Turns("act", pass.arg)
    BY <1>3 DEF Apply
  <2>2. "act" \in Stops \ {"idle", "commit"} /\ pass.arg \in Arguments /\ Open(autorun)
    BY <1>3 DEF Stops, PassTyped, Passes, Serves, Open
  <2>3. QED
    BY <1>1, <1>2, <2>1, <2>2, TurnsKeeps
<1>4. CASE ~Serves
  <2>1. Turns("next", None)
    BY <1>4 DEF Apply
  <2>2. QED
    BY <1>1, <1>2, <2>1, LeavesKeeps
<1>5. QED
  BY <1>3, <1>4

\* An action is done for the run of the pass while that is running; a merge completes it.
LEMMA ActKeeps == ASSUME AutoInv, Act PROVE AutoInv'
<1> USE DEF AutoInv
<1>1. /\ agent' \in {"none", "running", "unknown", "interrupted"}
      /\ again' \in TaskResults \cup {"no"} /\ troubles' \in 0..MaxTroubles
  <2>1. agent' = agent \/ agent' = "running"
    BY Zenon DEF Act
  <2>2. again' = again \/ again' = None
    BY Zenon DEF Act
  <2>3. troubles' = troubles \/ Trouble
    BY Zenon DEF Act
  <2>4. QED
    BY <2>1, <2>2, <2>3, AutoAssumption DEF Trouble, OthersTyped, TaskResults
<1>2. OthersTyped'
  BY <1>1 DEF Act, Timers, Memory, OthersTyped
<1>3. pass.at = "act"
  BY DEF Act, At
<1>4. CASE Turns("next", None) /\ autorun' = autorun
  BY <1>2, <1>3, <1>4, LeavesKeeps
<1>5. CASE autorun' = autorun /\ \E e \in Errors : Turns("failed", e)
  <2>1. PICK e \in Errors : Turns("failed", e)
    BY <1>5
  <2>2. "failed" \in Stops \ {"idle", "commit"} /\ e \in Arguments
    BY DEF Stops, Arguments
  <2>3. Mine => Open(autorun)
    BY <1>3 DEF PassServes, Serving
  <2>4. PassTyped' /\ PassServes'
    BY <1>3, <1>5, <2>1, <2>2, <2>3, TurnsKeeps
  <2>5. QED
    BY <1>2, <1>5, <2>4
<1>6. CASE autorun' = autorun /\ Turns("pause", "rejected")
  <2>1. "pause" \in Stops \ {"idle", "commit"} /\ "rejected" \in Arguments /\ "rejected" \in Reasons
    BY DEF Stops, Arguments, Reasons
  <2>2. Mine => Open(autorun)
    BY <1>3 DEF PassServes, Serving
  <2>3. PassTyped' /\ PassServes'
    BY <1>3, <1>6, <2>1, <2>2, TurnsKeeps
  <2>4. QED
    BY <1>2, <1>6, <2>3
<1>7. CASE /\ Admits
           /\ autorun' = IF pass.arg = "merge"
                         THEN [autorun EXCEPT !.status = "completed", !.reason = None] ELSE autorun
           /\ Turns(IF pass.arg = "inline" THEN "clear and go on" ELSE "clear", None)
  <2>1. ~autorun.halted
    BY <1>7 DEF Admits, Serves
  <2>2. autorun' \in Budgets /\ autorun'.run = autorun.run /\ autorun'.halted = autorun.halted
    BY <1>7 DEF Budgets
  <2>3. PICK step \in {"clear", "clear and go on"} : Turns(step, None)
    BY <1>7
  <2>4. step \in Stops \ {"idle", "commit"} /\ step \notin Serving /\ None \in Arguments
    BY DEF Stops, Serving, Arguments
  <2>5. /\ pass' \in Passes /\ pass'.at = step /\ pass'.run = pass.run
        /\ pass'.write = pass.write
    BY <2>3, <2>4 DEF PassTyped, Passes, Turns
  <2>6. PassTyped'
    BY <1>3, <2>3, <2>4, <2>5 DEF PassTyped
  <2>7. PassServes'
    BY <2>2, <2>4, <2>5 DEF PassServes
  <2>8. QED
    BY <1>2, <2>1, <2>2, <2>6, <2>7 DEF HaltIsPause
<1>8. QED
  <2>1. "b" \in Errors
    BY DEF Errors
  <2>2. QED
    BY <1>4, <1>5, <1>6, <1>7, <2>1 DEF Act

LEMMA ClearKeeps == ASSUME AutoInv, Clear PROVE AutoInv'
<1> USE DEF AutoInv
<1>1. /\ memo' \in Failures \cup {None} /\ streak' \in Failures
      /\ again' \in TaskResults \cup {"no"}
  BY NoFailure DEF Clear, OthersTyped, TaskResults
<1>2. OthersTyped'
  BY <1>1 DEF Clear, Rests, Timers, OthersTyped
<1>3. autorun' = autorun /\ pass.at \in {"clear", "clear and go on"}
  BY DEF Clear, Rests
<1>4. CASE Turns("next", None)
  BY <1>2, <1>3, <1>4, LeavesKeeps
<1>5. CASE /\ Mine /\ autorun.status = "running"
           /\ Prepares(pass.at, [autorun EXCEPT !.recovery = None])
  <2>1. Open(autorun) /\ ~autorun.halted
    BY <1>5, RunningIsOpen DEF Open
  <2>2. PICK next : next = [autorun EXCEPT !.recovery = None]
    OBVIOUS
  <2>3. next \in Budgets /\ next.run = autorun.run /\ next.halted = autorun.halted
    BY <2>2 DEF Budgets
  <2>4. PICK kind \in Commits : kind = pass.at
    BY <1>3 DEF Commits
  <2>5. HaltIsPause(next) /\ Prepares(kind, next)
    BY <1>5, <2>1, <2>2, <2>3, <2>4 DEF HaltIsPause
  <2>6. PassTyped' /\ PassServes'
    BY <1>3, <1>5, <2>1, <2>3, <2>5, PreparesKeeps
  <2>7. QED
    BY <1>2, <1>3, <2>6
<1>6. QED
  BY <1>4, <1>5 DEF Clear

LEMMA FailureUnreadKeeps == ASSUME AutoInv, FailureUnread PROVE AutoInv'
<1> USE DEF AutoInv
<1>1. OthersTyped'
  BY AutoAssumption DEF FailureUnread, Rests, Memory, Trouble, OthersTyped
<1>2. autorun' = autorun /\ again' = again /\ pass.at = "failed" /\ Turns("next", None)
  BY DEF FailureUnread, Rests, At
<1>3. QED
  BY <1>1, <1>2, LeavesKeeps

\* The failure of a running run ends in a retry, in a pause, or in the fuse.
LEMMA HandleFailureKeeps == ASSUME AutoInv, HandleFailure PROVE AutoInv'
<1> USE DEF AutoInv
<1>1. autorun' = autorun /\ again' = again /\ pass.at = "failed"
  BY DEF HandleFailure, Rests, At
<1>2. PICK e \in Errors : e = pass.arg
  BY <1>1 DEF PassTyped
<1>3. PICK attempt \in Failures : attempt = Attempt(e)
  BY AttemptFacts
<1>4. OthersTyped'
  <2>1. Counted(e) \in Failures /\ Failure("barrier", 0) \in Failures
    BY AttemptFacts, FailureFacts, AutoAssumption
  <2>2. /\ memo' \in {memo, attempt, Failure("barrier", 0)}
        /\ streak' \in {streak, Failure("a", 0), Counted(e)}
    BY <1>2, <1>3 DEF HandleFailure, Memory
  <2>3. memo' \in Failures \cup {None} /\ streak' \in Failures
    BY <2>1, <2>2, NoFailure DEF OthersTyped
  <2>4. (wake' = wake \/ wake' = TRUE) /\ alarm' = alarm
    BY DEF HandleFailure, Timers
  <2>5. QED
    BY <2>3, <2>4 DEF HandleFailure, Rests, OthersTyped
<1>5. CASE Turns("next", None)
  BY <1>1, <1>4, <1>5, LeavesKeeps
<1>6. CASE ~Turns("next", None)
  <2>1. Mine /\ autorun.status = "running"
    BY <1>6 DEF HandleFailure, Serves, Mine
  <2>2. Open(autorun) /\ ~autorun.halted
    BY <2>1, RunningIsOpen DEF Open
  <2>3. \/ \E reason \in {"budget-exhausted", "session-interrupted"} :
              Prepares("pause or retry", Paused(reason))
        \/ Prepares("defer", Marked("rate-limit", attempt))
        \/ Prepares("halt", Halts(Paused("controller-error")))
        \/ Prepares("fuse pause", [Marked("fused", attempt) EXCEPT
                                        !.status = "paused", !.reason = "controller-error"])
        \/ Prepares("transient", Marked("transient", attempt))
    BY <1>2, <1>3, <1>6 DEF HandleFailure
  <2>4. CASE \E reason \in {"budget-exhausted", "session-interrupted"} :
               Prepares("pause or retry", Paused(reason))
    <3>1. PICK reason \in Reasons : Prepares("pause or retry", Paused(reason))
      BY <2>4 DEF Reasons
    <3>2. "pause or retry" \in Commits /\ HaltIsPause(Paused(reason))
      BY <2>2, PausedFacts DEF Commits, HaltIsPause
    <3>3. QED
      BY <1>1, <1>4, <2>1, <2>2, <3>1, <3>2, PausedFacts, PreparesKeeps
  <2>5. CASE \E kind \in {"defer", "transient"}, mark \in {"rate-limit", "transient"} :
               Prepares(kind, Marked(mark, attempt))
    <3>1. PICK kind \in {"defer", "transient"}, mark \in {"rate-limit", "transient"} :
             Prepares(kind, Marked(mark, attempt))
      BY <2>5
    <3>2. kind \in Commits /\ HaltIsPause(Marked(mark, attempt))
      BY <2>2, MarkedFacts DEF Commits, HaltIsPause
    <3>3. QED
      BY <1>1, <1>4, <2>1, <2>2, <3>1, <3>2, MarkedFacts, PreparesKeeps
  <2>6. CASE Prepares("halt", Halts(Paused("controller-error")))
    <3>1. "controller-error" \in Reasons /\ "halt" \in Commits
      BY DEF Reasons, Commits
    <3>2. QED
      BY <1>1, <1>4, <2>1, <2>2, <2>6, <3>1, PausedFacts, HaltsFacts, PreparesKeeps
  <2>7. CASE Prepares("fuse pause", [Marked("fused", attempt) EXCEPT
                                        !.status = "paused", !.reason = "controller-error"])
    <3>1. PICK next : next = [Marked("fused", attempt) EXCEPT
                                 !.status = "paused", !.reason = "controller-error"]
      OBVIOUS
    <3>2. next \in Budgets /\ next.run = autorun.run /\ next.halted = autorun.halted
      BY <3>1, MarkedFacts DEF Budgets, Reasons
    <3>3. "fuse pause" \in Commits /\ HaltIsPause(next)
      BY <2>2, <3>2 DEF Commits, HaltIsPause
    <3>4. QED
      BY <1>1, <1>4, <2>1, <2>2, <2>7, <3>1, <3>2, <3>3, PreparesKeeps
  <2>8. QED
    BY <2>3, <2>4, <2>5, <2>6, <2>7
<1>7. QED
  BY <1>5, <1>6

LEMMA EndPassKeeps == ASSUME AutoInv, EndPass PROVE AutoInv'
<1> USE DEF AutoInv
<1>1. OthersTyped'
  BY DEF EndPass, Rests, Timers, Memory, OthersTyped
<1>2. autorun' = autorun /\ again' = "no" /\ autorun.run \in 0..MaxStarts
  BY DEF EndPass, Rests, Budgets
<1>3. CASE again = "no"
  <2>1. pass' = Idle
    BY <1>3 DEF EndPass
  <2>2. QED
    BY <1>1, <1>2, <2>1, IdleFacts DEF PassTyped, PassServes, Serving
<1>4. CASE again # "no"
  <2>1. pass' = Pass("read", 0, again, None) /\ again \in TaskResults
    BY <1>4 DEF EndPass, OthersTyped
  <2>2. PassTyped' /\ PassServes'
    BY <1>2, <2>1, BegunFacts DEF PassTyped, PassServes, Serving
  <2>3. QED
    BY <1>1, <1>2, <2>2
<1>5. QED
  BY <1>3, <1>4

\* The timers and the rest after a commit, taken or refused.
LEMMA CommittedTypes ==
    ASSUME AutoInv, pass.at = "commit", NEW taken \in BOOLEAN, Committed(taken),
           agent' = agent, troubles' \in 0..MaxTroubles
    PROVE  OthersTyped'
<1> USE DEF AutoInv
<1>1. pass.write \in Writes
  BY DEF PassTyped, Passes
<1>2. PICK kind \in Commits : kind = pass.write.kind
  BY <1>1 DEF Writes
<1>3. pass.write.next.halted \in BOOLEAN
  BY <1>1 DEF Writes, Budgets
<1>4. wake' = Wakes(kind, taken) /\ alarm' = Alarms(kind, taken)
  BY <1>2 DEF Committed
<1>5. wake \in BOOLEAN /\ alarm \in BOOLEAN /\ expired \in BOOLEAN /\ cool \in BOOLEAN
  BY DEF OthersTyped
<1>6. wake' \in BOOLEAN
  <2>1. CASE kind \in {"pause", "complete", "pause or retry"} /\ taken
    BY <1>4, <2>1 DEF Wakes
  <2>2. CASE ~taken \/ kind \notin {"pause", "complete", "pause or retry"}
    <3>1. CASE kind \in {"halt", "transient"}
      BY <1>4, <2>2, <3>1 DEF Wakes
    <3>2. CASE kind = "fuse"
      BY <1>3, <1>4, <1>5, <2>2, <3>2 DEF Wakes
    <3>3. CASE kind \in {"pause or retry", "defer", "fuse pause"}
      BY <1>4, <2>2, <3>3 DEF Wakes
    <3>4. CASE kind = "consume"
      BY <1>4, <1>5, <2>2, <3>4 DEF Wakes
    <3>5. CASE kind \notin {"halt", "transient", "fuse", "pause or retry", "defer",
                            "fuse pause", "consume"}
      BY <1>4, <1>5, <2>2, <3>5 DEF Wakes
    <3>6. QED
      BY <3>1, <3>2, <3>3, <3>4, <3>5
  <2>3. QED
    BY <2>1, <2>2
<1>7. alarm' \in BOOLEAN
  <2>1. CASE kind \in {"pause", "complete", "pause or retry", "halt"} /\ taken
    BY <1>4, <2>1 DEF Alarms
  <2>2. CASE kind = "transient" /\ ~taken
    BY <1>4, <2>2 DEF Alarms
  <2>3. CASE kind = "fuse"
    BY <1>3, <1>4, <1>5, <2>3 DEF Alarms
  <2>4. CASE kind = "fuse pause" \/ (kind = "consume" /\ taken)
    BY <1>4, <2>4 DEF Alarms
  <2>5. CASE /\ ~(kind \in {"pause", "complete", "pause or retry", "halt"} /\ taken)
             /\ ~(kind = "transient" /\ ~taken) /\ kind # "fuse"
             /\ ~(kind = "fuse pause" \/ (kind = "consume" /\ taken))
    BY <1>4, <1>5, <2>5 DEF Alarms
  <2>6. QED
    BY <2>1, <2>2, <2>3, <2>4, <2>5
<1>8. cool' \in BOOLEAN /\ expired' \in BOOLEAN
  BY <1>5, Zenon DEF Committed
<1>9. memo' \in Failures \cup {None} /\ streak' \in Failures
  BY NoFailure DEF Committed, OthersTyped
<1>10. again' \in TaskResults \cup {"no"} /\ notice' \in TaskResults
  BY DEF Committed, OthersTyped, TaskResults
<1>11. agent' \in {"none", "running", "unknown", "interrupted"}
  BY DEF OthersTyped
<1>12. QED
  BY <1>6, <1>7, <1>8, <1>9, <1>10, <1>11 DEF OthersTyped

\* What a commit leaves of the pass.
LEMMA CommittedFacts ==
    ASSUME AutoInv, pass.at = "commit", NEW taken \in BOOLEAN, Committed(taken)
    PROVE  /\ PassTyped'
           /\ pass'.run = pass.run /\ pass'.at \in {"reconcile", "failed", "next"}
           /\ taken => pass'.at # "failed"
<1> USE DEF AutoInv
<1>1. PICK step \in {"reconcile", "failed", "next"} : step = Follows(pass.write.kind, taken)
  BY DEF Follows
<1>2. PICK arg \in {"b", None} : arg = IF step = "failed" THEN "b" ELSE None
  OBVIOUS
<1>3. pass' = [pass EXCEPT !.at = step, !.write = None, !.stale = FALSE, !.arg = arg]
  BY <1>1, <1>2 DEF Committed
<1>4. step \in Stops /\ arg \in Arguments /\ (arg = "b" => arg \in Errors)
  BY DEF Stops, Arguments, Errors
<1>5. /\ pass' \in Passes /\ pass'.at = step /\ pass'.run = pass.run
      /\ pass'.write = None /\ pass'.arg = arg
  BY <1>3, <1>4 DEF PassTyped, Passes
<1>6. PassTyped'
  BY <1>2, <1>4, <1>5 DEF PassTyped
<1>7. taken => step # "failed"
  BY <1>1 DEF Follows
<1>8. QED
  BY <1>5, <1>6, <1>7

\* A commit is taken only for the run that is on the record.
LEMMA CommitTakenKeeps == ASSUME AutoInv, CommitTaken PROVE AutoInv'
<1> USE DEF AutoInv
<1>1. /\ pass.at = "commit" /\ ~pass.stale /\ autorun' = pass.write.next
      /\ Committed(TRUE) /\ agent' = agent /\ troubles' = troubles
  BY DEF CommitTaken, At, Current
<1>2. OthersTyped'
  BY <1>1, CommittedTypes DEF OthersTyped
<1>3. /\ PassTyped' /\ pass'.run = pass.run
      /\ pass'.at \in {"reconcile", "failed", "next"} /\ pass'.at # "failed"
  BY <1>1, CommittedFacts
<1>4. pass.write \in Writes
  BY <1>1 DEF PassTyped, Passes
<1>5. autorun' \in Budgets
  BY <1>1, <1>4 DEF Writes
<1>6. autorun'.run = autorun.run /\ HaltIsPause(autorun')
  BY <1>1 DEF PassServes
<1>7. PassServes'
  BY <1>3, <1>6 DEF PassServes, Serving
<1>8. QED
  BY <1>2, <1>3, <1>5, <1>6, <1>7 DEF HaltIsPause

LEMMA CommitRefusedKeeps == ASSUME AutoInv, CommitRefused PROVE AutoInv'
<1> USE DEF AutoInv
<1>1. pass.at = "commit" /\ Committed(FALSE) /\ agent' = agent /\ autorun' = autorun
  BY DEF CommitRefused, At
<1>2. troubles' \in 0..MaxTroubles
  BY AutoAssumption DEF CommitRefused, Trouble, OthersTyped
<1>3. OthersTyped'
  BY <1>1, <1>2, CommittedTypes
<1>4. /\ PassTyped' /\ pass'.run = pass.run
      /\ pass'.at \in {"reconcile", "failed", "next"}
  BY <1>1, CommittedFacts
<1>5. PassServes'
  BY <1>1, <1>4 DEF PassServes, Mine, Open
<1>6. QED
  BY <1>1, <1>3, <1>4, <1>5

-----------------------------------------------------------------------------
(* Theorems *)

LEMMA PassStepKeeps == ASSUME AutoInv, PassStep PROVE AutoInv'
<1>1. CASE ReadRun \/ Maintain \/ Reconcile \/ Enrich \/ Wait
  BY <1>1, ReadRunKeeps, MaintainKeeps, ReconcileKeeps, EnrichKeeps, WaitKeeps
<1>2. CASE Pause \/ CompleteRun \/ Apply \/ Act \/ Clear
  BY <1>2, PauseKeeps, CompleteRunKeeps, ApplyKeeps, ActKeeps, ClearKeeps
<1>3. CASE FailureUnread \/ HandleFailure \/ CommitTaken \/ CommitRefused \/ EndPass
  BY <1>3, FailureUnreadKeeps, HandleFailureKeeps, CommitTakenKeeps, CommitRefusedKeeps,
     EndPassKeeps
<1>4. QED
  BY <1>1, <1>2, <1>3 DEF PassStep

\* The inductive invariant, kept by every step of the controller and of its world.
THEOREM AutoInvariant == AutoSpec => []AutoInv
<1>1. ASSUME AutoInv, [AutoNext]_runvars
      PROVE  AutoInv'
  <2>1. CASE StartRun
    BY <1>1, <2>1, StartRunKeeps
  <2>2. CASE Notify \/ WakeFires \/ AlarmFires \/ Refresh
    BY <1>1, <2>2, SignalKeeps
  <2>3. CASE Expire \/ CoolDown \/ AgentIsGone
    BY <1>1, <2>3, TimeKeeps
  <2>4. CASE TaskEnds \/ SomebodyCommits
    BY <1>1, <2>4, OtherCommitKeeps
  <2>5. CASE Restart
    BY <1>1, <2>5, RestartKeeps
  <2>6. CASE PassStep
    BY <1>1, <2>6, PassStepKeeps
  <2>7. CASE UNCHANGED runvars
    <3>1. UNCHANGED <<autorun, pass, again>> /\ OthersTyped'
      BY <1>1, <2>7 DEF runvars, AutoInv, OthersTyped
    <3>2. QED
      BY <1>1, <3>1, PassStays DEF AutoInv
  <2>8. QED
    BY <1>1, <2>1, <2>2, <2>3, <2>4, <2>5, <2>6, <2>7 DEF AutoNext
<1>2. QED
  BY <1>1, AutoInitial, PTL DEF AutoSpec
\* The types of the controller, from the invariant.
THEOREM AutoTypes == AutoSpec => []AutoTypeOK
<1>1. AutoInv => AutoTypeOK
  <2>1. AutoInv => pass \in Passes /\ autorun \in Budgets /\ OthersTyped
    BY DEF AutoInv, PassTyped
  <2>2. QED
    BY <2>1 DEF AutoInv, AutoTypeOK, PassTyped, HaltIsPause, Passes, Arguments, OthersTyped
<1>2. QED
  BY <1>1, AutoInvariant, PTL

\* The record changes by a new run, or for the run of the pass while that is open.
LEMMA RecordMoves ==
    ASSUME AutoInv, [AutoNext]_runvars
    PROVE  autorun' = autorun \/ autorun'.run > autorun.run \/ (Mine /\ Open(autorun))
<1>1. CASE StartRun
  BY <1>1 DEF StartRun, AutoInv, Budgets
<1>2. CASE Act
  <2>1. autorun' = autorun \/ Admits
    BY <1>2, Zenon DEF Act
  <2>2. Admits => Mine /\ Open(autorun)
    BY DEF Admits, Serves, Mine, Open
  <2>3. QED
    BY <2>1, <2>2
<1>3. CASE CommitTaken
  BY <1>3 DEF CommitTaken, At, Current, AutoInv, PassServes
<1>4. CASE ~StartRun /\ ~Act /\ ~CommitTaken
  <2>1. CASE PassStep
    BY <1>4, <2>1 DEF PassStep, ReadRun, Maintain, Reconcile, Enrich, Wait, Pause, CompleteRun,
          Apply, Clear, FailureUnread, HandleFailure, CommitRefused, EndPass, Rests
  <2>2. CASE ~PassStep
    BY <1>4, <2>2 DEF AutoNext, runvars, TaskEnds, Notify, WakeFires, AlarmFires, Refresh,
          Expire, CoolDown, SomebodyCommits, Restart, AgentIsGone
  <2>3. QED
    BY <2>1, <2>2
<1>5. QED
  BY <1>1, <1>2, <1>3, <1>4

\* A task is started for the run of the pass alone.
LEMMA AgentStarts ==
    ASSUME AutoInv, [AutoNext]_runvars, agent' = "running"
    PROVE  agent = "running" \/ Mine
<1>1. CASE Act
  <2>1. agent' = agent \/ Admits
    BY <1>1, Zenon DEF Act
  <2>2. QED
    BY <2>1 DEF Admits, Serves, Mine
<1>2. CASE PassStep /\ ~Act
  BY <1>2 DEF PassStep, ReadRun, Maintain, Reconcile, Enrich, Wait, Pause, CompleteRun, Apply,
        Clear, FailureUnread, HandleFailure, CommitTaken, CommitRefused, EndPass, Rests
<1>3. CASE Restart
  <2>1. agent' \in {"unknown", "interrupted"} \/ agent' = agent
    BY <1>3, Zenon DEF Restart
  <2>2. QED
    BY <2>1
<1>4. CASE ~PassStep /\ ~Restart
  BY <1>4 DEF AutoNext, runvars, StartRun, TaskEnds, Notify, WakeFires, AlarmFires, Refresh,
        Expire, CoolDown, SomebodyCommits, AgentIsGone
<1>5. QED
  BY <1>1, <1>2, <1>3, <1>4

\* A pass that was begun for a run that has been replaced changes nothing of the new one
\* and starts nothing, and a run that ended stays so.
THEOREM RunsAlwaysApart == AutoSpec => RunsStayApart
<1>1. ASSUME AutoInv, [AutoNext]_runvars
      PROVE  SupersededIsSilent /\ EndIsFinal
  <2>1. autorun' = autorun \/ autorun'.run > autorun.run \/ (Mine /\ Open(autorun))
    BY <1>1, RecordMoves
  <2>2. SupersededIsSilent
    BY <1>1, <2>1, AgentStarts DEF SupersededIsSilent, Mine
  <2>3. EndIsFinal
    BY <1>1, <2>1 DEF EndIsFinal, AutoInv, Budgets
  <2>4. QED
    BY <2>2, <2>3
<1>2. QED
  BY <1>1, AutoInvariant, PTL DEF AutoSpec, RunsStayApart

-----------------------------------------------------------------------------
(* The fuse *)

RateLimited == autorun.recovery # None /\ autorun.recovery.kind = "rate-limit"

\* The controller remembers at least the failures that happened in a row; there are
\* none while a run is paused, for to fuse it starts the row anew.
FuseMemory ==
    streak.cons > 0 =>
        /\ memo # None /\ memo.fp = streak.fp /\ memo.cons >= streak.cons
        /\ autorun.status \in {"running", "completed"}

\* Past the reconciliation the fuse has not blown, or waits for a rate limit.  The
\* memory is cleared only for a paused run, and for one that ends.
FusePass ==
    /\ pass.at \in {"enrich", "apply", "act"} /\ Fused(streak) => RateLimited
    /\ pass.at = "commit" /\ pass.write.kind = "consume" /\ ~pass.stale => autorun.status = "paused"
    /\ pass.at = "commit" /\ pass.write.kind = "complete" => pass.write.next.status = "completed"

FuseInv == AutoInv /\ FuseMemory /\ FusePass

LEMMA FuseFacts ==
    ASSUME AutoInv
    PROVE  /\ FuseAt \in Nat /\ FuseAt > 0 /\ streak.cons \in Nat
           /\ memo # None => memo.cons \in 0..FuseAt
           /\ Failure("a", 0).cons = 0
BY AutoAssumption DEF AutoInv, OthersTyped, Failures, Failure

\* Neither record nor memory change, and the pass is where no fuse is asked for, or
\* where it was.
LEMMA FuseQuiet ==
    ASSUME FuseInv, UNCHANGED <<autorun, memo, streak>>,
           \/ pass'.at \notin {"enrich", "apply", "act", "commit"}
           \/ /\ pass'.at = pass.at /\ pass'.write = pass.write
              /\ pass'.stale \/ pass'.stale = pass.stale
           \/ pass'.at \in {"enrich", "apply", "act"} /\ (Fused(streak) => RateLimited)
    PROVE  FuseMemory' /\ FusePass'
BY DEF FuseInv, FuseMemory, FusePass, RateLimited, Fused

LEMMA TurnsFacts ==
    ASSUME AutoInv, NEW step, NEW arg, Turns(step, arg)
    PROVE  pass'.at = step
BY DEF AutoInv, PassTyped, Passes, Turns

LEMMA PreparesFacts ==
    ASSUME AutoInv, NEW kind, NEW next, Prepares(kind, next)
    PROVE  pass'.at = "commit" /\ pass'.write.kind = kind /\ pass'.write.next = next
BY DEF AutoInv, PassTyped, Passes, Prepares

\* A commit is prepared with neither record nor memory changed.
LEMMA FusePrepares ==
    ASSUME FuseInv, NEW kind, NEW next, Prepares(kind, next), UNCHANGED <<autorun, memo, streak>>,
           kind = "consume" => autorun.status = "paused",
           kind = "complete" => next.status = "completed"
    PROVE  FuseMemory' /\ FusePass'
BY PreparesFacts DEF FuseInv, FuseMemory, FusePass

\* Signals, time and other hands on the record.
LEMMA FuseSignals ==
    ASSUME FuseInv,
           \/ Notify \/ WakeFires \/ AlarmFires \/ Refresh \/ Expire \/ CoolDown \/ AgentIsGone
           \/ TaskEnds \/ SomebodyCommits \/ StartRun \/ Restart
    PROVE  FuseMemory' /\ FusePass'
<1>1. CASE Notify \/ WakeFires \/ AlarmFires \/ Refresh
  <2>1. \E end : Request(end)
    BY <1>1 DEF Notify, WakeFires, AlarmFires, Refresh
  <2>2. PICK end : Request(end)
    BY <2>1
  <2>3. pass' = pass \/ pass'.at = "read"
    BY <2>2 DEF Request, Pass
  <2>4. QED
    BY <1>1, <2>3, FuseQuiet DEF Notify, WakeFires, AlarmFires, Refresh
<1>2. CASE Expire \/ CoolDown \/ AgentIsGone
  BY <1>2, FuseQuiet DEF Expire, CoolDown, AgentIsGone
<1>3. CASE TaskEnds \/ SomebodyCommits
  <2>1. PICK outdated \in BOOLEAN : /\ pass' = [pass EXCEPT !.stale = outdated]
                                    /\ outdated \/ pass.at # "commit"
    BY <1>3 DEF TaskEnds, SomebodyCommits
  <2>2. pass'.at = pass.at /\ pass'.write = pass.write /\ pass'.stale = outdated
    BY <2>1 DEF FuseInv, AutoInv, PassTyped, Passes
  <2>3. UNCHANGED <<autorun, memo, streak>>
    BY <1>3 DEF TaskEnds, SomebodyCommits
  <2>4. QED
    BY <2>1, <2>2, <2>3 DEF FuseInv, FuseMemory, FusePass, RateLimited, Fused
<1>4. CASE StartRun
  <2>1. streak'.cons = 0 /\ ~Fused(streak')
    BY <1>4, FuseFacts DEF FuseInv, StartRun, Fused
  <2>2. \/ pass'.at = "read"
        \/ pass'.stale /\ pass'.at = pass.at /\ pass'.write = pass.write
    BY <1>4 DEF StartRun, Request, Pass, FuseInv, AutoInv, PassTyped, Passes
  <2>3. QED
    BY <2>1, <2>2 DEF FuseInv, FuseMemory, FusePass
<1>5. CASE Restart
  <2>1. streak'.cons = 0 /\ pass'.at = "idle"
    BY <1>5, FuseFacts, IdleFacts DEF FuseInv, Restart
  <2>2. QED
    BY <2>1 DEF FuseMemory, FusePass
<1>6. QED
  BY <1>1, <1>2, <1>3, <1>4, <1>5

\* A pass reads, asks for the fuse, observes and decides.
LEMMA FuseDecides ==
    ASSUME FuseInv,
           \/ ReadRun \/ Maintain \/ Reconcile \/ Enrich \/ Wait \/ Pause \/ CompleteRun
           \/ Apply \/ FailureUnread \/ EndPass
    PROVE  FuseMemory' /\ FusePass'
<1> USE DEF Memory, Rests
<1>0. AutoInv
  BY DEF FuseInv
<1>1. CASE ReadRun
  <2>1. PICK step \in {"maintain", "reconcile", "next"} : pass'.at = step
    BY <1>1 DEF ReadRun, FuseInv, AutoInv, PassTyped, Passes, Turns
  <2>2. QED
    BY <1>1, <2>1, FuseQuiet DEF ReadRun
<1>2. CASE Maintain
  <2>1. CASE Turns("next", None)
    BY <1>0, <1>2, <2>1, TurnsFacts, FuseQuiet DEF Maintain
  <2>2. CASE ~Turns("next", None)
    <3>1. PICK kind \in {"pause or retry", "consume"} : \E next : Prepares(kind, next)
      BY <1>2, <2>2 DEF Maintain
    <3>2. autorun.status = "paused" /\ UNCHANGED <<autorun, memo, streak>>
      BY <1>2, <2>2 DEF Maintain, Troubled
    <3>3. QED
      BY <3>1, <3>2, FusePrepares
  <2>3. QED
    BY <2>1, <2>2
<1>3. CASE Reconcile
  <2>0. UNCHANGED <<autorun, memo, streak>>
    BY <1>3 DEF Reconcile
  <2>1. CASE \E arg : Turns("next", arg) \/ Turns("pause", arg)
    BY <1>0, <2>0, <2>1, TurnsFacts, FuseQuiet
  <2>2. CASE \E next : Prepares("fuse", next)
    BY <2>0, <2>2, FusePrepares
  <2>3. CASE ~FusePending /\ Turns("enrich", None)
    <3>1. Fused(streak) => RateLimited
      <4>1. SUFFICES ASSUME Fused(streak) PROVE RateLimited
        OBVIOUS
      <4>2. memo # None /\ memo.cons >= FuseAt /\ memo.cons \in 0..FuseAt
        BY <1>0, <4>1, FuseFacts DEF FuseInv, FuseMemory, Fused
      <4>3. Fused(memo)
        BY <1>0, <4>2, FuseFacts DEF Fused
      <4>4. QED
        BY <2>3, <4>2, <4>3 DEF FusePending, RateLimited
    <3>2. pass'.at = "enrich"
      BY <1>0, <2>3, TurnsFacts
    <3>3. QED
      BY <2>0, <3>1, <3>2, FuseQuiet
  <2>4. QED
    BY <1>3, <2>1, <2>2, <2>3 DEF Reconcile
<1>4. CASE Enrich
  <2>0. UNCHANGED <<autorun, memo, streak>> /\ pass.at = "enrich"
    BY <1>4 DEF Enrich, At
  <2>1. \E step, arg : Turns(step, arg) /\ step \in {"wait", "pause", "complete", "apply", "failed"}
    <3>1. CASE \E e \in Errors : Turns("failed", e)
      BY <3>1
    <3>2. CASE \E d \in Decisions : Turns(d[1], d[2])
      <4>1. PICK d \in Decisions : Turns(d[1], d[2])
        BY <3>2
      <4>2. d[1] \in {"wait", "pause", "complete", "apply"}
        BY <4>1 DEF Decisions
      <4>3. QED
        BY <4>1, <4>2
    <3>3. QED
      BY <1>4, <3>1, <3>2 DEF Enrich
  <2>2. pass'.at \in {"wait", "pause", "complete", "apply", "failed"}
    BY <1>0, <2>1, TurnsFacts
  <2>3. Fused(streak) => RateLimited
    BY <2>0 DEF FuseInv, FusePass
  <2>4. QED
    BY <2>0, <2>2, <2>3, FuseQuiet
<1>5. CASE Wait
  BY <1>0, <1>5, TurnsFacts, FuseQuiet DEF Wait
<1>6. CASE Pause
  BY <1>0, <1>6, TurnsFacts, FuseQuiet, FusePrepares DEF Pause
<1>7. CASE CompleteRun
  <2>0. UNCHANGED <<autorun, memo, streak>>
    BY <1>7 DEF CompleteRun
  <2>1. CASE Turns("next", None)
    BY <1>0, <2>0, <2>1, TurnsFacts, FuseQuiet
  <2>2. CASE Prepares("complete", [autorun EXCEPT !.status = "completed", !.reason = None,
                                                 !.recovery = None])
    <3>1. PICK next : next = [autorun EXCEPT !.status = "completed", !.reason = None,
                                             !.recovery = None]
      OBVIOUS
    <3>2. next.status = "completed"
      BY <1>0, <3>1 DEF AutoInv, Budgets
    <3>3. Prepares("complete", next)
      BY <2>2, <3>1
    <3>4. QED
      BY <2>0, <3>2, <3>3, FusePrepares
  <2>3. QED
    BY <1>7, <2>1, <2>2 DEF CompleteRun
<1>8. CASE Apply
  <2>1. UNCHANGED <<autorun, memo, streak>> /\ pass.at = "apply"
    BY <1>8 DEF Apply, At
  <2>2. \E step, arg : Turns(step, arg) /\ step \in {"act", "next"}
    BY <1>8 DEF Apply
  <2>3. pass'.at \in {"act", "next"}
    BY <1>0, <2>2, TurnsFacts
  <2>4. Fused(streak) => RateLimited
    BY <2>1 DEF FuseInv, FusePass
  <2>5. QED
    BY <2>1, <2>3, <2>4, FuseQuiet
<1>9. CASE FailureUnread
  BY <1>0, <1>9, TurnsFacts, FuseQuiet DEF FailureUnread
<1>10. CASE EndPass
  <2>1. pass'.at \in {"idle", "read"}
    BY <1>10, IdleFacts DEF EndPass, Pass
  <2>2. QED
    BY <1>10, <2>1, FuseQuiet DEF EndPass
<1>11. QED
  BY <1>1, <1>2, <1>3, <1>4, <1>5, <1>6, <1>7, <1>8, <1>9, <1>10

\* The action itself, and the memory it clears.
LEMMA FuseActs ==
    ASSUME FuseInv, Act \/ Clear
    PROVE  FuseMemory' /\ FusePass'
<1>0. AutoInv
  BY DEF FuseInv
<1>1. CASE Act
  <2>1. memo' = memo /\ streak' = streak
    BY <1>1 DEF Act, Memory
  <2>2. \E step, arg : /\ Turns(step, arg)
                       /\ step \in {"clear and go on", "clear", "next", "failed", "pause"}
    BY <1>1 DEF Act
  <2>3. pass'.at \in {"clear and go on", "clear", "next", "failed", "pause"}
    BY <1>0, <2>2, TurnsFacts
  <2>4. autorun' = autorun \/ autorun' = [autorun EXCEPT !.status = "completed", !.reason = None]
    BY <1>1, Zenon DEF Act
  <2>5. autorun'.status \in {autorun.status, "completed"}
    BY <1>0, <2>4 DEF AutoInv, Budgets
  <2>6. QED
    BY <2>1, <2>3, <2>5 DEF FuseInv, FuseMemory, FusePass
<1>2. CASE Clear
  <2>1. autorun' = autorun
    BY <1>2 DEF Clear, Rests
  <2>2. FuseMemory'
    <3>1. CASE Mine
      <4>1. streak' = Failure("a", 0)
        BY <1>2, <3>1 DEF Clear
      <4>2. QED
        BY <1>0, <4>1, FuseFacts DEF FuseMemory
    <3>2. CASE ~Mine
      <4>1. memo' = memo /\ streak' = streak
        BY <1>2, <3>2 DEF Clear
      <4>2. QED
        BY <2>1, <4>1 DEF FuseInv, FuseMemory
    <3>3. QED
      BY <3>1, <3>2
  <2>3. pass'.at \notin {"enrich", "apply", "act"}
        /\ (pass'.at = "commit" => pass'.write.kind \in {"clear", "clear and go on"})
    <3>1. CASE Turns("next", None)
      BY <1>0, <3>1, TurnsFacts
    <3>2. CASE Prepares(pass.at, [autorun EXCEPT !.recovery = None])
      BY <1>0, <1>2, <3>2, PreparesFacts DEF Clear
    <3>3. QED
      BY <1>2, <3>1, <3>2 DEF Clear
  <2>4. QED
    BY <2>2, <2>3 DEF FusePass
<1>3. QED
  BY <1>1, <1>2

\* A failure in a row with the last one is counted by the controller too.
LEMMA FuseCounts ==
    ASSUME FuseInv, NEW e \in Errors
    PROVE  /\ Attempt(e).fp = Counted(e).fp /\ Attempt(e).cons >= Counted(e).cons
           /\ Attempt(e) # None
<1>0. /\ FuseAt \in Nat /\ FuseAt > 0 /\ streak \in Failures
      /\ streak.cons \in Nat /\ streak.cons <= FuseAt
  BY AutoAssumption DEF FuseInv, AutoInv, OthersTyped, Failures
<1>1. PICK p : p = Previous
  OBVIOUS
<1>2. p.cons \in 0..FuseAt
  <2>1. \A f \in Failures : f.cons \in 0..FuseAt
    BY DEF Failures
  <2>2. p \in Failures
    <3>1. Failure("barrier", 0) \in Failures
      BY FailureFacts, AutoAssumption
    <3>2. autorun.recovery # None => autorun.recovery.failure \in Failures
      BY DEF FuseInv, AutoInv, Budgets, Recoveries
    <3>3. memo # None => memo \in Failures
      BY DEF FuseInv, AutoInv, OthersTyped
    <3>4. QED
      BY <1>1, <3>1, <3>2, <3>3 DEF Previous
  <2>3. QED
    BY <2>1, <2>2
<1>3. PICK m \in 0..FuseAt : m = IF p.fp # e THEN 1
                                 ELSE IF p.cons < FuseAt THEN p.cons + 1 ELSE FuseAt
  BY <1>0, <1>2
<1>4. PICK n \in 0..FuseAt : n = IF streak.fp # e THEN 1
                                 ELSE IF streak.cons < FuseAt THEN streak.cons + 1 ELSE FuseAt
  BY <1>0
<1>5. Attempt(e) = Failure(e, m) /\ Counted(e) = Failure(e, n)
  BY <1>1, <1>3, <1>4 DEF Attempt, Counted
<1>6. m >= n
  <2>1. CASE streak.cons = 0
    BY <1>0, <1>2, <1>3, <1>4, <2>1
  <2>2. CASE streak.cons > 0
    <3>1. p.fp = streak.fp /\ p.cons >= streak.cons
      BY <1>1, <2>2 DEF FuseInv, FuseMemory, Previous
    <3>2. QED
      BY <1>0, <1>2, <1>3, <1>4, <3>1
  <2>3. QED
    BY <1>0, <2>1, <2>2
<1>7. Failure(e, m) # None
  <2>1. Failure(e, m) \in Failures
    BY FailureFacts
  <2>2. None \notin Failures
    BY NoneAssumption
  <2>3. QED
    BY <2>1, <2>2
<1>8. QED
  BY <1>5, <1>6, <1>7, FailureFacts

\* A failure is counted, or a commit is prepared that leaves the row as it is.
LEMMA FuseFails ==
    ASSUME FuseInv, HandleFailure
    PROVE  FuseMemory' /\ FusePass'
<1>0. AutoInv /\ autorun' = autorun /\ pass.at = "failed"
  BY DEF FuseInv, HandleFailure, Rests, At
<1>1. PICK e \in Errors : e = pass.arg
  BY <1>0 DEF AutoInv, PassTyped
<1>2. FuseMemory'
  <2>1. \/ memo' = memo /\ streak' = streak
        \/ streak' = Failure("a", 0)
        \/ memo' = Attempt(e) /\ streak' = Counted(e) /\ autorun.status = "running"
    BY <1>1 DEF HandleFailure, Memory, Serves
  <2>2. CASE memo' = memo /\ streak' = streak
    BY <1>0, <2>2 DEF FuseInv, FuseMemory
  <2>3. CASE streak' = Failure("a", 0)
    BY <1>0, <2>3, FuseFacts DEF FuseMemory
  <2>4. CASE memo' = Attempt(e) /\ streak' = Counted(e) /\ autorun.status = "running"
    BY <1>0, <2>4, FuseCounts DEF FuseMemory
  <2>5. QED
    BY <2>1, <2>2, <2>3, <2>4
<1>3. \/ Turns("next", None)
      \/ \E kind \in {"pause or retry", "defer", "halt", "fuse pause", "transient"} :
             \E next : Prepares(kind, next)
  BY DEF HandleFailure
<1>4. pass'.at = "next"
      \/ (pass'.at = "commit" /\ pass'.write.kind \notin {"consume", "complete"})
  BY <1>0, <1>3, TurnsFacts, PreparesFacts
<1>5. QED
  BY <1>2, <1>4 DEF FusePass

\* The memory goes with a run that resumes from its pause, or that ends; a row ends
\* with a commit that does not leave the run running.
LEMMA FuseCommits ==
    ASSUME FuseInv, CommitTaken \/ CommitRefused
    PROVE  FuseMemory' /\ FusePass'
<1>0. AutoInv /\ pass.at = "commit"
  BY DEF FuseInv, CommitTaken, CommitRefused, At
<1>1. PICK taken \in BOOLEAN : /\ Committed(taken)
                               /\ taken => ~pass.stale /\ autorun' = pass.write.next
                               /\ ~taken => autorun' = autorun
  BY DEF CommitTaken, CommitRefused, Current
<1>2. pass'.at \in {"reconcile", "failed", "next"}
  BY <1>0, <1>1, CommittedFacts
<1>3. CASE ~taken
  <2>1. memo' = memo /\ streak' = streak /\ autorun' = autorun
    BY <1>1, <1>3 DEF Committed
  <2>2. QED
    BY <1>2, <2>1 DEF FuseInv, FuseMemory, FusePass
<1>4. CASE taken /\ pass.write.next.status # "running"
  <2>1. streak' = Failure("a", 0)
    BY <1>1, <1>4 DEF Committed
  <2>2. QED
    BY <1>0, <1>2, <2>1, FuseFacts DEF FuseMemory, FusePass
<1>5. CASE taken /\ pass.write.next.status = "running"
  <2>1. streak' = streak /\ autorun'.status = "running" /\ ~pass.stale
    BY <1>1, <1>5 DEF Committed
  <2>2. CASE pass.write.kind = "consume"
    <3>1. ~(streak.cons > 0)
      BY <1>0, <2>1, <2>2 DEF FuseInv, FuseMemory, FusePass
    <3>2. QED
      BY <1>2, <2>1, <3>1 DEF FuseMemory, FusePass
  <2>3. CASE pass.write.kind # "consume"
    <3>1. pass.write.kind # "complete"
      BY <1>0, <1>5 DEF FuseInv, FusePass
    <3>2. memo' = memo
      BY <1>1, <2>3, <3>1 DEF Committed
    <3>3. QED
      BY <1>2, <2>1, <3>2 DEF FuseInv, FuseMemory, FusePass
  <2>4. QED
    BY <2>2, <2>3
<1>6. QED
  BY <1>3, <1>4, <1>5

LEMMA FuseInitial == AutoInit => FuseInv
<1>1. SUFFICES ASSUME AutoInit PROVE FuseInv
  OBVIOUS
<1>2. AutoInv
  BY <1>1, AutoInitial
<1>3. streak.cons = 0 /\ pass.at = "idle"
  BY <1>1, <1>2, FuseFacts, IdleFacts DEF AutoInit
<1>4. QED
  BY <1>2, <1>3 DEF FuseInv, FuseMemory, FusePass

\* After equal failures have blown the fuse no action is taken before the pause is on
\* the record, but for a run that waits for a rate limit.
THEOREM FuseAlways == AutoSpec => []FuseHolds
<1>1. ASSUME FuseInv, [AutoNext]_runvars, AutoInv'
      PROVE  FuseInv'
  <2>1. CASE UNCHANGED runvars
    <3>1. UNCHANGED <<autorun, memo, streak>> /\ pass' = pass
      BY <2>1 DEF runvars
    <3>2. QED
      BY <1>1, <3>1, FuseQuiet DEF FuseInv
  <2>2. CASE PassStep
    BY <1>1, <2>2, FuseDecides, FuseActs, FuseFails, FuseCommits DEF PassStep, FuseInv
  <2>3. CASE ~PassStep /\ AutoNext
    BY <1>1, <2>3, FuseSignals DEF AutoNext, FuseInv
  <2>4. QED
    BY <1>1, <2>1, <2>2, <2>3
<1>2. FuseInv => (AutoTypeOK => FuseHolds)
  BY DEF FuseInv, FusePass, FuseHolds, RateLimited
<1>3. QED
  BY <1>1, <1>2, FuseInitial, AutoInvariant, AutoTypes, PTL DEF AutoSpec

(***************************************************************************)
(* Assessments, for any processes, inputs, runs, deaths and faults.  Two   *)
(* arguments.  What is claimed is in the hands of its owner until the      *)
(* owner gives it back or is dead, and is claimed once: so one agent runs. *)
(* What is in the hands of a publisher has the status that this publisher  *)
(* gave it: so a report is commented once.  The second one fails for a     *)
(* report that two callers have had in hand at once (assessment_twice), so *)
(* it is made of the others, S being the reports that it leaves out.       *)
(***************************************************************************)

RunRecords == [input : Inputs, phase : RunPhases, owner : Processes \cup {None}, status : Statuses]

DrainStands == {"asleep", "recover", "interrupt", "claim", "run", "fail", "publish", "sweep"}

PubStands == {"none", "lease", "mark", "dispatch", "readback", "confirm", "look",
              "keep", "report", "write", "catch", "rewrite"}

Pubs == [at : PubStands, run : Runs \cup {0}, answer : Answers \cup {None},
         status : Statuses \cup {None}]

Drains == [at : DrainStands, run : Runs \cup {0}, todo : SUBSET (Runs \cup (Runs \X Processes))]

\* The variables stay within their types; only what is claimed or cancelled has an owner.
QueueTypes ==
    /\ runs \in Seq(RunRecords) /\ Len(runs) <= MaxRuns
    /\ \A r \in DOMAIN runs :
          /\ runs[r].phase = "running" => runs[r].owner # None
          /\ runs[r].owner # None => runs[r].phase \in {"running", "cancelled"}
    /\ session \in [Runs -> {"none", "open", "finished", "broken"}]
    /\ alive \subseteq Processes /\ closed \subseteq Processes /\ aborted \subseteq Processes
    /\ drain \in [Processes -> Drains]
    /\ pub \in [Publishers -> Pubs]
    /\ fails \in [deaths : 0..MaxDeaths, faults : 0..MaxFaults]

\* One run is claimed at most, and a report has its proof.
ClaimsSound ==
    /\ \A r, s \in Claimed : r = s
    /\ \A r \in DOMAIN runs : runs[r].phase = "completed" => session[r] = "finished"

\* What a drain is at is there, and is its own; what it recovers was claimed by who is
\* named, and is interrupted only when that one is dead.
StandsWell(p, d) ==
    /\ d.at # "asleep" => p \in alive
    /\ d.at \in {"run", "fail", "publish"} => d.run \in DOMAIN runs
    /\ d.at \in {"run", "fail"} => runs[d.run].owner = p
    /\ d.at = "sweep" => \A r \in d.todo : r \in DOMAIN runs /\ runs[r].phase = "completed"
    /\ d.at # "sweep" => d.todo \subseteq Runs \X Processes
    /\ d.at \in {"recover", "interrupt"} =>
          /\ \A c, e \in d.todo : c = e
          /\ \A c \in d.todo : /\ c[1] \in DOMAIN runs /\ runs[c[1]].owner \in {c[2], None}
                                /\ runs[c[1]].phase # "queued"
    /\ d.at = "interrupt" => \A c \in d.todo : c[2] \notin alive

\* What is published is a report.
PubSound(w) ==
    IF pub[w].at = "none" THEN pub[w] = NotPublishing
    ELSE pub[w].run \in DOMAIN runs /\ runs[pub[w].run].phase = "completed"

QueueInv ==
    /\ QueueTypes /\ ClaimsSound
    /\ \A p \in Processes : StandsWell(p, drain[p])
    /\ \A w \in Publishers : PubSound(w)

Untouched(r) == comments[r] = 0 /\ r \notin late

\* A report that was never sent, or has failed, left nothing; one that is published is
\* there, once.
ReportsSound(S) ==
    /\ comments \in [Runs -> Nat] /\ late \subseteq Runs
    /\ \A r \in Runs \ S : /\ comments[r] \in {0, 1}
                           /\ r \in late => comments[r] = 0
                           /\ r \notin DOMAIN runs => Untouched(r)
    /\ \A r \in DOMAIN runs \ S : /\ runs[r].status \in {"pending", "failed"} => Untouched(r)
                                  /\ runs[r].status = "published" => comments[r] = 1

\* A sweep still has in front of it what nobody has taken.
SweepSound(S, p) ==
    drain[p].at = "sweep" =>
        \A r \in drain[p].todo \ S : runs[r].status = "pending" /\ pub[<<p, "drain">>].run # r

\* The status of a report in hand is what the publisher h has made of it.
HandsWell(h) ==
    LET status == runs[h.run].status IN
    /\ h.at \in {"lease", "mark"} => status = "pending"
    /\ h.at = "dispatch" => status = "unknown" /\ Untouched(h.run)
    /\ h.at = "readback" => /\ status = "unknown" /\ h.answer \in {"accepted", "lost"}
                            /\ h.answer = "accepted" => comments[h.run] = 1
    /\ h.at = "confirm" => status = "unknown" /\ comments[h.run] = 1
    /\ h.at \in {"look", "keep"} => status = "unknown"
    /\ h.at \in {"report", "write"} =>
          /\ status \in {"pending", "unknown"} /\ h.answer \in Answers
          /\ NeverHappened(h.answer) => Untouched(h.run)
          /\ status = "pending" => NeverHappened(h.answer)
    /\ h.at = "write" => h.status = status
    /\ h.at \in {"catch", "rewrite"} => status \in {"pending", "unknown"}

CommentInv(S) ==
    /\ ReportsSound(S)
    /\ \A p \in Processes : SweepSound(S, p)
    /\ \A w \in Publishers : pub[w].run \notin S => HandsWell(pub[w])

\* No report but those of S is in two hands.
Apart(S) == \A u, w \in Publishers : u # w => Hands(u) \cap Hands(w) \subseteq S

LEMMA NoOwner == None \notin Processes
  BY AssessmentAssumption

\* A run changes its phase and its owner.
Rerun(r, phase, owner) == runs' = [runs EXCEPT ![r].phase = phase, ![r].owner = owner]

LEMMA RunsAreSeq ==
    ASSUME NEW n \in Nat, NEW f \in [1..n -> RunRecords]
    PROVE  f \in Seq(RunRecords) /\ Len(f) = n
<1>1. DOMAIN f = 1..n /\ \A i \in 1..n : f[i] \in RunRecords
  OBVIOUS
<1>2. f \in Seq(RunRecords)
  BY <1>1
<1>3. QED
  BY <1>1, <1>2

\* A run that changes its phase and its owner stays a run, and the others stay as they are.
LEMMA RunChange ==
    ASSUME runs \in Seq(RunRecords), NEW r \in DOMAIN runs, NEW phase \in RunPhases,
           NEW owner \in Processes \cup {None},
           Rerun(r, phase, owner)
    PROVE  /\ runs' \in Seq(RunRecords) /\ Len(runs') = Len(runs) /\ DOMAIN runs' = DOMAIN runs
           /\ runs'[r].phase = phase /\ runs'[r].owner = owner /\ runs'[r].status = runs[r].status
           /\ \A q \in DOMAIN runs : q # r => runs'[q] = runs[q]
<1>1. DOMAIN runs = 1..Len(runs) /\ Len(runs) \in Nat /\ runs \in [1..Len(runs) -> RunRecords]
  OBVIOUS
<1>2. runs[r] \in RunRecords
  OBVIOUS
<1>3. PICK x : x = [runs[r] EXCEPT !.phase = phase, !.owner = owner]
  OBVIOUS
<1>4. x \in RunRecords /\ x.phase = phase /\ x.owner = owner /\ x.status = runs[r].status
  BY <1>2, <1>3 DEF RunRecords
<1>5. runs' = [runs EXCEPT ![r] = x]
  BY <1>1, <1>3 DEF Rerun
<1>6. runs' \in [1..Len(runs) -> RunRecords] /\ runs'[r] = x
      /\ \A q \in DOMAIN runs : q # r => runs'[q] = runs[q]
  BY <1>1, <1>4, <1>5
<1>7. runs' \in Seq(RunRecords) /\ Len(runs') = Len(runs)
  BY <1>1, <1>6, RunsAreSeq
<1>8. QED
  BY <1>1, <1>4, <1>6, <1>7

\* So does one whose publication changes its status.
LEMMA StatusChange ==
    ASSUME runs \in Seq(RunRecords), NEW r \in DOMAIN runs, NEW status \in Statuses,
           runs' = [runs EXCEPT ![r].status = status]
    PROVE  /\ runs' \in Seq(RunRecords) /\ Len(runs') = Len(runs) /\ DOMAIN runs' = DOMAIN runs
           /\ runs'[r].status = status
           /\ runs'[r].phase = runs[r].phase /\ runs'[r].owner = runs[r].owner
           /\ \A q \in DOMAIN runs : q # r => runs'[q] = runs[q]
<1>1. DOMAIN runs = 1..Len(runs) /\ Len(runs) \in Nat /\ runs \in [1..Len(runs) -> RunRecords]
  OBVIOUS
<1>2. runs[r] \in RunRecords
  OBVIOUS
<1>3. PICK x : x = [runs[r] EXCEPT !.status = status]
  OBVIOUS
<1>4. x \in RunRecords /\ x.status = status /\ x.phase = runs[r].phase /\ x.owner = runs[r].owner
  BY <1>2, <1>3 DEF RunRecords
<1>5. runs' = [runs EXCEPT ![r] = x]
  BY <1>1, <1>3
<1>6. runs' \in [1..Len(runs) -> RunRecords] /\ runs'[r] = x
      /\ \A q \in DOMAIN runs : q # r => runs'[q] = runs[q]
  BY <1>1, <1>4, <1>5
<1>7. runs' \in Seq(RunRecords) /\ Len(runs') = Len(runs)
  BY <1>1, <1>6, RunsAreSeq
<1>8. QED
  BY <1>1, <1>4, <1>6, <1>7

\* A count of deaths or faults stays within its bounds.
LEMMA FailsKept ==
    ASSUME fails \in [deaths : 0..MaxDeaths, faults : 0..MaxFaults],
           \/ Fault
           \/ fails' = fails
           \/ fails.deaths < MaxDeaths /\ fails' = [fails EXCEPT !.deaths = @ + 1]
    PROVE  fails' \in [deaths : 0..MaxDeaths, faults : 0..MaxFaults]
<1>1. CASE Fault
  <2>1. fails.faults + 1 \in 0..MaxFaults
    BY <1>1, AssessmentAssumption DEF Fault
  <2>2. PICK n \in 0..MaxFaults : n = fails.faults + 1
    BY <2>1
  <2>3. QED
    BY <1>1, <2>2 DEF Fault
<1>2. CASE fails' = fails
  BY <1>2
<1>3. CASE fails.deaths < MaxDeaths /\ fails' = [fails EXCEPT !.deaths = @ + 1]
  <2>1. fails.deaths + 1 \in 0..MaxDeaths
    BY <1>3, AssessmentAssumption
  <2>2. PICK n \in 0..MaxDeaths : n = fails.deaths + 1
    BY <2>1
  <2>3. QED
    BY <1>3, <2>2
<1>4. QED
  BY <1>1, <1>2, <1>3

LEMMA RunsTyped ==
    ASSUME QueueTypes
    PROVE  /\ runs \in Seq(RunRecords) /\ Len(runs) \in Nat /\ DOMAIN runs = 1..Len(runs)
           /\ DOMAIN runs \subseteq Runs /\ 0 \notin DOMAIN runs
           /\ \A r \in DOMAIN runs : /\ runs[r] \in RunRecords
                                     /\ runs[r].phase \in RunPhases /\ runs[r].status \in Statuses
                                     /\ runs[r].owner \in Processes \cup {None}
           /\ \A r \in DOMAIN runs : runs[r].phase # "cancelled" /\ runs[r].phase # "running"
                                        => runs[r].owner = None
<1>1. runs \in Seq(RunRecords) /\ Len(runs) <= MaxRuns
  BY DEF QueueTypes
<1>2. Len(runs) \in Nat /\ DOMAIN runs = 1..Len(runs) /\ \A r \in DOMAIN runs : runs[r] \in RunRecords
  BY <1>1
<1>3. DOMAIN runs \subseteq Runs /\ 0 \notin DOMAIN runs
  BY <1>1, <1>2, AssessmentAssumption DEF Runs
<1>4. QED
  BY <1>1, <1>2, <1>3 DEF QueueTypes, RunRecords

LEMMA QueueInitial == AssessmentInit => QueueInv /\ CommentInv({})
<1> SUFFICES ASSUME AssessmentInit PROVE QueueInv /\ CommentInv({})
  OBVIOUS
<1> USE DEF AssessmentInit
<1>1. QueueTypes
  <2>1. runs \in Seq(RunRecords) /\ Len(runs) = 0 /\ DOMAIN runs = {}
    OBVIOUS
  <2>2. Asleep \in Drains
    BY DEF Asleep, Drains, DrainStands
  <2>3. NotPublishing \in Pubs
    BY DEF NotPublishing, Pubs, PubStands
  <2>4. 0 \in 0..MaxDeaths /\ 0 \in 0..MaxFaults /\ 0 <= MaxRuns
    BY AssessmentAssumption
  <2>5. QED
    BY <2>1, <2>2, <2>3, <2>4 DEF QueueTypes
<1>2. DOMAIN runs = {} /\ ClaimsSound
  BY DEF ClaimsSound, Claimed
<1>3. \A p \in Processes : StandsWell(p, drain[p])
  BY DEF StandsWell, Asleep
<1>4. \A w \in Publishers : PubSound(w)
  BY DEF PubSound, NotPublishing
<1>5. CommentInv({})
  BY <1>2 DEF CommentInv, ReportsSound, SweepSound, HandsWell, Untouched, Asleep, NotPublishing
<1>6. QED
  BY <1>1, <1>2, <1>3, <1>4, <1>5 DEF QueueInv

(***************************************************************************)
(* What a step of the queue keeps                                          *)
(***************************************************************************)

\* A drain goes on, and nothing else changes.
LEMMA DrainMoves ==
    ASSUME QueueInv, NEW p \in Processes, NEW x \in Drains, StandsWell(p, x),
           Moves(p, x),
           UNCHANGED <<runs, session, alive, pub, closed>>, aborted' \subseteq Processes,
           Fault \/ fails' = fails
    PROVE  QueueInv'
<1>1. QueueTypes /\ ClaimsSound
  BY DEF QueueInv
<1>2. QueueTypes'
  <2>1. fails' \in [deaths : 0..MaxDeaths, faults : 0..MaxFaults]
    BY <1>1, FailsKept DEF QueueTypes
  <2>2. QED
    BY <1>1, <2>1 DEF QueueTypes, Moves
<1>3. ClaimsSound'
  BY <1>1 DEF ClaimsSound, Claimed
<1>4. ASSUME NEW q \in Processes PROVE StandsWell(q, drain[q])'
  <2>1. drain'[q] = IF q = p THEN x ELSE drain[q]
    BY <1>1 DEF QueueTypes, Moves
  <2>2. StandsWell(q, drain'[q])
    BY <2>1 DEF QueueInv
  <2>3. QED
    BY <2>2 DEF StandsWell
<1>5. \A w \in Publishers : PubSound(w)'
  BY DEF QueueInv, PubSound
<1>6. QED
  BY <1>2, <1>3, <1>4, <1>5 DEF QueueInv

\* A run that has not ended changes its phase and its owner, and one drain goes on.
LEMMA RunMoves ==
    ASSUME QueueInv, NEW p \in Processes, NEW x \in Drains, NEW r \in DOMAIN runs,
           NEW phase \in RunPhases \ {"queued"}, NEW owner \in Processes \cup {None},
           Rerun(r, phase, owner),
           Moves(p, x), StandsWell(p, x)',
           UNCHANGED <<alive, pub, closed>>, aborted' \subseteq Processes,
           Fault \/ fails' = fails,
           session' \in [Runs -> {"none", "open", "finished", "broken"}],
           \A q \in Runs : q # r => session'[q] = session[q],
           phase = "completed" => session'[r] = "finished",
           runs[r].phase # "completed",
           phase = "running" => owner # None,
           owner # None => /\ phase \in {"running", "cancelled"}
                           /\ owner = runs[r].owner \/ Claimed = {},
           \/ owner \in {runs[r].owner, None}
           \/ runs[r].phase = "queued",
           \A q \in Processes : q # p /\ drain[q].at \in {"run", "fail"} /\ drain[q].run = r =>
                                   owner = q
    PROVE  QueueInv'
<1>1. QueueTypes /\ ClaimsSound
  BY DEF QueueInv
<1>2. /\ runs' \in Seq(RunRecords) /\ Len(runs') = Len(runs) /\ DOMAIN runs' = DOMAIN runs
      /\ runs'[r].phase = phase /\ runs'[r].owner = owner
      /\ \A q \in DOMAIN runs : q # r => runs'[q] = runs[q]
  <2>1. runs \in Seq(RunRecords) /\ phase \in RunPhases
    BY <1>1 DEF QueueTypes
  <2>2. QED
    BY <2>1, RunChange
<1>3. DOMAIN runs \subseteq Runs
  BY <1>1, RunsTyped
<1>4. QueueTypes'
  <2>1. fails' \in [deaths : 0..MaxDeaths, faults : 0..MaxFaults]
    BY <1>1, FailsKept DEF QueueTypes
  <2>2. QED
    BY <1>1, <1>2, <2>1 DEF QueueTypes, Moves
<1>5. ClaimsSound'
  <2>1. \A s \in DOMAIN runs : s # r /\ runs'[s].owner # None => s \in Claimed
    BY <1>2 DEF Claimed
  <2>2. runs'[r].owner # None => r \in Claimed \/ Claimed = {}
    BY <1>2 DEF Claimed
  <2>3. \A s, t \in Claimed' : s = t
    BY <1>1, <1>2, <2>1, <2>2 DEF ClaimsSound, Claimed
  <2>4. \A s \in DOMAIN runs : runs'[s].phase = "completed" => session'[s] = "finished"
    BY <1>1, <1>2, <1>3 DEF ClaimsSound
  <2>5. QED
    BY <1>2, <2>3, <2>4 DEF ClaimsSound
<1>6. ASSUME NEW q \in Processes PROVE StandsWell(q, drain[q])'
  <2>1. CASE q = p
    BY <1>1, <2>1 DEF QueueTypes, Moves
  <2>2. CASE q # p
    <3>1. drain'[q] = drain[q]
      BY <1>1, <2>2 DEF QueueTypes, Moves
    <3>2. StandsWell(q, drain[q])
      BY DEF QueueInv
    <3>3. drain[q].at \in {"run", "fail"} => runs'[drain[q].run].owner = q
      BY <1>2, <2>2, <3>2 DEF StandsWell
    <3>4. drain[q].at = "sweep" => \A s \in drain[q].todo : runs'[s].phase = "completed"
      BY <1>2, <3>2 DEF StandsWell
    <3>5. drain[q].at \in {"recover", "interrupt"} =>
             \A c \in drain[q].todo : /\ runs'[c[1]].owner \in {c[2], None}
                                      /\ runs'[c[1]].phase # "queued"
      BY <1>2, <3>2 DEF StandsWell
    <3>6. QED
      BY <1>2, <3>1, <3>2, <3>3, <3>4, <3>5 DEF StandsWell
  <2>3. QED
    BY <2>1, <2>2
<1>7. ASSUME NEW w \in Publishers PROVE PubSound(w)'
  BY <1>2 DEF QueueInv, PubSound
<1>8. QED
  BY <1>4, <1>5, <1>6, <1>7 DEF QueueInv


\* The runs, but for what is said of their publication.
SameButStatus ==
    /\ runs' \in Seq(RunRecords) /\ Len(runs') = Len(runs) /\ DOMAIN runs' = DOMAIN runs
    /\ \A q \in DOMAIN runs : runs'[q].phase = runs[q].phase /\ runs'[q].owner = runs[q].owner

\* A publisher is at something else.
Takes(w, y) == pub' = [pub EXCEPT ![w] = y]

\* A publication goes on, with the drain it is of, if any.
LEMMA PubMoves ==
    ASSUME QueueInv, NEW p \in Processes, NEW x \in Drains, NEW w \in Publishers, NEW y \in Pubs,
           StandsWell(p, x), Moves(p, x), Takes(w, y),
           IF y.at = "none" THEN y = NotPublishing
           ELSE y.run \in DOMAIN runs /\ runs[y.run].phase = "completed",
           SameButStatus, UNCHANGED <<session, alive, closed, aborted>>,
           Fault \/ fails' = fails
    PROVE  QueueInv'
<1>1. QueueTypes /\ ClaimsSound
  BY DEF QueueInv
<1>2. QueueTypes'
  <2>1. fails' \in [deaths : 0..MaxDeaths, faults : 0..MaxFaults]
    BY <1>1, FailsKept DEF QueueTypes
  <2>2. QED
    BY <1>1, <2>1 DEF QueueTypes, SameButStatus, Moves, Takes
<1>3. ClaimsSound'
  BY <1>1 DEF ClaimsSound, Claimed, SameButStatus
<1>4. ASSUME NEW q \in Processes PROVE StandsWell(q, drain[q])'
  <2>1. drain'[q] = IF q = p THEN x ELSE drain[q]
    BY <1>1 DEF QueueTypes, Moves
  <2>2. StandsWell(q, drain'[q])
    BY <2>1 DEF QueueInv
  <2>3. QED
    BY <2>2 DEF StandsWell, SameButStatus
<1>5. ASSUME NEW v \in Publishers PROVE PubSound(v)'
  <2>1. pub'[v] = IF v = w THEN y ELSE pub[v]
    BY <1>1 DEF QueueTypes, Takes
  <2>2. PubSound(v)
    BY DEF QueueInv
  <2>3. QED
    BY <2>1, <2>2 DEF PubSound, SameButStatus
<1>6. QED
  BY <1>2, <1>3, <1>4, <1>5 DEF QueueInv

\* Where a drain may go, with what it is at.
LEMMA DrainAt ==
    ASSUME QueueInv, NEW p \in Processes
    PROVE  /\ drain[p] \in Drains /\ StandsWell(p, drain[p]) /\ Asleep \in Drains
           /\ drain = [drain EXCEPT ![p] = drain[p]]
           /\ StandsWell(p, Asleep) /\ Asleep.at = "asleep"
           /\ \A at \in DrainStands :
                 /\ [drain[p] EXCEPT !.at = at] \in Drains /\ [drain[p] EXCEPT !.at = at].at = at
                 /\ [drain[p] EXCEPT !.at = at].run = drain[p].run
                 /\ [drain[p] EXCEPT !.at = at].todo = drain[p].todo
<1>1. drain[p] \in Drains /\ drain = [drain EXCEPT ![p] = drain[p]]
  BY DEF QueueInv, QueueTypes
<1>2. Asleep \in Drains /\ StandsWell(p, Asleep) /\ Asleep.at = "asleep"
  BY DEF Asleep, Drains, DrainStands, StandsWell
<1>3. \A at \in DrainStands :
         /\ [drain[p] EXCEPT !.at = at] \in Drains /\ [drain[p] EXCEPT !.at = at].at = at
         /\ [drain[p] EXCEPT !.at = at].run = drain[p].run
         /\ [drain[p] EXCEPT !.at = at].todo = drain[p].todo
  BY <1>1 DEF Drains
<1>4. QED
  BY <1>1, <1>2, <1>3 DEF QueueInv

\* What has been gone through is taken from what there is to go through.
LEMMA DrainTodo ==
    ASSUME QueueInv, NEW p \in Processes, NEW at \in DrainStands, NEW c
    PROVE  LET x == [drain[p] EXCEPT !.at = at, !.todo = @ \ {c}]
           IN  x \in Drains /\ x.at = at /\ x.run = drain[p].run /\ x.todo = drain[p].todo \ {c}
  BY DrainAt DEF Drains

(***************************************************************************)
(* The user, the deaths, and the drain of a process                        *)
(***************************************************************************)

LEMMA SubmitKeeps ==
    ASSUME QueueInv, NEW input \in Inputs, NEW retry, Submit(input, retry)
    PROVE  /\ QueueInv'
           /\ DOMAIN runs \subseteq DOMAIN runs'
           /\ \A r \in DOMAIN runs : runs'[r] = runs[r]
           /\ \A r \in DOMAIN runs' : r \notin DOMAIN runs => runs'[r].status = "pending"
<1> DEFINE run == [input |-> input, phase |-> "queued", owner |-> None, status |-> "pending"]
<1>1. /\ Len(runs) < MaxRuns /\ runs' = Append(runs, run)
      /\ UNCHANGED <<session, alive, closed, drain, aborted, pub, comments, late, fails>>
  BY DEF Submit
<1>2. QueueTypes /\ ClaimsSound
  BY DEF QueueInv
<1>3. runs \in Seq(RunRecords) /\ Len(runs) \in Nat /\ DOMAIN runs = 1..Len(runs)
  BY <1>2, RunsTyped
<1>4. run \in RunRecords /\ run.phase = "queued" /\ run.owner = None /\ run.status = "pending"
  BY DEF RunRecords, RunPhases, Statuses
<1> HIDE DEF run
<1>5. /\ runs' \in Seq(RunRecords) /\ Len(runs') = Len(runs) + 1 /\ DOMAIN runs' = 1..(Len(runs) + 1)
      /\ \A r \in DOMAIN runs : runs'[r] = runs[r]
      /\ runs'[Len(runs) + 1] = run
  BY <1>1, <1>3, <1>4
<1>6. \A r \in DOMAIN runs' : r \in DOMAIN runs \/ runs'[r] = run
  BY <1>3, <1>5
<1>7. DOMAIN runs \subseteq DOMAIN runs'
  BY <1>3, <1>5
<1>8. QueueTypes'
  <2>1. Len(runs') <= MaxRuns
    BY <1>1, <1>3, <1>5, AssessmentAssumption
  <2>2. \A r \in DOMAIN runs' : /\ runs'[r].phase = "running" => runs'[r].owner # None
                                /\ runs'[r].owner # None => runs'[r].phase \in {"running", "cancelled"}
    BY <1>2, <1>4, <1>5, <1>6 DEF QueueTypes
  <2>3. QED
    BY <1>1, <1>2, <1>5, <2>1, <2>2 DEF QueueTypes
<1>9. ClaimsSound'
  BY <1>1, <1>2, <1>4, <1>5, <1>6 DEF ClaimsSound, Claimed
<1>10. \A p \in Processes : StandsWell(p, drain[p])'
  BY <1>1, <1>5, <1>7 DEF QueueInv, StandsWell
<1>11. \A w \in Publishers : PubSound(w)'
  BY <1>1, <1>5, <1>7 DEF QueueInv, PubSound
<1>12. QED
  BY <1>4, <1>5, <1>6, <1>7, <1>8, <1>9, <1>10, <1>11 DEF QueueInv

\* A step of the queue says nothing of a publication, and ends no run twice.
Advances ==
    /\ DOMAIN runs' = DOMAIN runs
    /\ \A r \in DOMAIN runs :
          /\ runs'[r].status = runs[r].status
          /\ runs[r].phase \notin {"queued", "running"} => runs'[r].phase = runs[r].phase

LEMMA RerunAdvances ==
    ASSUME QueueInv, NEW r \in DOMAIN runs, NEW phase \in RunPhases,
           NEW owner \in Processes \cup {None}, Rerun(r, phase, owner),
           runs[r].phase \in {"queued", "running"} \/ phase = runs[r].phase
    PROVE  Advances
  BY RunChange DEF Advances, QueueInv, QueueTypes

LEMMA CancelKeeps ==
    ASSUME QueueInv, NEW p \in Processes, NEW r \in Runs, Cancel(p, r)
    PROVE  QueueInv' /\ Advances
<1>1. /\ r \in DOMAIN runs /\ runs[r].phase \in {"queued", "running"}
      /\ runs' = [runs EXCEPT ![r].phase = "cancelled"]
      /\ aborted' = IF drain[p].at = "run" /\ drain[p].run = r THEN aborted \cup {p} ELSE aborted
      /\ UNCHANGED <<session, alive, closed, drain, pub, comments, late, fails>>
  BY DEF Cancel
<1>2. QueueTypes /\ runs[r].owner \in Processes \cup {None}
  BY <1>1, RunsTyped DEF QueueInv
<1>3. PICK owner \in Processes \cup {None} : owner = runs[r].owner
  BY <1>2
<1>4. Rerun(r, "cancelled", owner)
  BY <1>1, <1>2, <1>3, RunsTyped DEF Rerun, RunRecords
<1>5. "cancelled" \in RunPhases \ {"queued"} /\ "cancelled" \in RunPhases
  BY DEF RunPhases
<1>6. aborted' \subseteq Processes
  BY <1>1, <1>2 DEF QueueTypes
<1>7. PICK x \in Drains : x = drain[p]
  BY DrainAt
<1>8. StandsWell(p, x)'
  <2>1. /\ DOMAIN runs' = DOMAIN runs /\ runs'[r].phase = "cancelled" /\ runs'[r].owner = owner
        /\ \A q \in DOMAIN runs : q # r => runs'[q] = runs[q]
    BY <1>1, <1>2, <1>4, <1>5, RunChange DEF QueueTypes
  <2>2. StandsWell(p, x)
    BY <1>7, DrainAt
  <2>3. QED
    BY <1>1, <1>3, <2>1, <2>2 DEF StandsWell
<1>9. Moves(p, x)
  BY <1>1, <1>7, DrainAt DEF Moves
<1>10. \A q \in Processes : q # p /\ drain[q].at \in {"run", "fail"} /\ drain[q].run = r => owner = q
  BY <1>3 DEF QueueInv, StandsWell
<1>11. session' \in [Runs -> {"none", "open", "finished", "broken"}]
  BY <1>1, <1>2 DEF QueueTypes
<1>12. QueueInv'
  BY <1>1, <1>3, <1>4, <1>5, <1>6, <1>8, <1>9, <1>10, <1>11, RunMoves
<1>13. QED
  BY <1>1, <1>4, <1>5, <1>12, RerunAdvances


\* A step that says nothing of a publication, and begins no sweep.
Quiet ==
    /\ Advances /\ UNCHANGED <<pub, comments, late>>
    /\ \A q \in Processes : drain'[q].at = "sweep" => drain'[q] = drain[q]

LEMMA MovesQuietly ==
    ASSUME QueueInv, NEW p \in Processes, NEW x \in Drains, Moves(p, x), x.at # "sweep" \/ x = drain[p],
           Advances, UNCHANGED <<pub, comments, late>>
    PROVE  Quiet
<1>1. \A q \in Processes : drain'[q] = IF q = p THEN x ELSE drain[q]
  BY DEF Moves, QueueInv, QueueTypes
<1>2. QED
  BY <1>1 DEF Quiet

LEMMA SameAdvances == ASSUME runs' = runs PROVE Advances
  BY DEF Advances

LEMMA CloseKeeps == ASSUME QueueInv, NEW p \in Processes, Close(p) PROVE QueueInv' /\ Quiet
<1>1. /\ closed' = closed \cup {p}
      /\ aborted' = IF drain[p].at = "run" THEN aborted \cup {p} ELSE aborted
      /\ UNCHANGED <<runs, session, alive, drain, pub, comments, late, fails>>
  BY DEF Close
<1>2. QueueTypes'
  BY <1>1 DEF QueueInv, QueueTypes
<1>3. ClaimsSound' /\ (\A q \in Processes : StandsWell(q, drain[q])') /\ \A w \in Publishers : PubSound(w)'
  BY <1>1 DEF QueueInv, ClaimsSound, Claimed, StandsWell, PubSound
<1>4. QED
  BY <1>1, <1>2, <1>3, SameAdvances DEF QueueInv, Quiet

LEMMA DiesKeeps ==
    ASSUME QueueInv, NEW p \in Processes, Dies(p)
    PROVE  /\ QueueInv' /\ Advances /\ UNCHANGED <<comments, late>>
           /\ \A q \in Processes : drain'[q].at = "sweep" => drain'[q] = drain[q]
           /\ \A w \in Publishers : pub'[w] = NotPublishing \/ pub'[w] = pub[w]
<1>1. /\ alive' = alive \ {p} /\ fails.deaths < MaxDeaths
      /\ drain' = [drain EXCEPT ![p] = Asleep]
      /\ pub' = [w \in Publishers |-> IF w[1] = p THEN NotPublishing ELSE pub[w]]
      /\ fails' = [fails EXCEPT !.deaths = @ + 1]
      /\ UNCHANGED <<runs, session, closed, aborted, comments, late>>
  BY DEF Dies
<1>2. QueueTypes /\ ClaimsSound
  BY DEF QueueInv
<1>3. \A q \in Processes : drain'[q] = IF q = p THEN Asleep ELSE drain[q]
  BY <1>1, <1>2 DEF QueueTypes
<1>4. \A w \in Publishers : pub'[w] = IF w[1] = p THEN NotPublishing ELSE pub[w]
  BY <1>1
<1>5. NotPublishing \in Pubs /\ NotPublishing.at = "none"
  BY DEF NotPublishing, Pubs, PubStands
<1>6. QueueTypes'
  <2>1. fails' \in [deaths : 0..MaxDeaths, faults : 0..MaxFaults]
    BY <1>1, <1>2, FailsKept DEF QueueTypes
  <2>2. drain' \in [Processes -> Drains]
    BY <1>1, <1>2, DrainAt DEF QueueTypes
  <2>3. pub' \in [Publishers -> Pubs]
    BY <1>1, <1>2, <1>5 DEF QueueTypes
  <2>4. QED
    BY <1>1, <1>2, <2>1, <2>2, <2>3 DEF QueueTypes
<1>7. ClaimsSound'
  BY <1>1, <1>2 DEF ClaimsSound, Claimed
<1>8. ASSUME NEW q \in Processes PROVE StandsWell(q, drain[q])'
  <2>1. CASE q = p
    BY <1>3, <2>1 DEF StandsWell, Asleep
  <2>2. CASE q # p
    BY <1>1, <1>3, <2>2 DEF StandsWell, QueueInv
  <2>3. QED
    BY <2>1, <2>2
<1>9. ASSUME NEW w \in Publishers PROVE PubSound(w)'
  BY <1>1, <1>4, <1>5 DEF QueueInv, PubSound
<1>10. \A q \in Processes : drain'[q].at = "sweep" => drain'[q] = drain[q]
  BY <1>3 DEF Asleep
<1>11. QED
  BY <1>1, <1>4, <1>6, <1>7, <1>8, <1>9, <1>10, SameAdvances DEF QueueInv

LEMMA WakeKeeps == ASSUME QueueInv, NEW p \in Processes, Wake(p) PROVE QueueInv' /\ Quiet
<1>1. PICK x : x = [Asleep EXCEPT !.at = "recover", !.todo = Claims]
  OBVIOUS
<1>2. /\ p \in alive /\ Moves(p, x)
      /\ UNCHANGED <<runs, session, alive, pub, closed, aborted, comments, late, fails>>
  BY <1>1 DEF Wake, Draining, Elsewhere, NoFault
<1>3. QueueTypes /\ ClaimsSound
  BY DEF QueueInv
<1>4. /\ Claims \subseteq Runs \X Processes
      /\ \A c \in Claims : c[1] \in Claimed /\ c[2] = runs[c[1]].owner
      /\ \A c, d \in Claims : c = d
  <2>1. \A r \in Claimed : r \in Runs /\ runs[r].owner \in Processes
    BY <1>3, RunsTyped DEF Claimed
  <2>2. \A c \in Claims : c[1] \in Claimed /\ c[2] = runs[c[1]].owner /\ c \in Runs \X Processes
    BY <2>1 DEF Claims
  <2>3. \A c, d \in Claims : c = d
    BY <1>3 DEF Claims, ClaimsSound
  <2>4. QED
    BY <2>2, <2>3
<1>5. x.at = "recover" /\ x.todo = Claims /\ x.run = 0
  BY <1>1 DEF Asleep
<1>6. x \in Drains
  <2>1. Claims \in SUBSET (Runs \cup (Runs \X Processes))
    BY <1>4
  <2> HIDE DEF Claims
  <2>2. QED
    BY <1>1, <2>1 DEF Asleep, Drains, DrainStands
<1>7. StandsWell(p, x)
  <2>1. \A c \in Claims : /\ c[1] \in DOMAIN runs /\ runs[c[1]].owner \in {c[2], None}
                          /\ runs[c[1]].phase # "queued"
    BY <1>3, <1>4 DEF Claimed, QueueTypes
  <2>2. QED
    BY <1>2, <1>4, <1>5, <2>1 DEF StandsWell
<1>8. QueueInv'
  BY <1>2, <1>3, <1>6, <1>7, DrainMoves DEF QueueTypes
<1>9. QED
  BY <1>2, <1>5, <1>6, <1>8, SameAdvances, MovesQuietly

\* A drain goes elsewhere with what it has.
LEMMA GoesKeeps ==
    ASSUME QueueInv, NEW p \in Processes, NEW x \in Drains, StandsWell(p, x), Moves(p, x),
           x.at # "sweep", UNCHANGED <<runs, session, aborted, pub>>, Elsewhere, Fault \/ NoFault
    PROVE  QueueInv' /\ Quiet
<1>1. UNCHANGED <<alive, closed, comments, late>> /\ (Fault \/ fails' = fails)
  BY DEF Elsewhere, NoFault
<1>2. aborted' \subseteq Processes
  BY DEF QueueInv, QueueTypes
<1>3. QueueInv'
  BY <1>1, <1>2, DrainMoves
<1>4. QED
  BY <1>1, <1>3, SameAdvances, MovesQuietly

LEMMA PassOverKeeps == ASSUME QueueInv, NEW p \in Processes, PassOver(p) PROVE QueueInv' /\ Quiet
<1>1. PICK claim \in drain[p].todo : Moves(p, [drain[p] EXCEPT !.todo = @ \ {claim}])
  BY DEF PassOver
<1>2. /\ p \in alive /\ drain[p].at = "recover"
      /\ Elsewhere /\ NoFault /\ UNCHANGED <<runs, session, aborted, pub>>
  BY DEF PassOver, Draining
<1>3. PICK x : x = [drain[p] EXCEPT !.todo = @ \ {claim}]
  OBVIOUS
<1>4. drain[p] \in Drains /\ StandsWell(p, drain[p])
  BY DrainAt
<1>5. x \in Drains /\ x.at = "recover" /\ x.run = drain[p].run /\ x.todo \subseteq drain[p].todo
  BY <1>2, <1>3, <1>4 DEF Drains
<1>6. StandsWell(p, x)
  BY <1>2, <1>4, <1>5 DEF StandsWell
<1>7. QED
  BY <1>1, <1>2, <1>3, <1>5, <1>6, GoesKeeps

\* A run that has its proof is completed, and is no longer claimed.
LEMMA CompleteIs ==
    ASSUME QueueInv, NEW r \in DOMAIN runs, Completable(r), Complete(r)
    PROVE  /\ Rerun(r, "completed", None) /\ runs[r].phase = "running" /\ runs[r].owner # None
           /\ "completed" \in RunPhases \ {"queued"}
  BY DEF Complete, Completable, Rerun, RunPhases

\* A run that fails is no longer claimed.
LEMMA FailIs ==
    ASSUME QueueInv, NEW r \in Claimed, NEW phase \in {"failed", "interrupted"}, Fail(r, phase)
    PROVE  \E to \in RunPhases \ {"queued", "running", "completed"} :
              /\ Rerun(r, to, None) /\ r \in DOMAIN runs /\ runs[r].phase # "completed"
              /\ runs[r].phase = "running" \/ to = runs[r].phase
<1>1. r \in DOMAIN runs /\ runs[r].phase \in {"running", "cancelled"}
  BY DEF Claimed, QueueInv, QueueTypes
<1>2. CASE runs[r].phase = "cancelled"
  <2>1. Rerun(r, "cancelled", None)
    BY <1>2 DEF Fail, Rerun
  <2>2. QED
    BY <1>1, <1>2, <2>1 DEF RunPhases
<1>3. CASE runs[r].phase = "running"
  <2>1. Rerun(r, phase, None)
    BY <1>3 DEF Fail, Rerun
  <2>2. phase \in RunPhases \ {"queued", "running", "completed"}
    BY DEF RunPhases
  <2>3. QED
    BY <1>1, <1>3, <2>1, <2>2
<1>4. QED
  BY <1>1, <1>2, <1>3

\* A claim is given back, and the drain that does so goes on.
LEMMA GivesBackKeeps ==
    ASSUME QueueInv, NEW p \in Processes, NEW x \in Drains, NEW r \in DOMAIN runs,
           NEW phase \in RunPhases \ {"queued", "running"}, Rerun(r, phase, None),
           Moves(p, x), StandsWell(p, x)', x.at # "sweep",
           runs[r].phase = "running" \/ (phase = runs[r].phase /\ phase # "completed"),
           phase = "completed" => session[r] = "finished",
           \A q \in Processes : q # p /\ drain[q].at \in {"run", "fail"} => drain[q].run # r,
           Elsewhere, NoFault, UNCHANGED <<session, aborted, pub>>
    PROVE  QueueInv' /\ Quiet
<1>1. UNCHANGED <<alive, closed, comments, late, fails>>
  BY DEF Elsewhere, NoFault
<1>2. QueueTypes
  BY DEF QueueInv
<1>3. session' \in [Runs -> {"none", "open", "finished", "broken"}] /\ aborted' \subseteq Processes
  BY <1>2 DEF QueueTypes
<1>4. phase \in RunPhases \ {"queued"} /\ phase \in RunPhases /\ None \in Processes \cup {None}
  OBVIOUS
<1>5. QueueInv'
  BY <1>1, <1>3, <1>4, RunMoves
<1>6. Advances
  BY <1>4, RerunAdvances
<1>7. QED
  BY <1>1, <1>5, <1>6, MovesQuietly


\* Who is dead runs no agent.
LEMMA DeadRunNothing ==
    ASSUME QueueInv, NEW r \in DOMAIN runs, runs[r].owner # None, runs[r].owner \notin alive
    PROVE  \A q \in Processes : drain[q].at \in {"run", "fail"} => drain[q].run # r
  BY DEF QueueInv, StandsWell

LEMMA RejectsKeeps ==
    ASSUME QueueInv, NEW p \in Processes, Rejects(p),
           UNCHANGED <<runs, session, aborted, pub>>, Elsewhere, Fault \/ NoFault
    PROVE  QueueInv' /\ Quiet
<1>1. PICK x \in Drains : x = Asleep
  BY DrainAt
<1>2. Moves(p, x) /\ StandsWell(p, x) /\ x.at # "sweep"
  BY <1>1, DrainAt DEF Rejects
<1>3. QED
  BY <1>2, GoesKeeps

LEMMA RecoverKeeps == ASSUME QueueInv, NEW p \in Processes, Recover(p) PROVE QueueInv' /\ Quiet
<1>1. PICK claim \in drain[p].todo : claim[2] \notin alive /\ RecoverClaim(p, claim)
  BY DEF Recover
<1>2. /\ p \in alive /\ drain[p].at = "recover"
      /\ Elsewhere /\ UNCHANGED <<session, aborted, pub>>
  BY DEF Recover, Draining
<1>3. drain[p] \in Drains /\ StandsWell(p, drain[p])
  BY DrainAt
<1>4. PICK r : r = claim[1]
  OBVIOUS
<1>5. /\ r \in DOMAIN runs /\ runs[r].owner \in {claim[2], None}
      /\ \A c \in drain[p].todo : c = claim
      /\ drain[p].todo \subseteq Runs \X Processes
  BY <1>1, <1>2, <1>3, <1>4 DEF StandsWell
<1>6. CASE /\ Proved(r) /\ Completable(r) /\ Complete(r) /\ NoFault
           /\ Moves(p, [drain[p] EXCEPT !.todo = @ \ {claim}])
  <2>1. PICK x : x = [drain[p] EXCEPT !.todo = @ \ {claim}]
    OBVIOUS
  <2>2. x \in Drains /\ x.at = "recover" /\ x.todo = {}
    BY <1>2, <1>3, <1>5, <2>1 DEF Drains
  <2>3. Moves(p, x)
    BY <1>6, <2>1
  <2>4. StandsWell(p, x)'
    BY <1>2, <2>2 DEF StandsWell, Elsewhere
  <2>5. /\ Rerun(r, "completed", None) /\ runs[r].phase = "running" /\ runs[r].owner # None
        /\ "completed" \in RunPhases \ {"queued", "running"}
    BY <1>5, <1>6, CompleteIs
  <2>6. \A q \in Processes : drain[q].at \in {"run", "fail"} => drain[q].run # r
    BY <1>1, <1>5, <2>5, DeadRunNothing
  <2>7. session[r] = "finished"
    BY <1>6 DEF Proved
  <2>8. QED
    BY <1>2, <1>5, <1>6, <2>2, <2>3, <2>4, <2>5, <2>6, <2>7, GivesBackKeeps
<1>7. CASE (Fault \/ NoFault) /\ UNCHANGED runs /\ Goes(p, "interrupt")
  <2>1. PICK x : x = [drain[p] EXCEPT !.at = "interrupt"]
    OBVIOUS
  <2>2. "interrupt" \in DrainStands
    BY DEF DrainStands
  <2>3. x \in Drains /\ x.at = "interrupt" /\ x.todo = drain[p].todo
    BY <2>1, <2>2, DrainAt
  <2>4. StandsWell(p, x)
    BY <1>1, <1>2, <1>3, <1>5, <2>3 DEF StandsWell
  <2>5. Moves(p, x)
    BY <1>7, <2>1 DEF Goes
  <2>6. QED
    BY <1>2, <1>7, <2>3, <2>4, <2>5, GoesKeeps
<1>8. QED
  BY <1>1, <1>4, <1>6, <1>7 DEF RecoverClaim

LEMMA InterruptKeeps == ASSUME QueueInv, NEW p \in Processes, Interrupt(p) PROVE QueueInv' /\ Quiet
<1>1. PICK claim \in drain[p].todo : InterruptClaim(p, claim)
  BY DEF Interrupt
<1>2. /\ p \in alive /\ drain[p].at = "interrupt"
      /\ Elsewhere /\ UNCHANGED <<session, aborted, pub>>
  BY DEF Interrupt, Draining
<1>3. drain[p] \in Drains /\ StandsWell(p, drain[p])
  BY DrainAt
<1>4. PICK r : r = claim[1]
  OBVIOUS
<1>5. /\ r \in DOMAIN runs /\ runs[r].owner \in {claim[2], None} /\ claim[2] \notin alive
      /\ \A c \in drain[p].todo : c = claim
      /\ drain[p].todo \subseteq Runs \X Processes
  BY <1>1, <1>2, <1>3, <1>4 DEF StandsWell
<1>6. CASE /\ r \in Claimed /\ Fail(r, "interrupted") /\ NoFault
           /\ Moves(p, [drain[p] EXCEPT !.at = "recover", !.todo = @ \ {claim}])
  <2>1. PICK x : x = [drain[p] EXCEPT !.at = "recover", !.todo = @ \ {claim}]
    OBVIOUS
  <2>2. x \in Drains /\ x.at = "recover" /\ x.todo = {}
    <3>1. "recover" \in DrainStands
      BY DEF DrainStands
    <3>2. QED
      BY <1>3, <1>5, <2>1, <3>1 DEF Drains
  <2>3. Moves(p, x)
    BY <1>6, <2>1
  <2>4. StandsWell(p, x)'
    BY <1>2, <2>2 DEF StandsWell, Elsewhere
  <2>5. PICK to \in RunPhases \ {"queued", "running", "completed"} :
           Rerun(r, to, None) /\ (runs[r].phase = "running" \/ to = runs[r].phase)
    BY <1>6, FailIs
  <2>6. runs[r].owner # None
    BY <1>6 DEF Claimed
  <2>7. \A q \in Processes : drain[q].at \in {"run", "fail"} => drain[q].run # r
    BY <1>5, <2>6, DeadRunNothing
  <2>8. to \in RunPhases \ {"queued", "running"} /\ to # "completed"
    OBVIOUS
  <2>9. QED
    BY <1>2, <1>5, <1>6, <2>2, <2>3, <2>4, <2>5, <2>7, <2>8, GivesBackKeeps
<1>7. CASE (Fault \/ NoFault) /\ UNCHANGED runs /\ Rejects(p)
  BY <1>2, <1>7, RejectsKeeps
<1>8. QED
  BY <1>1, <1>4, <1>6, <1>7 DEF InterruptClaim

LEMMA AllRecoveredKeeps == ASSUME QueueInv, NEW p \in Processes, AllRecovered(p) PROVE QueueInv' /\ Quiet
<1>1. /\ p \in alive /\ drain[p].at = "recover" /\ drain[p].todo = {} /\ Goes(p, "claim")
      /\ Elsewhere /\ NoFault /\ UNCHANGED <<runs, session, aborted, pub>>
  BY DEF AllRecovered, Draining
<1>2. PICK x : x = [drain[p] EXCEPT !.at = "claim"]
  OBVIOUS
<1>3. "claim" \in DrainStands
  BY DEF DrainStands
<1>4. x \in Drains /\ x.at = "claim" /\ x.todo = {}
  BY <1>1, <1>2, <1>3, DrainAt
<1>5. Moves(p, x) /\ StandsWell(p, x)
  BY <1>1, <1>2, <1>4 DEF Goes, StandsWell
<1>6. QED
  BY <1>1, <1>4, <1>5, GoesKeeps

\* A run is claimed while no other one is.
LEMMA ClaimKeeps == ASSUME QueueInv, NEW p \in Processes, Claim(p) PROVE QueueInv' /\ Quiet
<1>1. /\ p \in alive /\ Claimable(p) /\ Elsewhere /\ pub' = pub
      /\ \/ \E r \in Queued : ClaimRun(p, r)
         \/ Rejects(p) /\ Fault /\ UNCHANGED <<runs, session, aborted>>
  BY DEF Claim, Draining
<1>2. QueueTypes /\ None \notin Processes
  BY NoOwner DEF QueueInv
<1>3. ASSUME NEW r \in Queued, ClaimRun(p, r) PROVE QueueInv' /\ Quiet
  <2>1. /\ runs' = [runs EXCEPT ![r].phase = "running", ![r].owner = p]
        /\ session' = [session EXCEPT ![r] = "open"]
        /\ aborted' = aborted \ {p}
        /\ Moves(p, [Asleep EXCEPT !.at = "run", !.run = r]) /\ fails' = fails
    BY <1>3 DEF ClaimRun, NoFault
  <2>2. r \in DOMAIN runs /\ runs[r].phase = "queued" /\ r \in Runs /\ Claimed = {}
    BY <1>1, <1>2, <1>3, RunsTyped DEF Queued, Claimable
  <2>3. PICK x : x = [Asleep EXCEPT !.at = "run", !.run = r]
    OBVIOUS
  <2>4. x.at = "run" /\ x.run = r /\ x.todo = {}
    BY <2>3 DEF Asleep
  <2>5. x \in Drains
    BY <2>2, <2>3 DEF Asleep, Drains, DrainStands
  <2>6. Moves(p, x) /\ Rerun(r, "running", p)
    BY <2>1, <2>3 DEF Rerun
  <2>7. "running" \in RunPhases \ {"queued"} /\ "running" \in RunPhases /\ p \in Processes \cup {None}
    BY DEF RunPhases
  <2>8. StandsWell(p, x)'
    <3>1. DOMAIN runs' = DOMAIN runs /\ runs'[r].owner = p
      BY <1>2, <2>2, <2>6, <2>7, RunChange DEF QueueTypes
    <3>2. QED
      BY <1>1, <2>2, <2>4, <3>1 DEF StandsWell, Elsewhere
  <2>9. /\ session' \in [Runs -> {"none", "open", "finished", "broken"}]
        /\ \A q \in Runs : q # r => session'[q] = session[q]
        /\ aborted' \subseteq Processes
    BY <1>2, <2>1, <2>2 DEF QueueTypes
  <2>10. \A q \in Processes : q # p /\ drain[q].at \in {"run", "fail"} /\ drain[q].run = r => p = q
    <3> SUFFICES ASSUME NEW q \in Processes, drain[q].at \in {"run", "fail"}, drain[q].run = r PROVE FALSE
      OBVIOUS
    <3>1. runs[r].owner = q
      BY DEF QueueInv, StandsWell
    <3>2. QED
      BY <1>2, <2>2, <3>1 DEF QueueTypes
  <2>11. UNCHANGED <<alive, closed, comments, late, pub>>
    BY <1>1 DEF Elsewhere
  <2>12. p # None
    BY <1>2
  <2>13. QueueInv'
    BY <2>1, <2>2, <2>5, <2>6, <2>7, <2>8, <2>9, <2>10, <2>11, <2>12, RunMoves
  <2>14. Advances
    BY <2>2, <2>6, <2>7, RerunAdvances
  <2>15. QED
    BY <2>4, <2>5, <2>6, <2>11, <2>13, <2>14, MovesQuietly
<1>4. CASE Rejects(p) /\ Fault /\ UNCHANGED <<runs, session, aborted>>
  BY <1>1, <1>4, RejectsKeeps
<1>5. QED
  BY <1>1, <1>3, <1>4

LEMMA AgentEndsKeeps == ASSUME QueueInv, NEW p \in Processes, AgentEnds(p) PROVE QueueInv' /\ Quiet
<1>1. /\ drain[p].at = "run" /\ session[drain[p].run] = "open"
      /\ \E end \in {"finished", "broken"} : session' = [session EXCEPT ![drain[p].run] = end]
      /\ UNCHANGED <<alive, closed, comments, late, fails, runs, drain, aborted, pub>>
  BY DEF AgentEnds, Draining, Elsewhere, NoFault
<1>2. QueueTypes /\ ClaimsSound /\ DOMAIN runs \subseteq Runs
  BY RunsTyped DEF QueueInv
<1>3. PICK r : r = drain[p].run
  OBVIOUS
<1>4. PICK end \in {"finished", "broken"} : session' = [session EXCEPT ![r] = end]
  BY <1>1, <1>3
<1>5. r \in Runs
  BY <1>1, <1>2, <1>3 DEF QueueInv, StandsWell
<1>6. QueueTypes'
  BY <1>1, <1>2, <1>4, <1>5 DEF QueueTypes
<1>7. ClaimsSound'
  <2>1. \A q \in DOMAIN runs : runs[q].phase = "completed" => q # r
    BY <1>1, <1>2, <1>3 DEF ClaimsSound
  <2>2. \A q \in DOMAIN runs : q # r => session'[q] = session[q]
    BY <1>2, <1>4 DEF QueueTypes
  <2>3. QED
    BY <1>1, <1>2, <2>1, <2>2 DEF ClaimsSound, Claimed
<1>8. (\A q \in Processes : StandsWell(q, drain[q])') /\ \A w \in Publishers : PubSound(w)'
  BY <1>1 DEF QueueInv, StandsWell, PubSound
<1>9. QED
  BY <1>1, <1>6, <1>7, <1>8, SameAdvances DEF QueueInv, Quiet

\* What a drain does to the run it has claimed.
LEMMA OwnRun ==
    ASSUME QueueInv, NEW p \in Processes, drain[p].at \in {"run", "fail"}
    PROVE  /\ drain[p].run \in DOMAIN runs /\ runs[drain[p].run].owner = p /\ p \in alive
           /\ drain[p].run \in Claimed
           /\ \A q \in Processes : q # p /\ drain[q].at \in {"run", "fail"} => drain[q].run # drain[p].run
           /\ drain[p].todo \subseteq Runs \X Processes
<1>1. StandsWell(p, drain[p]) /\ \A q \in Processes : StandsWell(q, drain[q])
  BY DEF QueueInv
<1>2. QED
  BY <1>1, NoOwner DEF StandsWell, Claimed

LEMMA SettleKeeps == ASSUME QueueInv, NEW p \in Processes, Settle(p) PROVE QueueInv' /\ Quiet
<1>1. PICK r : r = drain[p].run
  OBVIOUS
<1>2. /\ drain[p].at = "run" /\ Elsewhere /\ UNCHANGED <<session, aborted, pub>>
      /\ \/ Proved(r) /\ Completable(r) /\ Complete(r) /\ NoFault /\ Goes(p, "publish")
         \/ (Fault \/ NoFault) /\ Goes(p, "fail") /\ UNCHANGED runs
  BY <1>1 DEF Settle, Draining
<1>3. /\ r \in DOMAIN runs /\ runs[r].owner = p /\ p \in alive
      /\ \A q \in Processes : q # p /\ drain[q].at \in {"run", "fail"} => drain[q].run # r
      /\ drain[p].todo \subseteq Runs \X Processes
  BY <1>1, <1>2, OwnRun
<1>4. CASE Proved(r) /\ Completable(r) /\ Complete(r) /\ NoFault /\ Goes(p, "publish")
  <2>1. PICK x : x = [drain[p] EXCEPT !.at = "publish"]
    OBVIOUS
  <2>2. "publish" \in DrainStands
    BY DEF DrainStands
  <2>3. x \in Drains /\ x.at = "publish" /\ x.run = r /\ x.todo = drain[p].todo
    BY <1>1, <2>1, <2>2, DrainAt
  <2>4. Rerun(r, "completed", None) /\ runs[r].phase = "running"
        /\ "completed" \in RunPhases \ {"queued", "running"} /\ "completed" \in RunPhases
        /\ None \in Processes \cup {None}
    BY <1>3, <1>4, CompleteIs
  <2>5. StandsWell(p, x)'
    <3>1. DOMAIN runs' = DOMAIN runs
      BY <1>3, <2>4, RunChange DEF QueueInv, QueueTypes
    <3>2. QED
      BY <1>2, <1>3, <2>3, <3>1 DEF StandsWell, Elsewhere
  <2>6. Moves(p, x) /\ session[r] = "finished"
    BY <1>4, <2>1 DEF Goes, Proved
  <2>7. QED
    BY <1>2, <1>3, <1>4, <2>3, <2>4, <2>5, <2>6, GivesBackKeeps
<1>5. CASE (Fault \/ NoFault) /\ Goes(p, "fail") /\ UNCHANGED runs
  <2>1. PICK x : x = [drain[p] EXCEPT !.at = "fail"]
    OBVIOUS
  <2>2. "fail" \in DrainStands
    BY DEF DrainStands
  <2>3. x \in Drains /\ x.at = "fail" /\ x.run = r /\ x.todo = drain[p].todo
    BY <1>1, <2>1, <2>2, DrainAt
  <2>4. Moves(p, x) /\ StandsWell(p, x)
    BY <1>3, <1>5, <2>1, <2>3 DEF Goes, StandsWell
  <2>5. QED
    BY <1>2, <1>5, <2>3, <2>4, GoesKeeps
<1>6. QED
  BY <1>2, <1>4, <1>5

LEMMA FailRunKeeps == ASSUME QueueInv, NEW p \in Processes, FailRun(p) PROVE QueueInv' /\ Quiet
<1>1. PICK r : r = drain[p].run
  OBVIOUS
<1>2. /\ drain[p].at = "fail" /\ Elsewhere /\ UNCHANGED <<session, aborted, pub>>
      /\ \/ r \in Claimed /\ Fail(r, "failed") /\ Goes(p, "publish") /\ NoFault
         \/ Rejects(p) /\ UNCHANGED runs /\ (Fault \/ NoFault)
  BY <1>1 DEF FailRun, Draining
<1>3. /\ r \in DOMAIN runs /\ p \in alive
      /\ \A q \in Processes : q # p /\ drain[q].at \in {"run", "fail"} => drain[q].run # r
      /\ drain[p].todo \subseteq Runs \X Processes
  BY <1>1, <1>2, OwnRun
<1>4. CASE r \in Claimed /\ Fail(r, "failed") /\ Goes(p, "publish") /\ NoFault
  <2>1. PICK x : x = [drain[p] EXCEPT !.at = "publish"]
    OBVIOUS
  <2>2. "publish" \in DrainStands
    BY DEF DrainStands
  <2>3. x \in Drains /\ x.at = "publish" /\ x.run = r /\ x.todo = drain[p].todo
    BY <1>1, <2>1, <2>2, DrainAt
  <2>4. PICK to \in RunPhases \ {"queued", "running", "completed"} :
           Rerun(r, to, None) /\ (runs[r].phase = "running" \/ to = runs[r].phase)
    BY <1>4, FailIs
  <2>5. to \in RunPhases \ {"queued", "running"} /\ to # "completed" /\ to \in RunPhases
        /\ None \in Processes \cup {None}
    OBVIOUS
  <2>6. StandsWell(p, x)'
    <3>1. DOMAIN runs' = DOMAIN runs
      BY <1>3, <2>4, <2>5, RunChange DEF QueueInv, QueueTypes
    <3>2. QED
      BY <1>2, <1>3, <2>3, <3>1 DEF StandsWell, Elsewhere
  <2>7. Moves(p, x)
    BY <1>4, <2>1 DEF Goes
  <2>8. QED
    BY <1>2, <1>3, <1>4, <2>3, <2>4, <2>5, <2>6, <2>7, GivesBackKeeps
<1>5. CASE Rejects(p) /\ UNCHANGED runs /\ (Fault \/ NoFault)
  BY <1>2, <1>5, RejectsKeeps
<1>6. QED
  BY <1>2, <1>4, <1>5


(***************************************************************************)
(* What a step of a publication keeps                                      *)
(***************************************************************************)

LEMMA DrainPublishes ==
    ASSUME NEW q \in Processes
    PROVE  \E v \in Publishers : v = <<q, "drain">> /\ v[1] = q /\ v[2] = "drain"
<1>1. <<q, "drain">> \in Publishers
  BY DEF Publishers, Callers
<1>2. <<q, "drain">>[1] = q /\ <<q, "drain">>[2] = "drain"
  OBVIOUS
<1>3. QED
  BY <1>1, <1>2

LEMMA QuietKeeps ==
    ASSUME NEW S \in SUBSET Runs, QueueInv, CommentInv(S), Quiet
    PROVE  CommentInv(S)'
<1>1. /\ DOMAIN runs' = DOMAIN runs /\ \A r \in DOMAIN runs : runs'[r].status = runs[r].status
      /\ UNCHANGED <<pub, comments, late>>
      /\ \A q \in Processes : drain'[q].at = "sweep" => drain'[q] = drain[q]
  BY DEF Quiet, Advances
<1>2. ReportsSound(S)'
  BY <1>1 DEF CommentInv, ReportsSound, Untouched
<1>3. \A q \in Processes : SweepSound(S, q)'
  <2>1. \A q \in Processes : drain[q].at = "sweep" => \A r \in drain[q].todo : r \in DOMAIN runs
    BY DEF QueueInv, StandsWell
  <2>2. QED
    BY <1>1, <2>1 DEF CommentInv, SweepSound
<1>4. ASSUME NEW w \in Publishers, pub[w].run \notin S PROVE HandsWell(pub[w])'
  <2>1. pub[w].at # "none" => pub[w].run \in DOMAIN runs
    BY DEF QueueInv, PubSound
  <2>2. HandsWell(pub[w])
    BY <1>4 DEF CommentInv
  <2>3. QED
    BY <1>1, <2>1, <2>2 DEF HandsWell, Untouched
<1>5. QED
  BY <1>1, <1>2, <1>3, <1>4 DEF CommentInv

\* Nobody else has in hand what a publisher has in hand, and no sweep has it before it.
LEMMA InOneHand ==
    ASSUME NEW S \in SUBSET Runs, QueueInv, CommentInv(S), Apart(S), NEW w \in Publishers,
           pub[w].at # "none", pub[w].run \notin S
    PROVE  /\ pub[w].run \in DOMAIN runs /\ pub[w].run # 0
           /\ \A v \in Publishers : v # w => pub[v].run # pub[w].run
           /\ \A q \in Processes : drain[q].at = "sweep" => pub[w].run \notin drain[q].todo
<1>1. pub[w].run \in DOMAIN runs /\ pub[w].run # 0
  BY RunsTyped DEF QueueInv, PubSound
<1>2. PICK r : r = pub[w].run
  OBVIOUS
<1>3. r \in Hands(w) /\ r # 0 /\ r \notin S
  BY <1>1, <1>2 DEF Hands
<1>4. \A v \in Publishers : v # w => r \notin Hands(v)
  BY <1>3 DEF Apart
<1>5. \A v \in Publishers : v # w => pub[v].run # r
  BY <1>3, <1>4 DEF Hands
<1>6. ASSUME NEW q \in Processes, drain[q].at = "sweep" PROVE r \notin drain[q].todo
  <2>1. PICK v \in Publishers : v = <<q, "drain">> /\ v[1] = q /\ v[2] = "drain"
    BY DrainPublishes
  <2>2. CASE v = w
    BY <1>2, <1>6, <2>1, <2>2 DEF CommentInv, SweepSound
  <2>3. CASE v # w
    BY <1>3, <1>4, <1>6, <2>1, <2>3 DEF Hands, Swept
  <2>4. QED
    BY <2>2, <2>3
<1>7. QED
  BY <1>1, <1>2, <1>5, <1>6

\* A publisher goes on with what it has in hand.
LEMMA HandMoves ==
    ASSUME NEW S \in SUBSET Runs, QueueInv, CommentInv(S), Apart(S), NEW w \in Publishers,
           NEW y \in Pubs, Takes(w, y), pub[w].at # "none",
           NEW r, r = pub[w].run, y = NotPublishing \/ y.run = r,
           DOMAIN runs' = DOMAIN runs, \A q \in DOMAIN runs : q # r => runs'[q] = runs[q],
           comments' \in [Runs -> Nat], late' \subseteq Runs,
           \A q \in Runs : q # r => comments'[q] = comments[q] /\ (q \in late' <=> q \in late),
           r \notin S => /\ comments'[r] \in {0, 1} /\ (r \in late' => comments'[r] = 0)
                         /\ runs'[r].status \in {"pending", "failed"} => Untouched(r)'
                         /\ runs'[r].status = "published" => comments'[r] = 1
                         /\ HandsWell(y)',
           \A q \in Processes : drain'[q].at = "sweep" => drain'[q] = drain[q]
    PROVE  CommentInv(S)'
<1>1. /\ r \in DOMAIN runs /\ r # 0
      /\ r \notin S => /\ \A v \in Publishers : v # w => pub[v].run # r
                       /\ \A q \in Processes : drain[q].at = "sweep" => r \notin drain[q].todo
  BY InOneHand, RunsTyped DEF QueueInv, PubSound
<1>2. \A v \in Publishers : pub'[v] = IF v = w THEN y ELSE pub[v]
  BY DEF Takes, QueueInv, QueueTypes
<1>3. DOMAIN runs \subseteq Runs /\ 0 \notin DOMAIN runs
  BY RunsTyped DEF QueueInv
<1>4. ReportsSound(S)'
  <2>1. \A q \in Runs : q # r => (Untouched(q)' <=> Untouched(q))
    BY DEF Untouched
  <2>2. QED
    BY <1>1, <1>3, <2>1 DEF CommentInv, ReportsSound
<1>5. ASSUME NEW q \in Processes, drain'[q].at = "sweep", NEW s \in drain'[q].todo \ S
      PROVE  runs'[s].status = "pending" /\ pub'[<<q, "drain">>].run # s
  <2>1. /\ drain'[q] = drain[q] /\ drain[q].at = "sweep" /\ s \in drain[q].todo /\ s # r
        /\ s \in DOMAIN runs /\ s \notin S
    BY <1>1, <1>5 DEF QueueInv, StandsWell
  <2>2. runs[s].status = "pending" /\ pub[<<q, "drain">>].run # s
    BY <2>1 DEF CommentInv, SweepSound
  <2>3. <<q, "drain">> \in Publishers
    BY DEF Publishers, Callers
  <2>4. QED
    BY <1>2, <1>3, <2>1, <2>2, <2>3 DEF NotPublishing
<1>6. ASSUME NEW v \in Publishers, pub'[v].run \notin S PROVE HandsWell(pub[v])'
  <2>1. CASE v = w
    <3>1. CASE y = NotPublishing
      BY <1>2, <2>1, <3>1 DEF HandsWell, NotPublishing
    <3>2. CASE y.run = r
      BY <1>2, <1>6, <2>1, <3>2 DEF HandsWell
    <3>3. QED
      BY <3>1, <3>2
  <2>2. CASE v # w /\ pub[v].at # "none"
    <3>1. pub'[v] = pub[v] /\ pub[v].run # r /\ pub[v].run \in DOMAIN runs /\ pub[v].run \in Runs
      BY <1>1, <1>2, <1>3, <1>6, <2>2 DEF QueueInv, PubSound
    <3>2. HandsWell(pub[v])
      BY <1>2, <1>6, <2>2 DEF CommentInv
    <3>3. /\ runs'[pub[v].run] = runs[pub[v].run] /\ comments'[pub[v].run] = comments[pub[v].run]
          /\ Untouched(pub[v].run)' <=> Untouched(pub[v].run)
      BY <3>1 DEF Untouched
    <3>4. QED
      BY <3>1, <3>2, <3>3 DEF HandsWell, Untouched
  <2>3. CASE v # w /\ pub[v].at = "none"
    BY <1>2, <2>3 DEF HandsWell
  <2>4. QED
    BY <2>1, <2>2, <2>3
<1>7. QED
  BY <1>4, <1>5, <1>6 DEF CommentInv, SweepSound

\* A publisher takes a report that nobody has in hand.
LEMMA HandTaken ==
    ASSUME NEW S \in SUBSET Runs, QueueInv, CommentInv(S), Apart(S)', NEW w \in Publishers,
           NEW y \in Pubs, Takes(w, y), y.at # "none", NEW r \in DOMAIN runs, y.run = r,
           DOMAIN runs' = DOMAIN runs, \A q \in DOMAIN runs : q # r => runs'[q] = runs[q],
           \/ runs'[r].status = runs[r].status
           \/ runs[r].status = "failed" /\ runs'[r].status = "pending",
           UNCHANGED <<comments, late>>, r \notin S => HandsWell(y)',
           \A q \in Processes : drain'[q].at = "sweep" =>
              /\ drain[q].at = "sweep" /\ drain'[q].todo \subseteq drain[q].todo
              /\ w = <<q, "drain">> => r \notin drain'[q].todo
    PROVE  CommentInv(S)'
<1>1. DOMAIN runs \subseteq Runs /\ 0 \notin DOMAIN runs
  BY RunsTyped DEF QueueInv
<1>2. \A v \in Publishers : pub'[v] = IF v = w THEN y ELSE pub[v]
  BY DEF Takes, QueueInv, QueueTypes
<1>3. r \notin S => \A v \in Publishers : v # w => r \notin Hands(v)'
  <2>1. r \in Hands(w)'
    BY <1>1, <1>2 DEF Hands
  <2>2. QED
    BY <2>1 DEF Apart
<1>4. r \notin S => \A v \in Publishers : v # w => pub[v].run # r
  BY <1>1, <1>2, <1>3 DEF Hands
<1>5. ASSUME NEW q \in Processes, drain'[q].at = "sweep", r \notin S PROVE r \notin drain'[q].todo
  <2>1. PICK v \in Publishers : v = <<q, "drain">> /\ v[1] = q /\ v[2] = "drain"
    BY DrainPublishes
  <2>2. CASE v = w
    BY <1>5, <2>1, <2>2
  <2>3. CASE v # w
    BY <1>1, <1>3, <1>5, <2>1, <2>3 DEF Hands, Swept
  <2>4. QED
    BY <2>2, <2>3
<1>6. ReportsSound(S)'
  BY DEF CommentInv, ReportsSound, Untouched
<1>7. ASSUME NEW q \in Processes, drain'[q].at = "sweep", NEW s \in drain'[q].todo \ S
      PROVE  runs'[s].status = "pending" /\ pub'[<<q, "drain">>].run # s
  <2>1. drain[q].at = "sweep" /\ s \in drain[q].todo /\ s # r /\ s \in DOMAIN runs /\ s \notin S
    BY <1>5, <1>7 DEF QueueInv, StandsWell
  <2>2. runs[s].status = "pending" /\ pub[<<q, "drain">>].run # s
    BY <2>1 DEF CommentInv, SweepSound
  <2>3. <<q, "drain">> \in Publishers
    BY DEF Publishers, Callers
  <2>4. QED
    BY <1>2, <2>1, <2>2, <2>3
<1>8. ASSUME NEW v \in Publishers, pub'[v].run \notin S PROVE HandsWell(pub[v])'
  <2>1. CASE v = w
    BY <1>2, <1>8, <2>1 DEF HandsWell
  <2>2. CASE v # w /\ pub[v].at # "none"
    <3>1. pub'[v] = pub[v] /\ pub[v].run # r /\ pub[v].run \in DOMAIN runs
      BY <1>2, <1>4, <1>8, <2>2 DEF QueueInv, PubSound
    <3>2. HandsWell(pub[v])
      BY <1>2, <1>8, <2>2 DEF CommentInv
    <3>3. QED
      BY <3>1, <3>2 DEF HandsWell, Untouched
  <2>3. CASE v # w /\ pub[v].at = "none"
    BY <1>2, <2>3 DEF HandsWell
  <2>4. QED
    BY <2>1, <2>2, <2>3
<1>9. QED
  BY <1>6, <1>7, <1>8 DEF CommentInv, SweepSound


\* What a caller who takes a report to GitHub has in hand.
LEMMA PublishingIs ==
    ASSUME QueueInv, NEW w \in Publishers, NEW r \in DOMAIN runs, NEW status,
           Publishing(w, r, status)
    PROVE  \/ pub' = pub
           \/ \E y \in Pubs :
                 /\ Takes(w, y) /\ y.run = r /\ runs[r].phase = "completed"
                 /\ \/ y.at = "lease" /\ status = "pending"
                    \/ y.at = "look" /\ status = "unknown"
<1>1. r \in Runs
  BY RunsTyped DEF QueueInv
<1>2. CASE runs[r].phase = "completed" /\ status = "pending"
  <2>1. PICK y : y = [NotPublishing EXCEPT !.at = "lease", !.run = r]
    OBVIOUS
  <2>2. y \in Pubs /\ y.at = "lease" /\ y.run = r
    BY <1>1, <2>1 DEF NotPublishing, Pubs, PubStands
  <2>3. Takes(w, y)
    BY <1>2, <2>1 DEF Publishing, Takes
  <2>4. QED
    BY <1>2, <2>2, <2>3
<1>3. CASE runs[r].phase = "completed" /\ status = "unknown"
  <2>1. PICK y : y = [NotPublishing EXCEPT !.at = "look", !.run = r]
    OBVIOUS
  <2>2. y \in Pubs /\ y.at = "look" /\ y.run = r
    BY <1>1, <2>1 DEF NotPublishing, Pubs, PubStands
  <2>3. Takes(w, y)
    BY <1>3, <2>1 DEF Publishing, Takes
  <2>4. QED
    BY <1>3, <2>2, <2>3
<1>4. CASE ~(runs[r].phase = "completed" /\ status = "pending")
           /\ ~(runs[r].phase = "completed" /\ status = "unknown")
  BY <1>4 DEF Publishing
<1>5. QED
  BY <1>2, <1>3, <1>4

LEMMA SameRuns == ASSUME QueueInv, runs' = runs PROVE SameButStatus
  BY DEF SameButStatus, QueueInv, QueueTypes

\* A drain that looks for reports sees those that are pending, and has none in hand.
LEMMA ExhaustedKeeps ==
    ASSUME NEW S \in SUBSET Runs, QueueInv, NEW p \in Processes, Exhausted(p)
    PROVE  QueueInv' /\ Advances /\ (CommentInv(S) => CommentInv(S)')
<1>1. PICK x : x = [Asleep EXCEPT !.at = "sweep", !.todo = Unpublished]
  OBVIOUS
<1>2. /\ p \in alive /\ Moves(p, x) /\ pub[<<p, "drain">>] = NotPublishing
      /\ UNCHANGED <<runs, session, alive, pub, closed, aborted, comments, late, fails>>
  BY <1>1 DEF Exhausted, Draining, Elsewhere, NoFault
<1>3. QueueTypes /\ DOMAIN runs \subseteq Runs /\ 0 \notin DOMAIN runs
  BY RunsTyped DEF QueueInv
<1>4. /\ Unpublished \subseteq DOMAIN runs
      /\ \A r \in Unpublished : runs[r].phase = "completed" /\ runs[r].status = "pending"
  BY DEF Unpublished
<1>5. x.at = "sweep" /\ x.todo = Unpublished
  BY <1>1 DEF Asleep
<1>6. x \in Drains
  <2>1. Unpublished \in SUBSET (Runs \cup (Runs \X Processes))
    BY <1>3, <1>4
  <2> HIDE DEF Unpublished
  <2>2. QED
    BY <1>1, <2>1 DEF Asleep, Drains, DrainStands
<1>7. StandsWell(p, x)
  BY <1>2, <1>4, <1>5 DEF StandsWell
<1>8. QueueInv'
  BY <1>2, <1>3, <1>6, <1>7, DrainMoves DEF QueueTypes
<1>9. ASSUME CommentInv(S) PROVE CommentInv(S)'
  <2>1. \A q \in Processes : drain'[q] = IF q = p THEN x ELSE drain[q]
    BY <1>2, <1>3 DEF QueueTypes, Moves
  <2>2. ASSUME NEW q \in Processes PROVE SweepSound(S, q)'
    <3>1. CASE q = p
      BY <1>2, <1>3, <1>4, <1>5, <2>1, <3>1 DEF SweepSound, NotPublishing
    <3>2. CASE q # p
      BY <1>2, <1>9, <2>1, <3>2 DEF SweepSound, CommentInv
    <3>3. QED
      BY <3>1, <3>2
  <2>3. ReportsSound(S)' /\ \A w \in Publishers : pub'[w].run \notin S => HandsWell(pub[w])'
    BY <1>2, <1>9 DEF CommentInv, ReportsSound, HandsWell, Untouched
  <2>4. QED
    BY <2>2, <2>3 DEF CommentInv
<1>10. QED
  BY <1>2, <1>8, <1>9, SameAdvances

LEMMA PublishSettledKeeps ==
    ASSUME NEW S \in SUBSET Runs, QueueInv, NEW p \in Processes, PublishSettled(p)
    PROVE  QueueInv' /\ Advances /\ (CommentInv(S) /\ Apart(S)' => CommentInv(S)')
<1>1. PICK r : r = drain[p].run
  OBVIOUS
<1>2. PICK w \in Publishers : w = <<p, "drain">>
  BY DrainPublishes
<1>3. PICK x : x = [drain[p] EXCEPT !.at = "claim"]
  OBVIOUS
<1>4. /\ p \in alive /\ drain[p].at = "publish" /\ pub[w] = NotPublishing
      /\ Publishing(w, r, runs[r].status) /\ Moves(p, x)
      /\ UNCHANGED <<runs, session, alive, closed, aborted, comments, late, fails>>
  BY <1>1, <1>2, <1>3 DEF PublishSettled, Draining, Goes, Elsewhere, NoFault
<1>5. "claim" \in DrainStands
  BY DEF DrainStands
<1>6. x \in Drains /\ x.at = "claim" /\ x.todo = drain[p].todo /\ StandsWell(p, drain[p])
  BY <1>3, <1>5, DrainAt
<1>7. r \in DOMAIN runs /\ StandsWell(p, x)
  BY <1>1, <1>4, <1>6 DEF StandsWell
<1>8. CASE pub' = pub
  <2>1. QueueInv'
    BY <1>4, <1>6, <1>7, <1>8, DrainMoves DEF QueueInv, QueueTypes
  <2>2. Quiet
    BY <1>4, <1>6, <1>8, SameAdvances, MovesQuietly
  <2>3. QED
    BY <1>4, <2>1, <2>2, SameAdvances, QuietKeeps
<1>9. ASSUME NEW y \in Pubs, Takes(w, y), y.run = r, runs[r].phase = "completed",
             \/ y.at = "lease" /\ runs[r].status = "pending"
             \/ y.at = "look" /\ runs[r].status = "unknown"
      PROVE  QueueInv' /\ Advances /\ (CommentInv(S) /\ Apart(S)' => CommentInv(S)')
  <2>1. QueueInv'
    BY <1>4, <1>6, <1>7, <1>9, SameRuns, PubMoves
  <2>2. ASSUME CommentInv(S), Apart(S)' PROVE CommentInv(S)'
    <3>1. HandsWell(y)'
      BY <1>4, <1>9 DEF HandsWell
    <3>2. \A q \in Processes : drain'[q] = IF q = p THEN x ELSE drain[q]
      BY <1>4 DEF Moves, QueueInv, QueueTypes
    <3>3. \A q \in Processes : drain'[q].at = "sweep" =>
             /\ drain[q].at = "sweep" /\ drain'[q].todo \subseteq drain[q].todo
             /\ w = <<q, "drain">> => r \notin drain'[q].todo
      BY <1>2, <1>6, <3>2
    <3>4. DOMAIN runs' = DOMAIN runs /\ \A q \in DOMAIN runs : runs'[q] = runs[q]
      BY <1>4
    <3>5. y.at # "none"
      BY <1>9
    <3>6. QED
      BY <1>4, <1>7, <1>9, <2>2, <3>1, <3>3, <3>4, <3>5, HandTaken
  <2>3. QED
    BY <1>4, <2>1, <2>2, SameAdvances
<1>10. QED
  BY <1>4, <1>7, <1>8, <1>9, PublishingIs


\* What is taken from a sweep is in nobody's hands, and is pending still.
LEMMA SweepKeeps ==
    ASSUME NEW S \in SUBSET Runs, QueueInv, NEW p \in Processes, Sweep(p)
    PROVE  QueueInv' /\ Advances /\ (CommentInv(S) /\ Apart(S)' => CommentInv(S)')
<1>1. PICK w \in Publishers : w = <<p, "drain">>
  BY DrainPublishes
<1>2. /\ p \in alive /\ drain[p].at = "sweep" /\ pub[w] = NotPublishing
      /\ UNCHANGED <<runs, session, alive, closed, aborted, comments, late, fails>>
  BY <1>1 DEF Sweep, Draining, Elsewhere, NoFault
<1>3. StandsWell(p, drain[p]) /\ drain[p] \in Drains /\ aborted' \subseteq Processes
  BY <1>2, DrainAt DEF QueueInv, QueueTypes
<1>4. CASE Moves(p, Asleep) /\ UNCHANGED pub
  <2>1. PICK x \in Drains : x = Asleep
    BY DrainAt
  <2>2. QueueInv'
    BY <1>2, <1>3, <1>4, <2>1, DrainAt, DrainMoves
  <2>3. Quiet
    BY <1>2, <1>4, <2>1, DrainAt, SameAdvances, MovesQuietly
  <2>4. QED
    BY <1>2, <2>2, <2>3, SameAdvances, QuietKeeps
<1>5. ASSUME NEW r \in drain[p].todo, Publishing(w, r, "pending"),
             Moves(p, [drain[p] EXCEPT !.todo = @ \ {r}])
      PROVE  QueueInv' /\ Advances /\ (CommentInv(S) /\ Apart(S)' => CommentInv(S)')
  <2>1. r \in DOMAIN runs /\ runs[r].phase = "completed"
    BY <1>2, <1>3 DEF StandsWell
  <2>2. r \in Runs
    BY <2>1, RunsTyped DEF QueueInv
  <2>3. PICK y : y = [NotPublishing EXCEPT !.at = "lease", !.run = r]
    OBVIOUS
  <2>4. y \in Pubs /\ y.at = "lease" /\ y.run = r
    BY <2>2, <2>3 DEF NotPublishing, Pubs, PubStands
  <2>5. Takes(w, y)
    BY <1>5, <2>1, <2>3 DEF Publishing, Takes
  <2>6. PICK x : x = [drain[p] EXCEPT !.todo = @ \ {r}]
    OBVIOUS
  <2>7. x \in Drains /\ x.at = "sweep" /\ x.run = drain[p].run /\ x.todo = drain[p].todo \ {r}
    BY <1>2, <1>3, <2>6 DEF Drains
  <2>8. StandsWell(p, x) /\ Moves(p, x)
    BY <1>2, <1>3, <1>5, <2>6, <2>7 DEF StandsWell
  <2>9. QueueInv'
    BY <1>2, <2>1, <2>4, <2>5, <2>7, <2>8, SameRuns, PubMoves
  <2>10. ASSUME CommentInv(S), Apart(S)' PROVE CommentInv(S)'
    <3>1. r \notin S => runs[r].status = "pending"
      BY <1>2, <1>5, <2>10 DEF CommentInv, SweepSound
    <3>2. r \notin S => HandsWell(y)'
      BY <1>2, <2>4, <3>1 DEF HandsWell
    <3>3. \A q \in Processes : drain'[q] = IF q = p THEN x ELSE drain[q]
      BY <2>8 DEF Moves, QueueInv, QueueTypes
    <3>4. \A q \in Processes : drain'[q].at = "sweep" =>
             /\ drain[q].at = "sweep" /\ drain'[q].todo \subseteq drain[q].todo
             /\ w = <<q, "drain">> => r \notin drain'[q].todo
      BY <1>1, <1>2, <2>7, <3>3
    <3>5. DOMAIN runs' = DOMAIN runs /\ \A q \in DOMAIN runs : runs'[q] = runs[q]
      BY <1>2
    <3>6. y.at # "none"
      BY <2>4
    <3>7. QED
      BY <1>2, <2>1, <2>4, <2>5, <2>10, <3>2, <3>4, <3>5, <3>6, HandTaken
  <2>11. QED
    BY <1>2, <2>9, <2>10, SameAdvances
<1>6. QED
  BY <1>1, <1>4, <1>5 DEF Sweep

\* A run whose publication has another status, and nothing else.
Restates(r, status) == runs' = [runs EXCEPT ![r].status = status]

LEMMA RestatesIs ==
    ASSUME QueueInv, NEW r \in DOMAIN runs, NEW status \in Statuses, Restates(r, status)
    PROVE  /\ SameButStatus /\ DOMAIN runs' = DOMAIN runs /\ runs'[r].status = status
           /\ \A q \in DOMAIN runs : q # r => runs'[q] = runs[q]
<1>1. /\ runs' \in Seq(RunRecords) /\ Len(runs') = Len(runs) /\ DOMAIN runs' = DOMAIN runs
      /\ runs'[r].status = status
      /\ runs'[r].phase = runs[r].phase /\ runs'[r].owner = runs[r].owner
      /\ \A q \in DOMAIN runs : q # r => runs'[q] = runs[q]
  BY StatusChange DEF QueueInv, QueueTypes, Restates
<1>2. QED
  BY <1>1 DEF SameButStatus

LEMMA UserPublishesKeeps ==
    ASSUME NEW S \in SUBSET Runs, QueueInv, NEW p \in Processes, NEW r, UserPublishes(p, r)
    PROVE  /\ QueueInv' /\ SameButStatus
           /\ CommentInv(S) /\ Apart(S)' => CommentInv(S)'
<1>1. PICK w : w = <<p, "user">>
  OBVIOUS
<1>2. w \in Publishers /\ \A q \in Processes : w # <<q, "drain">>
  BY <1>1 DEF Publishers, Callers
<1>3. /\ r \in DOMAIN runs /\ runs[r].phase = "completed" /\ runs[r].status # "published"
      /\ IF runs[r].status = "failed"
           THEN runs' = [runs EXCEPT ![r].status = "pending"] /\ Publishing(w, r, "pending")
           ELSE UNCHANGED runs /\ Publishing(w, r, runs[r].status)
      /\ UNCHANGED <<session, alive, closed, drain, aborted, comments, late, fails>>
  BY <1>1 DEF UserPublishes, Elsewhere, NoFault
<1>4. runs[r].status \in Statuses
  BY <1>3, RunsTyped DEF QueueInv
<1>5. PICK status \in {"pending", "unknown"} :
         /\ Publishing(w, r, status)
         /\ \/ runs[r].status = status /\ runs' = runs
            \/ runs[r].status = "failed" /\ status = "pending" /\ Restates(r, "pending")
  BY <1>3, <1>4 DEF Statuses, Restates
<1>6. "pending" \in Statuses
  BY DEF Statuses
<1>7. /\ SameButStatus /\ DOMAIN runs' = DOMAIN runs /\ runs'[r].status = status
      /\ \A q \in DOMAIN runs : q # r => runs'[q] = runs[q]
  BY <1>3, <1>5, <1>6, SameRuns, RestatesIs
<1>8. PICK at \in {"lease", "look"} : IF status = "pending" THEN at = "lease" ELSE at = "look"
  OBVIOUS
<1>9. PICK y : y = [NotPublishing EXCEPT !.at = at, !.run = r]
  OBVIOUS
<1>10. r \in Runs
  BY <1>3, RunsTyped DEF QueueInv
<1>11. y \in Pubs /\ y.at = at /\ y.run = r
  BY <1>9, <1>10 DEF NotPublishing, Pubs, PubStands
<1>12. Takes(w, y)
  BY <1>3, <1>5, <1>8, <1>9 DEF Publishing, Takes
<1>13. PICK x \in Drains : x = drain[p]
  BY DrainAt
<1>14. StandsWell(p, x) /\ Moves(p, x)
  BY <1>3, <1>13, DrainAt DEF Moves
<1>15. QueueInv'
  BY <1>2, <1>3, <1>7, <1>8, <1>11, <1>12, <1>14, PubMoves
<1>16. ASSUME CommentInv(S), Apart(S)' PROVE CommentInv(S)'
  <2>1. HandsWell(y)'
    BY <1>7, <1>8, <1>11 DEF HandsWell
  <2>2. \A q \in Processes : drain'[q].at = "sweep" =>
           /\ drain[q].at = "sweep" /\ drain'[q].todo \subseteq drain[q].todo
           /\ w = <<q, "drain">> => r \notin drain'[q].todo
    BY <1>2, <1>3
  <2>3. \/ runs'[r].status = runs[r].status
        \/ runs[r].status = "failed" /\ runs'[r].status = "pending"
    BY <1>5, <1>7
  <2>4. y.at # "none"
    BY <1>8, <1>11
  <2>5. QED
    BY <1>2, <1>3, <1>7, <1>11, <1>12, <1>16, <2>1, <2>2, <2>3, <2>4, HandTaken
<1>17. QED
  BY <1>7, <1>15, <1>16


\* What a publisher goes on to.
LEMMA ToIs ==
    ASSUME QueueInv, NEW w \in Publishers, NEW at \in PubStands, To(w, at)
    PROVE  \E y \in Pubs : /\ Takes(w, y) /\ y.at = at /\ y.run = pub[w].run
                           /\ y.answer = pub[w].answer /\ y.status = pub[w].status
<1>1. pub \in [Publishers -> Pubs] /\ pub[w] \in Pubs
  BY DEF QueueInv, QueueTypes
<1>2. PICK y : y = [pub[w] EXCEPT !.at = at]
  OBVIOUS
<1>3. y \in Pubs /\ y.at = at /\ y.run = pub[w].run /\ y.answer = pub[w].answer
      /\ y.status = pub[w].status
  BY <1>1, <1>2 DEF Pubs
<1>4. Takes(w, y)
  BY <1>1, <1>2 DEF To, Takes
<1>5. QED
  BY <1>3, <1>4

Told(w, at, answer) ==
    \/ pub' = [pub EXCEPT ![w].answer = answer, ![w].at = at]
    \/ pub' = [pub EXCEPT ![w].at = at, ![w].answer = answer]

LEMMA AnswerIs ==
    ASSUME QueueInv, NEW w \in Publishers, NEW at \in PubStands, NEW answer \in Answers,
           Told(w, at, answer)
    PROVE  \E y \in Pubs : /\ Takes(w, y) /\ y.at = at /\ y.run = pub[w].run
                           /\ y.answer = answer /\ y.status = pub[w].status
<1>1. pub \in [Publishers -> Pubs] /\ pub[w] \in Pubs
  BY DEF QueueInv, QueueTypes
<1>2. PICK y : y = [pub[w] EXCEPT !.at = at, !.answer = answer]
  OBVIOUS
<1>3. y \in Pubs /\ y.at = at /\ y.run = pub[w].run /\ y.answer = answer
      /\ y.status = pub[w].status
  BY <1>1, <1>2 DEF Pubs
<1>4. y = [pub[w] EXCEPT !.answer = answer, !.at = at]
  BY <1>1, <1>2 DEF Pubs
<1>5. Takes(w, y)
  BY <1>1, <1>2, <1>4 DEF Takes, Told
<1>6. QED
  BY <1>3, <1>5

LEMMA StatusIs ==
    ASSUME QueueInv, NEW w \in Publishers, NEW at \in PubStands, NEW status \in Statuses,
           pub' = [pub EXCEPT ![w].at = at, ![w].status = status]
    PROVE  \E y \in Pubs : /\ Takes(w, y) /\ y.at = at /\ y.run = pub[w].run
                           /\ y.answer = pub[w].answer /\ y.status = status
<1>1. pub \in [Publishers -> Pubs] /\ pub[w] \in Pubs
  BY DEF QueueInv, QueueTypes
<1>2. PICK y : y = [pub[w] EXCEPT !.at = at, !.status = status]
  OBVIOUS
<1>3. y \in Pubs /\ y.at = at /\ y.run = pub[w].run /\ y.answer = pub[w].answer
      /\ y.status = status
  BY <1>1, <1>2 DEF Pubs
<1>4. Takes(w, y)
  BY <1>1, <1>2 DEF Takes
<1>5. QED
  BY <1>3, <1>4

LEMMA EndsIs ==
    ASSUME NEW w \in Publishers, Ends(w)
    PROVE  Takes(w, NotPublishing) /\ NotPublishing \in Pubs /\ NotPublishing.at = "none"
  BY DEF Ends, Takes, NotPublishing, Pubs, PubStands

\* A publisher goes on with its report, or ends, and perhaps says what has become of it.
PublisherGoes(w, y) ==
    /\ Takes(w, y) /\ pub[w].at # "none"
    /\ y = NotPublishing \/ (y.run = pub[w].run /\ y.at # "none")
    /\ drain' = drain \/ Moves(w[1], Asleep)
    /\ UNCHANGED <<session, alive, closed, aborted>>
    /\ Fault \/ NoFault

Says(r, status) == (runs' = runs /\ status = runs[r].status) \/ Restates(r, status)

LEMMA PublisherQueue ==
    ASSUME QueueInv, NEW w \in Publishers, NEW y \in Pubs, PublisherGoes(w, y),
           NEW status \in Statuses, Says(pub[w].run, status)
    PROVE  /\ QueueInv' /\ SameButStatus /\ pub[w].run \in DOMAIN runs
           /\ runs'[pub[w].run].status = status
           /\ \A q \in DOMAIN runs : q # pub[w].run => runs'[q] = runs[q]
           /\ \A q \in Processes : drain'[q].at = "sweep" => drain'[q] = drain[q]
<1>1. PICK r : r = pub[w].run
  OBVIOUS
<1>2. r \in DOMAIN runs /\ runs[r].phase = "completed"
  BY <1>1 DEF PublisherGoes, QueueInv, PubSound
<1>3. /\ SameButStatus /\ runs'[r].status = status
      /\ \A q \in DOMAIN runs : q # r => runs'[q] = runs[q]
  BY <1>1, <1>2, SameRuns, RestatesIs DEF Says
<1>4. PICK p \in Processes : p = w[1]
  BY DEF Publishers
<1>5. PICK x \in Drains : StandsWell(p, x) /\ Moves(p, x) /\ (x = drain[p] \/ x = Asleep)
  <2>1. CASE drain' = drain
    BY <2>1, DrainAt DEF Moves
  <2>2. CASE Moves(p, Asleep)
    BY <2>2, DrainAt
  <2>3. QED
    BY <1>4, <2>1, <2>2 DEF PublisherGoes
<1>6. IF y.at = "none" THEN y = NotPublishing
      ELSE y.run \in DOMAIN runs /\ runs[y.run].phase = "completed"
  BY <1>1, <1>2 DEF PublisherGoes, NotPublishing
<1>7. /\ Takes(w, y) /\ UNCHANGED <<session, alive, closed, aborted>>
      /\ Fault \/ fails' = fails
  BY DEF PublisherGoes, NoFault
<1>8. QueueInv'
  BY <1>3, <1>5, <1>6, <1>7, PubMoves
<1>9. \A q \in Processes : drain'[q].at = "sweep" => drain'[q] = drain[q]
  BY <1>5 DEF Moves, Asleep, QueueInv, QueueTypes
<1>10. QED
  BY <1>1, <1>2, <1>3, <1>8, <1>9

\* So the reports stay sound when what is said is true.
LEMMA PublisherKeeps ==
    ASSUME NEW S \in SUBSET Runs, QueueInv, NEW w \in Publishers, NEW y \in Pubs,
           PublisherGoes(w, y),
           NEW status \in Statuses, Says(pub[w].run, status),
           UNCHANGED <<comments, late>>
    PROVE  /\ QueueInv' /\ SameButStatus
           /\ /\ CommentInv(S) /\ Apart(S)
              /\ pub[w].run \notin S =>
                    /\ HandsWell(y)'
                    /\ status \in {"pending", "failed"} => Untouched(pub[w].run)
                    /\ status = "published" => comments[pub[w].run] = 1
              => CommentInv(S)'
<1>1. PICK r : r = pub[w].run
  OBVIOUS
<1>2. /\ QueueInv' /\ SameButStatus /\ r \in DOMAIN runs /\ runs'[r].status = status
      /\ \A q \in DOMAIN runs : q # r => runs'[q] = runs[q]
      /\ \A q \in Processes : drain'[q].at = "sweep" => drain'[q] = drain[q]
  BY <1>1, PublisherQueue
<1>3. ASSUME CommentInv(S), Apart(S),
             r \notin S => /\ HandsWell(y)'
                           /\ status \in {"pending", "failed"} => Untouched(r)
                           /\ status = "published" => comments[r] = 1
      PROVE  CommentInv(S)'
  <2>1. comments' \in [Runs -> Nat] /\ late' \subseteq Runs
    BY <1>3 DEF CommentInv, ReportsSound
  <2>2. r \notin S =>
        /\ comments'[r] \in {0, 1} /\ (r \in late' => comments'[r] = 0)
        /\ HandsWell(y)'
        /\ runs'[r].status \in {"pending", "failed"} => Untouched(r)'
        /\ runs'[r].status = "published" => comments'[r] = 1
    <3>1. r \in Runs
      BY <1>2, RunsTyped DEF QueueInv
    <3>2. QED
      BY <1>2, <1>3, <3>1 DEF Untouched, CommentInv, ReportsSound
  <2>3. \A q \in Runs : q # r => comments'[q] = comments[q] /\ (q \in late' <=> q \in late)
    OBVIOUS
  <2>4. pub[w].at # "none" /\ Takes(w, y) /\ (y = NotPublishing \/ y.run = r)
    BY <1>1 DEF PublisherGoes
  <2>5. DOMAIN runs' = DOMAIN runs
    BY <1>2 DEF SameButStatus
  <2>6. QED
    BY <1>1, <1>2, <1>3, <2>1, <2>2, <2>3, <2>4, <2>5, HandMoves
<1>4. QED
  BY <1>1, <1>2, <1>3


LEMMA InHand ==
    ASSUME QueueInv, NEW w \in Publishers, pub[w].at # "none"
    PROVE  /\ pub[w] \in Pubs /\ pub[w].run \in DOMAIN runs /\ pub[w].run \in Runs
           /\ runs[pub[w].run].status \in Statuses
           /\ pub[w].answer \in Answers \cup {None} /\ pub[w].status \in Statuses \cup {None}
  BY RunsTyped DEF QueueInv, QueueTypes, PubSound, Pubs

\* What a step of a publication keeps.
Kept(S) == QueueInv' /\ SameButStatus /\ (CommentInv(S) /\ Apart(S) => CommentInv(S)')

Publishes == UNCHANGED <<session, alive, closed, aborted>>

LEMMA LeaseKeeps ==
    ASSUME NEW S \in SUBSET Runs, QueueInv, NEW w \in Publishers, Lease(w), Publishes
    PROVE  Kept(S)
<1>1. /\ pub[w].at = "lease" /\ To(w, "mark")
      /\ UNCHANGED <<runs, session, alive, closed, aborted, drain, comments, late>> /\ NoFault
  BY DEF Lease, Stands, Publishes
<1>2. PICK status \in Statuses : status = runs[pub[w].run].status
  BY <1>1, InHand
<1>3. PICK y \in Pubs : Takes(w, y) /\ y.at = "mark" /\ y.run = pub[w].run
  BY <1>1, ToIs DEF PubStands
<1>4. PublisherGoes(w, y) /\ Says(pub[w].run, status)
  BY <1>1, <1>2, <1>3 DEF PublisherGoes, Says
<1>5. ASSUME CommentInv(S), pub[w].run \notin S
      PROVE  /\ HandsWell(y)' /\ status = "pending" /\ Untouched(pub[w].run)
  BY <1>1, <1>2, <1>3, <1>5, InHand DEF CommentInv, HandsWell, ReportsSound
<1>6. QED
  BY <1>1, <1>4, <1>5, PublisherKeeps DEF Kept

LEMMA MarkKeeps ==
    ASSUME NEW S \in SUBSET Runs, QueueInv, NEW w \in Publishers, Mark(w), Publishes
    PROVE  Kept(S)
<1>1. /\ pub[w].at = "mark"
      /\ UNCHANGED <<session, alive, closed, aborted, drain, comments, late>>
      /\ \/ Changes(w, "pending", "unknown") /\ To(w, "dispatch") /\ NoFault
         \/ /\ pub' = [pub EXCEPT ![w].at = "report", ![w].answer = "closed"]
            /\ UNCHANGED runs
            /\ Fault \/ NoFault
  BY DEF Mark, Stands, Publishes
<1>2. ASSUME CommentInv(S), pub[w].run \notin S
      PROVE  runs[pub[w].run].status = "pending" /\ Untouched(pub[w].run)
  BY <1>1, <1>2, InHand DEF CommentInv, HandsWell, ReportsSound
<1>3. CASE Changes(w, "pending", "unknown") /\ To(w, "dispatch") /\ NoFault
  <2>1. PICK y \in Pubs : Takes(w, y) /\ y.at = "dispatch" /\ y.run = pub[w].run
    BY <1>3, ToIs DEF PubStands
  <2>2. PICK status \in Statuses : status = "unknown"
    BY DEF Statuses
  <2>3. PublisherGoes(w, y) /\ Says(pub[w].run, status)
    BY <1>1, <1>3, <2>1, <2>2 DEF PublisherGoes, Says, Changes, Restates
  <2>4. runs'[pub[w].run].status = "unknown"
    BY <2>2, <2>3, PublisherQueue
  <2>5. ASSUME CommentInv(S), pub[w].run \notin S PROVE HandsWell(y)'
    BY <1>1, <1>2, <2>1, <2>4, <2>5 DEF HandsWell, Untouched
  <2>6. QED
    BY <1>1, <2>2, <2>3, <2>5, PublisherKeeps DEF Kept
<1>4. CASE /\ pub' = [pub EXCEPT ![w].at = "report", ![w].answer = "closed"]
           /\ UNCHANGED runs /\ (Fault \/ NoFault)
  <2>1. PICK y \in Pubs : Takes(w, y) /\ y.at = "report" /\ y.run = pub[w].run /\ y.answer = "closed"
    <3>1. PICK at \in PubStands, answer \in Answers : at = "report" /\ answer = "closed"
      BY DEF PubStands, Answers
    <3>2. Told(w, at, answer)
      BY <1>4, <3>1 DEF Told
    <3>3. QED
      BY <3>1, <3>2, AnswerIs
  <2>2. PICK status \in Statuses : status = runs[pub[w].run].status
    BY <1>1, InHand
  <2>3. PublisherGoes(w, y) /\ Says(pub[w].run, status)
    BY <1>1, <1>4, <2>1, <2>2 DEF PublisherGoes, Says
  <2>4. ASSUME CommentInv(S), pub[w].run \notin S PROVE HandsWell(y)'
    BY <1>1, <1>2, <1>4, <2>1, <2>4 DEF HandsWell, Untouched, Answers, NeverHappened
  <2>5. QED
    BY <1>1, <1>2, <2>2, <2>3, <2>4, PublisherKeeps DEF Kept
<1>5. QED
  BY <1>1, <1>3, <1>4

LEMMA ReadbackKeeps ==
    ASSUME NEW S \in SUBSET Runs, QueueInv, NEW w \in Publishers, Readback(w), Publishes
    PROVE  Kept(S)
<1>1. /\ pub[w].at = "readback"
      /\ UNCHANGED <<runs, session, alive, closed, aborted, drain, comments, late>> /\ NoFault
  BY DEF Readback, Stands, Publishes
<1>2. PICK at \in {"report", "confirm", "look"} :
         To(w, at) /\ (at = "confirm" => pub[w].answer = "accepted")
  BY DEF Readback
<1>3. PICK y \in Pubs : Takes(w, y) /\ y.at = at /\ y.run = pub[w].run /\ y.answer = pub[w].answer
  BY <1>2, ToIs DEF PubStands
<1>4. PICK status \in Statuses : status = runs[pub[w].run].status
  BY <1>1, InHand
<1>5. PublisherGoes(w, y) /\ Says(pub[w].run, status)
  BY <1>1, <1>3, <1>4 DEF PublisherGoes, Says
<1>6. ASSUME CommentInv(S), pub[w].run \notin S PROVE HandsWell(y)' /\ status = "unknown"
  <2>1. HandsWell(pub[w])
    BY <1>6 DEF CommentInv
  <2>2. QED
    BY <1>1, <1>2, <1>3, <1>4, <2>1 DEF HandsWell, Answers, NeverHappened
<1>7. QED
  BY <1>1, <1>5, <1>6, PublisherKeeps DEF Kept

LEMMA LookKeeps ==
    ASSUME NEW S \in SUBSET Runs, QueueInv, NEW w \in Publishers, Look(w), Publishes
    PROVE  Kept(S)
<1>1. /\ pub[w].at = "look"
      /\ UNCHANGED <<runs, session, alive, closed, aborted, drain, comments, late>> /\ NoFault
  BY DEF Look, Stands, Publishes
<1>2. PICK at \in {"confirm", "keep", "catch"} :
         To(w, at) /\ (at = "confirm" => comments[pub[w].run] = 1)
  BY DEF Look
<1>3. PICK y \in Pubs : Takes(w, y) /\ y.at = at /\ y.run = pub[w].run
  BY <1>2, ToIs DEF PubStands
<1>4. PICK status \in Statuses : status = runs[pub[w].run].status
  BY <1>1, InHand
<1>5. PublisherGoes(w, y) /\ Says(pub[w].run, status)
  BY <1>1, <1>3, <1>4 DEF PublisherGoes, Says
<1>6. ASSUME CommentInv(S), pub[w].run \notin S PROVE HandsWell(y)' /\ status = "unknown"
  <2>1. HandsWell(pub[w])
    BY <1>6 DEF CommentInv
  <2>2. QED
    BY <1>1, <1>2, <1>3, <1>4, <2>1 DEF HandsWell
<1>7. QED
  BY <1>1, <1>5, <1>6, PublisherKeeps DEF Kept

LEMMA ReportKeeps ==
    ASSUME NEW S \in SUBSET Runs, QueueInv, NEW w \in Publishers, Report(w) \/ Catch(w), Publishes
    PROVE  Kept(S)
<1>1. /\ UNCHANGED <<runs, session, alive, closed, aborted, drain, comments, late>> /\ NoFault
      /\ pub[w].at \in {"report", "catch"}
  BY DEF Report, Catch, Stands, Publishes
<1>2. PICK status \in Statuses : status = runs[pub[w].run].status
  BY <1>1, InHand
<1>3. PICK at \in {"write", "rewrite"} :
         /\ pub' = [pub EXCEPT ![w].at = at, ![w].status = status]
         /\ at = "write" <=> pub[w].at = "report"
  BY <1>2 DEF Report, Catch, Stands
<1>4. PICK y \in Pubs : /\ Takes(w, y) /\ y.at = at /\ y.run = pub[w].run
                        /\ y.answer = pub[w].answer /\ y.status = status
  <2>1. at \in PubStands
    BY DEF PubStands
  <2>2. QED
    BY <1>3, <2>1, StatusIs
<1>5. PublisherGoes(w, y) /\ Says(pub[w].run, status)
  BY <1>1, <1>2, <1>4 DEF PublisherGoes, Says
<1>6. ASSUME CommentInv(S), pub[w].run \notin S
      PROVE  HandsWell(y)' /\ (status \in {"pending", "failed"} => Untouched(pub[w].run))
             /\ status # "published"
  <2>1. HandsWell(pub[w]) /\ ReportsSound(S)
    BY <1>6 DEF CommentInv
  <2>2. HandsWell(y)'
    BY <1>1, <1>2, <1>3, <1>4, <2>1 DEF HandsWell, Untouched
  <2>3. QED
    BY <1>1, <1>2, <1>6, <2>1, <2>2, InHand DEF HandsWell, ReportsSound
<1>7. QED
  BY <1>1, <1>5, <1>6, PublisherKeeps DEF Kept


\* The run in hand has the status from, and takes the status to.
LEMMA SaveKeeps ==
    ASSUME NEW S \in SUBSET Runs, QueueInv, NEW w \in Publishers, NEW at \in PubStands \ {"none"},
           NEW from, NEW to \in Statuses, SaveAs(w, at, from, to), Publishes
    PROVE  /\ QueueInv' /\ SameButStatus
           /\ /\ CommentInv(S) /\ Apart(S)
              /\ pub[w].run \notin S =>
                    /\ runs[pub[w].run].status \in {"pending", "unknown"}
                    /\ to \in {"pending", "failed"} => Untouched(pub[w].run)
                    /\ to = "published" => comments[pub[w].run] = 1
              => CommentInv(S)'
<1>1. /\ pub[w].at = at /\ at # "none"
      /\ UNCHANGED <<session, alive, closed, aborted, drain, comments, late>>
      /\ \/ Changes(w, from, to) /\ Ends(w) /\ NoFault
         \/ UNCHANGED runs /\ To(w, "catch") /\ (Fault \/ NoFault)
  BY DEF SaveAs, Stands, Publishes
<1>2. CASE Changes(w, from, to) /\ Ends(w) /\ NoFault
  <2>1. PICK y \in Pubs : Takes(w, y) /\ y = NotPublishing /\ y.at = "none"
    BY <1>2, EndsIs
  <2>2. PublisherGoes(w, y) /\ Says(pub[w].run, to)
    BY <1>1, <1>2, <2>1 DEF PublisherGoes, Says, Changes, Restates
  <2>3. HandsWell(y)'
    BY <2>1 DEF HandsWell
  <2>4. QED
    BY <1>1, <2>2, <2>3, PublisherKeeps
<1>3. CASE UNCHANGED runs /\ To(w, "catch") /\ (Fault \/ NoFault)
  <2>1. PICK y \in Pubs : Takes(w, y) /\ y.at = "catch" /\ y.run = pub[w].run
    BY <1>3, ToIs DEF PubStands
  <2>2. PICK status \in Statuses : status = runs[pub[w].run].status
    BY <1>1, InHand
  <2>3. PublisherGoes(w, y) /\ Says(pub[w].run, status)
    BY <1>1, <1>3, <2>1, <2>2 DEF PublisherGoes, Says
  <2>4. ASSUME CommentInv(S), pub[w].run \notin S, runs[pub[w].run].status \in {"pending", "unknown"}
        PROVE  /\ HandsWell(y)' /\ (status \in {"pending", "failed"} => Untouched(pub[w].run))
               /\ status # "published"
    BY <1>1, <1>3, <2>1, <2>2, <2>4, InHand DEF HandsWell, CommentInv, ReportsSound
  <2>5. QED
    BY <1>1, <2>3, <2>4, PublisherKeeps
<1>4. QED
  BY <1>1, <1>2, <1>3

LEMMA SavesKeep ==
    ASSUME NEW S \in SUBSET Runs, QueueInv, NEW w \in Publishers,
           Confirm(w) \/ Keep(w) \/ Write(w), Publishes
    PROVE  Kept(S)
<1>1. "confirm" \in PubStands \ {"none"} /\ "keep" \in PubStands \ {"none"}
      /\ "write" \in PubStands \ {"none"}
      /\ "published" \in Statuses /\ "unknown" \in Statuses /\ "failed" \in Statuses
  BY DEF PubStands, Statuses
<1>2. CASE Confirm(w)
  <2>1. SaveAs(w, "confirm", "unknown", "published") /\ pub[w].at = "confirm"
    BY <1>2 DEF Confirm, SaveAs, Stands
  <2>2. ASSUME CommentInv(S), pub[w].run \notin S
        PROVE  runs[pub[w].run].status = "unknown" /\ comments[pub[w].run] = 1
    BY <2>1, <2>2 DEF CommentInv, HandsWell
  <2>3. QED
    BY <1>1, <2>1, <2>2, SaveKeeps DEF Kept
<1>3. CASE Keep(w)
  <2>1. SaveAs(w, "keep", "unknown", "unknown") /\ pub[w].at = "keep"
    BY <1>3 DEF Keep, SaveAs, Stands
  <2>2. ASSUME CommentInv(S), pub[w].run \notin S PROVE runs[pub[w].run].status = "unknown"
    BY <2>1, <2>2 DEF CommentInv, HandsWell
  <2>3. QED
    BY <1>1, <2>1, <2>2, SaveKeeps DEF Kept
<1>4. CASE Write(w)
  <2>1. PICK to \in Statuses :
           /\ to = (IF NeverHappened(pub[w].answer) THEN "failed" ELSE "unknown")
           /\ SaveAs(w, "write", pub[w].status, to) /\ pub[w].at = "write"
    BY <1>1, <1>4 DEF Write, SaveAs, Stands
  <2>2. ASSUME CommentInv(S), pub[w].run \notin S
        PROVE  /\ runs[pub[w].run].status \in {"pending", "unknown"}
               /\ to \in {"pending", "failed"} => Untouched(pub[w].run)
    BY <2>1, <2>2 DEF CommentInv, HandsWell
  <2>3. to # "published"
    BY <2>1
  <2>4. QED
    BY <1>1, <2>1, <2>2, <2>3, SaveKeeps DEF Kept
<1>5. QED
  BY <1>2, <1>3, <1>4

LEMMA RewriteKeeps ==
    ASSUME NEW S \in SUBSET Runs, QueueInv, NEW w \in Publishers, Rewrite(w), Publishes
    PROVE  Kept(S)
<1>1. /\ pub[w].at = "rewrite" /\ UNCHANGED <<session, alive, closed, aborted, comments, late>>
      /\ \/ Changes(w, pub[w].status, pub[w].status) /\ Ends(w) /\ NoFault /\ UNCHANGED drain
         \/ UNCHANGED runs /\ Escapes(w) /\ (Fault \/ NoFault)
  BY DEF Rewrite, Stands, Publishes
<1>2. PICK status \in Statuses : status = runs[pub[w].run].status
  BY <1>1, InHand
<1>3. Ends(w) /\ (Fault \/ NoFault) /\ (drain' = drain \/ Moves(w[1], Asleep))
  BY <1>1 DEF Escapes, Moves
<1>4. PICK y \in Pubs : Takes(w, y) /\ y = NotPublishing /\ y.at = "none"
  BY <1>3, EndsIs
<1>5. Says(pub[w].run, status)
  BY <1>1, <1>2 DEF Says, Restates, Changes
<1>6. PublisherGoes(w, y)
  BY <1>1, <1>3, <1>4 DEF PublisherGoes
<1>7. HandsWell(y)'
  BY <1>4 DEF HandsWell
<1>8. ASSUME CommentInv(S), pub[w].run \notin S
      PROVE  (status \in {"pending", "failed"} => Untouched(pub[w].run)) /\ status # "published"
  BY <1>1, <1>2, <1>8, InHand DEF HandsWell, CommentInv, ReportsSound
<1>9. QED
  BY <1>1, <1>5, <1>6, <1>7, <1>8, PublisherKeeps DEF Kept

\* The request is sent once: what it may do to GitHub it does to a report that has left
\* nothing there.
LEMMA DispatchKeeps ==
    ASSUME NEW S \in SUBSET Runs, QueueInv, NEW w \in Publishers, Dispatch(w), Publishes
    PROVE  Kept(S)
<1>1. PICK r : r = pub[w].run
  OBVIOUS
<1>2. /\ pub[w].at = "dispatch" /\ NoFault
      /\ UNCHANGED <<runs, session, alive, closed, aborted, drain>>
  BY DEF Dispatch, Stands, Publishes
<1>3. PICK answer \in Answers :
         /\ pub' = [pub EXCEPT ![w].answer = answer,
                               ![w].at = IF NeverHappened(answer) THEN "report" ELSE "readback"]
         /\ \/ /\ answer \in {"accepted", "lost"}
               /\ comments' = [comments EXCEPT ![r] = @ + 1] /\ late' = late
            \/ answer = "lost" /\ late' = late \cup {r} /\ comments' = comments
            \/ answer # "accepted" /\ comments' = comments /\ late' = late
  BY <1>1 DEF Dispatch
<1>4. PICK at \in PubStands : at = (IF NeverHappened(answer) THEN "report" ELSE "readback")
  BY DEF PubStands
<1>5. PICK y \in Pubs : Takes(w, y) /\ y.at = at /\ y.run = r /\ y.answer = answer
  <2>1. Told(w, at, answer)
    BY <1>3, <1>4 DEF Told
  <2>2. QED
    BY <1>1, <2>1, AnswerIs
<1>6. PICK status \in Statuses : status = runs[r].status
  BY <1>1, <1>2, InHand
<1>7. PublisherGoes(w, y) /\ Says(r, status)
  BY <1>1, <1>2, <1>4, <1>5, <1>6 DEF PublisherGoes, Says
<1>8. QueueInv' /\ SameButStatus
  BY <1>1, <1>7, PublisherQueue
<1>9. ASSUME CommentInv(S), Apart(S) PROVE CommentInv(S)'
  <2>1. r \in Runs /\ r \in DOMAIN runs /\ comments \in [Runs -> Nat] /\ late \subseteq Runs
    BY <1>1, <1>2, <1>9, InHand DEF CommentInv, ReportsSound
  <2>2. r \notin S => runs[r].status = "unknown" /\ comments[r] = 0 /\ r \notin late
    BY <1>1, <1>2, <1>9 DEF CommentInv, HandsWell, Untouched
  <2>3. PICK n \in Nat : n = comments[r]
    BY <2>1
  <2>4. /\ \A q \in Runs : q # r => comments'[q] = comments[q] /\ (q \in late' <=> q \in late)
        /\ late' \subseteq Runs /\ comments' \in [Runs -> Nat]
        /\ \/ answer \in {"accepted", "lost"} /\ comments'[r] = n + 1 /\ (r \in late' <=> r \in late)
           \/ answer = "lost" /\ comments'[r] = n
           \/ answer # "accepted" /\ comments'[r] = n /\ (r \in late' <=> r \in late)
    <3>1. CASE /\ answer \in {"accepted", "lost"}
               /\ comments' = [comments EXCEPT ![r] = @ + 1] /\ late' = late
      <4>1. n + 1 \in Nat /\ comments' = [comments EXCEPT ![r] = n + 1]
        BY <2>1, <2>3, <3>1
      <4>2. QED
        BY <2>1, <2>3, <3>1, <4>1
    <3>2. CASE answer = "lost" /\ late' = late \cup {r} /\ comments' = comments
      BY <2>1, <2>3, <3>2
    <3>3. CASE answer # "accepted" /\ comments' = comments /\ late' = late
      BY <2>1, <2>3, <3>3
    <3>4. QED
      BY <1>3, <3>1, <3>2, <3>3
  <2>5. ASSUME r \notin S PROVE HandsWell(y)'
    <3>1. CASE NeverHappened(answer)
      <4>1. answer \notin {"accepted", "lost"}
        BY <3>1 DEF NeverHappened
      <4>2. Untouched(r)'
        BY <2>2, <2>3, <2>4, <2>5, <4>1 DEF Untouched
      <4>3. y.at = "report" /\ runs'[y.run].status = "unknown"
        BY <1>2, <1>4, <1>5, <2>2, <2>5, <3>1
      <4>4. QED
        BY <1>5, <4>2, <4>3 DEF HandsWell, Untouched
    <3>2. CASE ~NeverHappened(answer)
      <4>1. answer \in {"accepted", "lost"}
        BY <3>2 DEF NeverHappened, Answers
      <4>2. answer = "accepted" => comments'[r] = 1
        BY <2>2, <2>3, <2>4, <2>5
      <4>3. y.at = "readback" /\ runs'[y.run].status = "unknown"
        BY <1>2, <1>4, <1>5, <2>2, <2>5, <3>2
      <4>4. QED
        BY <1>5, <4>1, <4>2, <4>3 DEF HandsWell
    <3>3. QED
      BY <3>1, <3>2
  <2>6. /\ pub[w].at # "none" /\ Takes(w, y) /\ y.run = r
        /\ DOMAIN runs' = DOMAIN runs /\ \A q \in DOMAIN runs : q # r => runs'[q] = runs[q]
        /\ \A q \in Processes : drain'[q].at = "sweep" => drain'[q] = drain[q]
    BY <1>2, <1>5
  <2>7. r \notin S => comments'[r] \in {0, 1} /\ (r \in late' => comments'[r] = 0)
    BY <2>2, <2>3, <2>4
  <2>8. r \notin S => runs'[r].status = "unknown"
    BY <1>2, <2>2
  <2>9. QED
    BY <1>1, <1>9, <2>4, <2>5, <2>6, <2>7, <2>8, HandMoves
<1>10. QED
  BY <1>8, <1>9 DEF Kept

LEMMA PublicationKeeps ==
    ASSUME NEW S \in SUBSET Runs, QueueInv, NEW w \in Publishers, Publication(w)
    PROVE  Kept(S)
<1>1. Publishes
  BY DEF Publication, Publishes
<1>2. \/ Lease(w) \/ Mark(w) \/ Dispatch(w) \/ Readback(w) \/ Look(w) \/ Confirm(w)
      \/ Keep(w) \/ Report(w) \/ Write(w) \/ Catch(w) \/ Rewrite(w)
  BY DEF Publication
<1>3. CASE Lease(w) \/ Mark(w) \/ Dispatch(w)
  BY <1>1, <1>3, LeaseKeeps, MarkKeeps, DispatchKeeps
<1>4. CASE Readback(w) \/ Look(w) \/ Report(w) \/ Catch(w)
  BY <1>1, <1>4, ReadbackKeeps, LookKeeps, ReportKeeps
<1>5. CASE Confirm(w) \/ Keep(w) \/ Write(w) \/ Rewrite(w)
  BY <1>1, <1>5, SavesKeep, RewriteKeeps
<1>6. QED
  BY <1>2, <1>3, <1>4, <1>5


LEMMA LandsKeeps ==
    ASSUME NEW S \in SUBSET Runs, QueueInv, NEW r \in Runs, Lands(r)
    PROVE  Kept(S)
<1>1. /\ r \in late /\ late' = late \ {r} /\ comments' = [comments EXCEPT ![r] = @ + 1]
      /\ UNCHANGED <<runs, session, alive, closed, drain, aborted, pub, fails>>
  BY DEF Lands, NoFault
<1>2. QueueInv' /\ SameButStatus
  BY <1>1, SameRuns
     DEF QueueInv, QueueTypes, ClaimsSound, Claimed, StandsWell, PubSound
<1>3. ASSUME CommentInv(S) PROVE CommentInv(S)'
  <2>1. ReportsSound(S) /\ comments \in [Runs -> Nat]
    BY <1>3 DEF CommentInv, ReportsSound
  <2>2. PICK n \in Nat : n = comments[r] + 1
    BY <2>1
  <2>3. /\ comments'[r] = n /\ comments' \in [Runs -> Nat]
        /\ \A q \in Runs : q # r => comments'[q] = comments[q] /\ (q \in late' <=> q \in late)
    BY <1>1, <2>1, <2>2
  <2>4. ~Untouched(r) /\ \A q \in Runs : Untouched(q) => Untouched(q)'
    BY <1>1, <2>3 DEF Untouched
  <2>5. DOMAIN runs \subseteq Runs
    BY RunsTyped DEF QueueInv
  <2>6. r \notin S => comments[r] = 0 /\ comments'[r] = 1
    BY <1>1, <2>1, <2>2, <2>3 DEF ReportsSound
  <2>7. \A q \in Runs \ S : comments[q] = 1 => comments'[q] = 1
    BY <2>3, <2>6
  <2>8. ReportsSound(S)'
    <3>1. late' \subseteq Runs /\ r \notin late'
      BY <1>1, <2>1 DEF ReportsSound
    <3>2. \A q \in Runs \ S :
             /\ comments'[q] \in {0, 1} /\ (q \in late' => comments'[q] = 0)
             /\ q \notin DOMAIN runs => Untouched(q)'
      BY <2>1, <2>3, <2>4, <2>6, <3>1 DEF ReportsSound
    <3>3. \A q \in DOMAIN runs \ S :
             /\ runs[q].status \in {"pending", "failed"} => Untouched(q)'
             /\ runs[q].status = "published" => comments'[q] = 1
      BY <2>1, <2>4, <2>5, <2>7 DEF ReportsSound
    <3>4. QED
      BY <1>1, <2>3, <3>1, <3>2, <3>3 DEF ReportsSound
  <2>9. ASSUME NEW w \in Publishers, pub'[w].run \notin S PROVE HandsWell(pub[w])'
    <3>1. HandsWell(pub[w])
      BY <1>1, <1>3, <2>9 DEF CommentInv
    <3>2. CASE pub[w].at = "none"
      BY <1>1, <3>2 DEF HandsWell
    <3>3. CASE pub[w].at # "none"
      <4>1. PICK q \in Runs \ S : q = pub[w].run
        BY <1>1, <2>9, <3>3, InHand
      <4>2. Untouched(q) => Untouched(q)'
        BY <2>4
      <4>3. comments[q] = 1 => comments'[q] = 1
        BY <2>7
      <4>4. runs' = runs /\ pub' = pub
        BY <1>1
      <4>5. QED
        BY <3>1, <4>1, <4>2, <4>3, <4>4 DEF HandsWell, Untouched
    <3>4. QED
      BY <3>2, <3>3
  <2>10. \A p \in Processes : SweepSound(S, p)'
    BY <1>1, <1>3 DEF CommentInv, SweepSound
  <2>11. QED
    BY <2>8, <2>9, <2>10 DEF CommentInv
<1>4. QED
  BY <1>2, <1>3 DEF Kept

\* A run that is submitted has left nothing anywhere.
LEMMA SubmitReports ==
    ASSUME NEW S \in SUBSET Runs, QueueInv, CommentInv(S), NEW input \in Inputs, NEW retry,
           Submit(input, retry)
    PROVE  CommentInv(S)'
<1>1. UNCHANGED <<drain, pub, comments, late>>
  BY DEF Submit
<1>2. /\ QueueInv' /\ DOMAIN runs \subseteq DOMAIN runs'
      /\ \A r \in DOMAIN runs : runs'[r] = runs[r]
      /\ \A r \in DOMAIN runs' : r \notin DOMAIN runs => runs'[r].status = "pending"
  BY SubmitKeeps
<1>3. DOMAIN runs' \subseteq Runs
  <2>1. QueueTypes'
    BY <1>2 DEF QueueInv
  <2>2. runs' \in Seq(RunRecords) /\ Len(runs') <= MaxRuns
    BY <2>1 DEF QueueTypes
  <2>3. QED
    BY <2>2, AssessmentAssumption DEF Runs
<1>4. ReportsSound(S)'
  <2>1. \A r \in Runs : Untouched(r)' <=> Untouched(r)
    BY <1>1 DEF Untouched
  <2>2. \A r \in DOMAIN runs' \ S : r \notin DOMAIN runs => Untouched(r)
    BY <1>3 DEF CommentInv, ReportsSound
  <2>3. \A r \in DOMAIN runs' \ S :
           /\ runs'[r].status \in {"pending", "failed"} => Untouched(r)
           /\ runs'[r].status = "published" => comments[r] = 1
    BY <1>2, <2>2 DEF CommentInv, ReportsSound
  <2>4. QED
    BY <1>1, <1>2, <1>3, <2>1, <2>3 DEF CommentInv, ReportsSound
<1>5. \A p \in Processes : SweepSound(S, p)'
  <2>1. \A p \in Processes : drain[p].at = "sweep" => \A r \in drain[p].todo : r \in DOMAIN runs
    BY DEF QueueInv, StandsWell
  <2>2. QED
    BY <1>1, <1>2, <2>1 DEF CommentInv, SweepSound
<1>6. ASSUME NEW w \in Publishers, pub'[w].run \notin S PROVE HandsWell(pub[w])'
  <2>1. HandsWell(pub[w]) /\ (pub[w].at # "none" => pub[w].run \in DOMAIN runs)
    BY <1>1, <1>6, InHand DEF CommentInv
  <2>2. QED
    BY <1>1, <1>2, <2>1 DEF HandsWell, Untouched
<1>7. QED
  BY <1>4, <1>5, <1>6 DEF CommentInv

LEMMA CancelReports ==
    ASSUME NEW S \in SUBSET Runs, QueueInv, CommentInv(S), NEW p \in Processes, NEW r \in Runs,
           Cancel(p, r)
    PROVE  CommentInv(S)'
<1>1. Advances /\ UNCHANGED <<drain, pub, comments, late>>
  BY CancelKeeps DEF Cancel
<1>2. Quiet
  BY <1>1 DEF Quiet
<1>3. QED
  BY <1>2, QuietKeeps

LEMMA DiesReports ==
    ASSUME NEW S \in SUBSET Runs, QueueInv, CommentInv(S), NEW p \in Processes, Dies(p)
    PROVE  CommentInv(S)'
<1>1. /\ Advances /\ UNCHANGED <<comments, late>>
      /\ \A q \in Processes : drain'[q].at = "sweep" => drain'[q] = drain[q]
      /\ \A w \in Publishers : pub'[w] = NotPublishing \/ pub'[w] = pub[w]
  BY DiesKeeps
<1>2. DOMAIN runs' = DOMAIN runs /\ \A r \in DOMAIN runs : runs'[r].status = runs[r].status
  BY <1>1 DEF Advances
<1>3. ReportsSound(S)'
  BY <1>1, <1>2 DEF CommentInv, ReportsSound, Untouched
<1>4. ASSUME NEW q \in Processes, drain'[q].at = "sweep", NEW s \in drain'[q].todo \ S
      PROVE  runs'[s].status = "pending" /\ pub'[<<q, "drain">>].run # s
  <2>1. s \notin S /\ s \in DOMAIN runs /\ s # 0 /\ drain[q].at = "sweep" /\ s \in drain[q].todo
    BY <1>1, <1>4, RunsTyped DEF QueueInv, StandsWell
  <2>2. runs[s].status = "pending" /\ pub[<<q, "drain">>].run # s
    BY <2>1 DEF CommentInv, SweepSound
  <2>3. <<q, "drain">> \in Publishers
    BY DEF Publishers, Callers
  <2>4. QED
    BY <1>1, <1>2, <2>1, <2>2, <2>3 DEF NotPublishing
<1>5. ASSUME NEW w \in Publishers, pub'[w].run \notin S PROVE HandsWell(pub[w])'
  <2>1. CASE pub'[w] = NotPublishing
    BY <2>1 DEF HandsWell, NotPublishing
  <2>2. CASE pub'[w] = pub[w]
    <3>1. HandsWell(pub[w]) /\ (pub[w].at # "none" => pub[w].run \in DOMAIN runs)
      BY <1>5, <2>2, InHand DEF CommentInv
    <3>2. QED
      BY <1>1, <1>2, <2>2, <3>1 DEF HandsWell, Untouched
  <2>3. QED
    BY <1>1, <2>1, <2>2
<1>6. QED
  BY <1>3, <1>4, <1>5 DEF CommentInv, SweepSound

\* What has ended stays ended.
Ended(r) == runs[r].phase \notin {"queued", "running"}
EndedStayNow == \A r \in DOMAIN runs : Ended(r) => runs'[r].phase = runs[r].phase

LEMMA DrainKeeps ==
    ASSUME NEW S \in SUBSET Runs, QueueInv, NEW p \in Processes, Drain(p)
    PROVE  QueueInv' /\ EndedStayNow /\ (CommentInv(S) /\ Apart(S)' => CommentInv(S)')
<1>1. CASE PassOver(p) \/ Recover(p) \/ Interrupt(p) \/ AllRecovered(p) \/ Claim(p)
           \/ AgentEnds(p) \/ Settle(p) \/ FailRun(p)
  <2>1. QueueInv' /\ Quiet
    BY <1>1, PassOverKeeps, RecoverKeeps, InterruptKeeps, AllRecoveredKeeps, ClaimKeeps,
       AgentEndsKeeps, SettleKeeps, FailRunKeeps
  <2>2. QED
    BY <2>1, QuietKeeps DEF Quiet, Advances, EndedStayNow, Ended
<1>2. CASE Exhausted(p) \/ PublishSettled(p) \/ Sweep(p)
  <2>1. QueueInv' /\ Advances /\ (CommentInv(S) /\ Apart(S)' => CommentInv(S)')
    BY <1>2, ExhaustedKeeps, PublishSettledKeeps, SweepKeeps
  <2>2. QED
    BY <2>1 DEF Advances, EndedStayNow, Ended
<1>3. QED
  BY <1>1, <1>2 DEF Drain

\* Every step keeps the queue, and the reports when each is in one hand.
LEMMA NextKeeps ==
    ASSUME NEW S \in SUBSET Runs, QueueInv, [AssessmentNext]_avars
    PROVE  /\ QueueInv' /\ EndedStayNow
           /\ CommentInv(S) /\ Apart(S) /\ Apart(S)' => CommentInv(S)'
<1>1. ASSUME NEW i \in Inputs, NEW retry \in BOOLEAN, Submit(i, retry)
      PROVE  QueueInv' /\ EndedStayNow /\ (CommentInv(S) => CommentInv(S)')
  BY <1>1, SubmitKeeps, SubmitReports DEF EndedStayNow
<1>2. ASSUME NEW p \in Processes, Close(p) \/ Wake(p)
      PROVE  QueueInv' /\ EndedStayNow /\ (CommentInv(S) => CommentInv(S)')
  <2>1. QueueInv' /\ Quiet
    BY <1>2, CloseKeeps, WakeKeeps
  <2>2. QED
    BY <2>1, QuietKeeps DEF Quiet, Advances, EndedStayNow, Ended
<1>3. ASSUME NEW p \in Processes, Dies(p)
      PROVE  QueueInv' /\ EndedStayNow /\ (CommentInv(S) => CommentInv(S)')
  BY <1>3, DiesKeeps, DiesReports DEF Advances, EndedStayNow, Ended
<1>4. ASSUME NEW p \in Processes, NEW r \in Runs, Cancel(p, r)
      PROVE  QueueInv' /\ EndedStayNow /\ (CommentInv(S) => CommentInv(S)')
  BY <1>4, CancelKeeps, CancelReports DEF Advances, EndedStayNow, Ended
<1>5. ASSUME NEW p \in Processes, NEW r \in Runs, UserPublishes(p, r)
      PROVE  QueueInv' /\ EndedStayNow /\ (CommentInv(S) /\ Apart(S)' => CommentInv(S)')
  BY <1>5, UserPublishesKeeps DEF SameButStatus, EndedStayNow
<1>6. ASSUME NEW w \in Publishers, Publication(w)
      PROVE  QueueInv' /\ EndedStayNow /\ (CommentInv(S) /\ Apart(S) => CommentInv(S)')
  BY <1>6, PublicationKeeps DEF Kept, SameButStatus, EndedStayNow
<1>7. ASSUME NEW r \in Runs, Lands(r)
      PROVE  QueueInv' /\ EndedStayNow /\ (CommentInv(S) /\ Apart(S) => CommentInv(S)')
  BY <1>7, LandsKeeps DEF Kept, SameButStatus, EndedStayNow
<1>8. CASE UNCHANGED avars
  <2>1. QueueInv'
    BY <1>8 DEF avars, QueueInv, QueueTypes, ClaimsSound, Claimed, StandsWell, PubSound
  <2>2. Quiet
    BY <1>8, SameAdvances DEF avars, Quiet
  <2>3. QED
    BY <2>1, <2>2, QuietKeeps DEF Quiet, Advances, EndedStayNow, Ended
<1>9. QED
  BY <1>1, <1>2, <1>3, <1>4, <1>5, <1>6, <1>7, <1>8, DrainKeeps DEF AssessmentNext

\* What is claimed, by whom, and what is at it: for any number of processes, runs, deaths and
\* faults of the state file, the queue keeps its types, claims one run at most, and completes
\* none without its proof.
THEOREM AssessmentQueue == AssessmentSpec => []QueueInv
<1>1. AssessmentInit => QueueInv
  BY QueueInitial
<1>2. QueueInv /\ [AssessmentNext]_avars => QueueInv'
  <2>1. {} \in SUBSET Runs
    OBVIOUS
  <2>2. QED
    BY <2>1, NextKeeps
<1>3. QED
  BY <1>1, <1>2, PTL DEF AssessmentSpec

LEMMA QueueIsTrue == QueueInv => OneAgent /\ ReportIsProved
<1>1. QueueInv => OneAgent
  <2> SUFFICES ASSUME QueueInv, NEW p \in Processes, NEW q \in Processes,
                      drain[p].at = "run", drain[q].at = "run"
               PROVE  p = q /\ runs[drain[p].run].owner = p
    BY DEF OneAgent
  <2>1. \A o \in {p, q} : drain[o].run \in DOMAIN runs /\ runs[drain[o].run].owner = o
    BY DEF QueueInv, StandsWell
  <2>2. drain[p].run \in Claimed /\ drain[q].run \in Claimed
    BY <2>1, NoOwner DEF Claimed
  <2>3. drain[p].run = drain[q].run
    BY <2>2 DEF QueueInv, ClaimsSound
  <2>4. QED
    BY <2>1, <2>3
<1>2. QueueInv => ReportIsProved
  BY DEF QueueInv, ClaimsSound, ReportIsProved
<1>3. QED
  BY <1>1, <1>2

\* At most one assessment agent runs, in whatever process, and it is the agent of the run the
\* file says is owned; a completed run is one whose session has the whole answer.
THEOREM OneAgentAlways == AssessmentSpec => [](OneAgent /\ ReportIsProved)
<1>1. QueueInv => OneAgent /\ ReportIsProved
  BY QueueIsTrue
<1>2. QED
  BY <1>1, AssessmentQueue, PTL

\* A run that has ended, a cancelled one in particular, never becomes another one.
THEOREM EndedAlwaysStays == AssessmentSpec => EndedStays
<1>1. QueueInv /\ [AssessmentNext]_avars =>
         [\A r \in DOMAIN runs : runs[r].phase \notin {"queued", "running"} =>
              runs'[r].phase = runs[r].phase]_avars
  <2>1. {} \in SUBSET Runs
    OBVIOUS
  <2>2. QED
    BY <2>1, NextKeeps DEF EndedStayNow, Ended
<1>2. QED
  BY <1>1, AssessmentQueue, PTL DEF AssessmentSpec, EndedStays


\* What Watches adds to a step of the assessments: what two callers have in hand is shared.
WatchInv == shared \subseteq Runs /\ Contended \subseteq shared /\ QueueInv /\ CommentInv(shared)

\* Only a report that is shared is in two hands.
LEMMA OthersApart ==
    ASSUME NEW S, QueueInv, Contended \subseteq S
    PROVE  Apart(S)
<1>1. ASSUME NEW w \in Publishers PROVE Hands(w) \subseteq Runs
  <2>1. w[1] \in Processes /\ pub[w].run \in Runs \cup {0}
    BY DEF Publishers, QueueInv, QueueTypes, Pubs
  <2>2. drain[w[1]].at = "sweep" => drain[w[1]].todo \subseteq Runs
    BY <2>1, RunsTyped DEF QueueInv, StandsWell
  <2>3. QED
    BY <2>1, <2>2 DEF Hands, Swept
<1>2. QED
  BY <1>1 DEF Apart, Contended

\* What is left out may grow.
LEMMA LessIsSaid ==
    ASSUME NEW S \in SUBSET Runs, CommentInv(shared), shared \subseteq S
    PROVE  CommentInv(S)
<1>1. ReportsSound(S)
  BY DEF CommentInv, ReportsSound
<1>2. \A p \in Processes : SweepSound(S, p)
  BY DEF CommentInv, SweepSound
<1>3. QED
  BY <1>1, <1>2 DEF CommentInv

LEMMA WatchKeeps == WatchInv /\ [Watches]_<<avars, shared>> => WatchInv'
<1> SUFFICES ASSUME WatchInv, [Watches]_<<avars, shared>> PROVE WatchInv'
  OBVIOUS
<1>1. [AssessmentNext]_avars
  BY DEF Watches
<1>2. PICK S \in SUBSET Runs : S = shared' /\ shared \subseteq S /\ Contended' \subseteq S
  <2>1. CASE Watches
    BY <2>1 DEF Watches, WatchInv, Contended
  <2>2. CASE UNCHANGED <<avars, shared>>
    BY <2>2 DEF WatchInv, avars, Contended, Hands, Swept
  <2>3. QED
    BY <2>1, <2>2
<1>3. CommentInv(S) /\ Apart(S) /\ QueueInv
  BY <1>2, LessIsSaid, OthersApart DEF WatchInv
<1>4. QueueInv' /\ (Apart(S)' => CommentInv(S)')
  BY <1>1, <1>3, NextKeeps
<1>5. Apart(S)'
  <2>1. ASSUME NEW w \in Publishers PROVE Hands(w)' \subseteq Runs
    <3>1. w[1] \in Processes /\ pub'[w].run \in Runs \cup {0}
      BY <1>4 DEF Publishers, QueueInv, QueueTypes, Pubs
    <3>2. DOMAIN runs' \subseteq Runs
      <4>1. runs' \in Seq(RunRecords) /\ Len(runs') <= MaxRuns
        BY <1>4 DEF QueueInv, QueueTypes
      <4>2. QED
        BY <4>1, AssessmentAssumption DEF Runs
    <3>3. drain'[w[1]].at = "sweep" => drain'[w[1]].todo \subseteq Runs
      BY <1>4, <3>1, <3>2 DEF QueueInv, StandsWell
    <3>4. QED
      BY <3>1, <3>3 DEF Hands, Swept
  <2>2. QED
    BY <1>2, <2>1 DEF Apart, Contended
<1>6. CommentInv(S)'
  BY <1>4, <1>5
<1>7. CommentInv(shared)'
  BY <1>2, <1>6 DEF CommentInv, ReportsSound, SweepSound, HandsWell, Untouched
<1>8. QED
  BY <1>2, <1>4, <1>7 DEF WatchInv

\* One agent and a proved report, whatever dies, fails or is lost; and, for each report that
\* no two callers have had in hand at once, a true status and a single comment, however
\* often it is published, whatever became of the others.
THEOREM AssessmentsAlwaysTrue == WatchedSpec => []AssessmentsAreTrue
<1>1. Watched => WatchInv
  <2> SUFFICES ASSUME Watched PROVE WatchInv
    OBVIOUS
  <2>1. QueueInv /\ CommentInv({}) /\ shared = {}
    BY QueueInitial DEF Watched
  <2>2. \A w \in Publishers : Hands(w) = {}
    <3>1. \A w \in Publishers : pub[w].run = 0 /\ drain[w[1]].at = "asleep"
      BY DEF Watched, AssessmentInit, Publishers, NotPublishing, Asleep
    <3>2. QED
      BY <3>1 DEF Hands, Swept
  <2>3. Contended = {}
    BY <2>2 DEF Contended
  <2>4. QED
    BY <2>1, <2>3 DEF WatchInv
<1>2. WatchInv => AssessmentsAreTrue
  <2> SUFFICES ASSUME WatchInv PROVE AssessmentsAreTrue
    OBVIOUS
  <2>1. QueueInv /\ QueueTypes /\ ReportsSound(shared)
    BY DEF WatchInv, QueueInv, CommentInv
  <2>2. DOMAIN runs \subseteq Runs /\ \A r \in DOMAIN runs : runs[r] \in RunRecords
    BY <2>1, RunsTyped
  <2>3. StatusIsTrue
    <3> SUFFICES ASSUME NEW r \in DOMAIN runs \ shared
                 PROVE  /\ runs[r].status = "published" => comments[r] > 0
                        /\ runs[r].status = "failed" => comments[r] = 0 /\ r \notin late
      BY DEF StatusIsTrue
    <3>1. QED
      BY <2>1 DEF ReportsSound, Untouched
  <2>4. ASSUME NEW r \in Runs \ shared PROVE CommentedAtMostOnce(r)
    <3>1. comments[r] \in {0, 1} /\ (r \in late => comments[r] = 0)
      BY <2>1 DEF ReportsSound
    <3>2. CASE r \in late
      BY <3>1, <3>2 DEF CommentedAtMostOnce
    <3>3. CASE r \notin late
      BY <3>1, <3>3 DEF CommentedAtMostOnce
    <3>4. QED
      BY <3>2, <3>3
  <2>5. AssessmentTypeOK
    <3>1. ASSUME NEW p \in Processes
          PROVE  /\ drain[p].at \in DrainStands /\ drain[p].run \in Runs \cup {0}
                 /\ drain[p].todo \subseteq IF drain[p].at = "sweep" THEN Runs
                                            ELSE Runs \X Processes
      <4>1. drain[p] \in Drains /\ StandsWell(p, drain[p])
        BY <2>1, DrainAt
      <4>2. CASE drain[p].at = "sweep"
        BY <2>2, <4>1, <4>2 DEF StandsWell, Drains
      <4>3. CASE drain[p].at # "sweep"
        BY <4>1, <4>3 DEF StandsWell, Drains
      <4>4. QED
        BY <4>2, <4>3
    <3>2. \A w \in Publishers : pub[w].at \in PubStands /\ pub[w].run \in Runs \cup {0}
      BY <2>1 DEF QueueTypes, Pubs
    <3>3. comments \in [Runs -> Nat] /\ late \subseteq Runs
      BY <2>1 DEF ReportsSound
    <3>4. QED
      BY <2>1, <2>2, <3>1, <3>2, <3>3
         DEF AssessmentTypeOK, QueueTypes, RunRecords, DrainStands, PubStands
  <2>6. QED
    BY <2>1, <2>3, <2>4, <2>5, QueueIsTrue DEF AssessmentsAreTrue
<1>3. QED
  BY <1>1, <1>2, WatchKeeps, PTL DEF WatchedSpec
=============================================================================
