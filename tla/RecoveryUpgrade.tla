------------------------------ MODULE RecoveryUpgrade ------------------------------
(***************************************************************************)
(* The offline upgrade of a v0.2 installation to the recovery generation   *)
(* (src/infra/recovery-upgrade.ts, recovery-upgrade-plan.ts,               *)
(* recovery-upgrade-files.ts, recovery-config.ts).  The old state is       *)
(* copied, converted and published under a new root; it is never moved.    *)
(* One command at a time has the lock of UpgradeLock.  A tree is           *)
(* absent, partly written, whole, littered with what a death inside        *)
(* durableWriteExclusive leaves, or has been worked in since.              *)
(***************************************************************************)
EXTENDS Integers, Sequences, NoValue

CONSTANTS
    MaxRPlans,   \* bound: plans that are authorized
    MaxScene,    \* bound: changes of the old state and the Git scene
    MaxCrashes   \* bound: deaths and failures of the disk

RPlans == 1..MaxRPlans

VARIABLES
    scene,     \* the version of old state, old journal and Git scene
    active,    \* config.yaml: "source", or the plan it was converted for
    root,      \* the new root
    stages,    \* the staging directory of a plan
    backups,   \* the backup of a plan
    rjournal,  \* upgrade-recovery-1.json: phase and plan
    rplans,    \* the scene a plan was made of, 0 for no plan yet
    worker,    \* the command under way
    crashes,   \* deaths and failures so far
    after      \* history: plans made when the journal said rolled-back

rvars == <<scene, active, root, stages, backups, rjournal, rplans, worker, crashes, after>>

Trees == {"absent", "partial", "littered", "whole", "used"}
RPhases == {"prepared", "staged", "config-written", "root-published", "verified", "rolled-back"}
Sequence == [apply |-> <<"back up", "back up on", "prepared">>,
             finish |-> <<"stage", "stage on", "staged", "convert", "config-written",
                          "publish", "root-published", "verified">>,
             rollback |-> <<"withdraw", "reconvert", "rolled-back">>]

Roots == [tree : {"whole", "used"}, plan : RPlans]
Journals == [phase : RPhases, plan : RPlans]
Workers == [op : DOMAIN Sequence, plan : RPlans, n : 1..8]

ASSUME RecoveryAssumption ==
    /\ MaxScene \in Nat \ {0} /\ MaxCrashes \in Nat
    /\ None \notin Roots \cup Journals \cup Workers

RecoveryTypeOK ==
    /\ scene \in 1..MaxScene
    /\ active \in {0} \cup RPlans
    /\ root \in Roots \cup {None}
    /\ stages \in [RPlans -> Trees] /\ backups \in [RPlans -> Trees]
    /\ rjournal \in Journals \cup {None}
    /\ rplans \in [RPlans -> 0..MaxScene]
    /\ worker \in Workers \cup {None}
    /\ worker # None => worker.n <= Len(Sequence[worker.op])
    /\ crashes \in 0..MaxCrashes
    /\ after \subseteq RPlans

RecoveryInit ==
    /\ scene = 1 /\ active = 0 /\ root = None
    /\ stages = [k \in RPlans |-> "absent"] /\ backups = [k \in RPlans |-> "absent"]
    /\ rjournal = None
    /\ rplans = [k \in RPlans |-> 0]
    /\ worker = None /\ crashes = 0 /\ after = {}

-----------------------------------------------------------------------------
(* Who else is there *)

RPhase == IF rjournal = None THEN "none" ELSE rjournal.phase
Settled == RPhase \in {"none", "verified", "rolled-back"}

\* What every writer of the new root reads again before it writes: journal,
\* marker and configuration, of one plan.
Authority ==
    /\ RPhase = "verified" /\ root # None
    /\ root.plan = rjournal.plan /\ active = rjournal.plan

Works ==
    /\ worker = None /\ Authority
    /\ root' = [root EXCEPT !.tree = "used"]
    /\ UNCHANGED <<scene, active, stages, backups, rjournal, rplans, worker, crashes, after>>

\* The old runtime writes to the old root as long as no upgrade is under way.
\* Git is everybody's, at any time, and what was changed may be put back.
SceneChanges ==
    /\ scene' \in (1..MaxScene) \ {scene}
    /\ UNCHANGED <<active, root, stages, backups, rjournal, rplans, worker, crashes, after>>

PreviewRecovery(k) ==
    /\ rplans[k] = 0 /\ \A j \in RPlans : j < k => rplans[j] # 0
    /\ root = None /\ active = 0
    /\ rplans' = [rplans EXCEPT ![k] = scene]
    /\ after' = IF RPhase = "rolled-back" THEN after \cup {k} ELSE after
    /\ UNCHANGED <<scene, active, root, stages, backups, rjournal, worker, crashes>>

-----------------------------------------------------------------------------
(* Commands *)

RBegins(op, k, n) ==
    /\ worker = None
    /\ worker' = [op |-> op, plan |-> k, n |-> n]
    /\ UNCHANGED <<scene, active, root, stages, backups, rjournal, rplans, crashes, after>>

\* Old state, journal, Git scene and configuration are those of the plan; once
\* the conversion has begun the configuration may be the converted one.
Unchanged(k, converted) == scene = rplans[k] /\ active \in {0} \cup (IF converted THEN {k} ELSE {})

ApplyRecovery(k) ==
    /\ rplans[k] # 0 /\ rjournal = None /\ root = None /\ Unchanged(k, FALSE)
    /\ RBegins("apply", k, 1)

\* With the new root in place it begins at its verification.
ResumeRecovery ==
    /\ rjournal # None /\ RPhase \notin {"rolled-back", "verified"}
    /\ Unchanged(rjournal.plan, TRUE)
    /\ RBegins("finish", rjournal.plan, IF root = None THEN 1 ELSE 7)

\* Mutant: a rollback does not look at the tree.
RollbackUsed ==
    /\ rjournal # None /\ RPhase # "rolled-back" /\ Unchanged(rjournal.plan, TRUE)
    /\ RBegins("rollback", rjournal.plan, 1)

\* The whole tree must be as it was converted.
RollbackRecovery ==
    /\ rjournal # None /\ RPhase # "rolled-back" /\ Unchanged(rjournal.plan, TRUE)
    /\ root # None => root.tree = "whole" /\ stages[rjournal.plan] = "absent"
    /\ RBegins("rollback", rjournal.plan, 1)

RAt(step) == worker # None /\ Sequence[worker.op][worker.n] = step
P == worker.plan

RAdvances ==
    /\ worker' = IF worker.n < Len(Sequence[worker.op]) THEN [worker EXCEPT !.n = @ + 1]
                 ELSE IF worker.op = "apply" THEN [worker EXCEPT !.op = "finish", !.n = 1]
                 ELSE None
    /\ UNCHANGED <<scene, rplans, crashes, after>>

\* A tree is written file by file; what an earlier attempt has left is kept,
\* but a file of another name is drift.
WriteTree(first, rest, trees) ==
    \/ /\ RAt(first) /\ trees[P] # "littered"
       /\ IF trees[P] = "absent" THEN trees' = [trees EXCEPT ![P] = "partial"] ELSE UNCHANGED trees
    \/ /\ RAt(rest)
       /\ trees' = [trees EXCEPT ![P] = "whole"]

\* Mutant: a backup directory that is there counts as a backup.
MakeBackupOnce ==
    /\ \/ RAt("back up") /\ backups' = [backups EXCEPT ![P] = "partial"]
       \/ RAt("back up on") /\ UNCHANGED backups
    /\ RAdvances
    /\ UNCHANGED <<active, root, stages, rjournal>>

MakeBackup ==
    /\ WriteTree("back up", "back up on", backups)
    /\ RAdvances
    /\ UNCHANGED <<active, root, stages, rjournal>>

MakeStaging ==
    /\ WriteTree("stage", "stage on", stages)
    /\ RAdvances
    /\ UNCHANGED <<active, root, backups, rjournal>>

ConvertConfig ==
    /\ RAt("convert") /\ Unchanged(P, TRUE)
    /\ active' = P
    /\ RAdvances
    /\ UNCHANGED <<root, stages, backups, rjournal>>

PublishRoot ==
    /\ RAt("publish")
    /\ root' = [tree |-> stages[P], plan |-> P]
    /\ stages' = [stages EXCEPT ![P] = "absent"]
    /\ RAdvances
    /\ UNCHANGED <<active, backups, rjournal>>

WithdrawRoot ==
    /\ RAt("withdraw")
    /\ root' = None
    /\ stages' = IF root = None THEN stages ELSE [stages EXCEPT ![P] = root.tree]
    /\ RAdvances
    /\ UNCHANGED <<active, backups, rjournal>>

ReconvertConfig ==
    /\ RAt("reconvert")
    /\ active' = 0
    /\ RAdvances
    /\ UNCHANGED <<root, stages, backups, rjournal>>

\* What must hold for a phase to be recorded.
Recordable(phase) ==
    CASE phase = "prepared" -> Unchanged(P, FALSE)
      [] phase = "root-published" ->
            root # None /\ root = [tree |-> "whole", plan |-> P] /\ active = P
      [] phase = "verified" -> Unchanged(P, TRUE)
      [] OTHER -> TRUE

Record ==
    /\ worker # None
    /\ LET phase == Sequence[worker.op][worker.n] IN
       /\ phase \in RPhases /\ Recordable(phase)
       /\ rjournal' = [phase |-> phase, plan |-> P]
    /\ RAdvances
    /\ UNCHANGED <<active, root, stages, backups>>

WorkerStep ==
    \/ MakeBackup \/ MakeStaging \/ ConvertConfig \/ PublishRoot
    \/ WithdrawRoot \/ ReconvertConfig \/ Record

Blocked ==
    \/ RAt("back up") /\ backups[P] = "littered"
    \/ RAt("stage") /\ stages[P] = "littered"
    \/ RAt("convert") /\ ~Unchanged(P, TRUE)
    \/ \E phase \in RPhases : RAt(phase) /\ ~Recordable(phase)

Throws ==
    /\ worker # None /\ Blocked
    /\ worker' = None
    /\ UNCHANGED <<scene, active, root, stages, backups, rjournal, rplans, crashes, after>>

\* A death among the files of a tree may leave a temporary file there, whose
\* name nobody knows; a write that fails removes its own.
Leaves(rest, trees) ==
    trees' \in {trees} \cup
        (IF RAt(rest) /\ trees[P] = "partial" THEN {[trees EXCEPT ![P] = "littered"]} ELSE {})

Dies ==
    /\ worker # None /\ crashes < MaxCrashes
    /\ crashes' = crashes + 1
    /\ Leaves("back up on", backups) /\ Leaves("stage on", stages)
    /\ worker' = None
    /\ UNCHANGED <<scene, active, root, rjournal, rplans, after>>

RecoveryNext ==
    \/ Works \/ SceneChanges
    \/ \E k \in RPlans : PreviewRecovery(k) \/ ApplyRecovery(k)
    \/ ResumeRecovery \/ RollbackRecovery
    \/ WorkerStep \/ Throws \/ Dies

RecoveryFairness ==
    /\ WF_rvars(WorkerStep \/ Throws) /\ SF_rvars(ResumeRecovery)
    /\ \A k \in RPlans : SF_rvars(ApplyRecovery(k))

RecoverySpec == RecoveryInit /\ [][RecoveryNext]_rvars /\ RecoveryFairness

-----------------------------------------------------------------------------
(* Properties *)

\* Nothing is converted before the old state and configuration are backed up whole.
BackedUpFirst ==
    rjournal # None \/ active # 0 \/ root # None =>
        rjournal # None /\ backups[rjournal.plan] = "whole"

\* Work that a runtime has done under the new root is never withdrawn, nor is the
\* old configuration put back over it.
NoDowngradeAfterUse ==
    [][root # None /\ root.tree = "used" => root' = root /\ active' = active]_rvars

\* A rolled-back upgrade leaves the old pair and no new root behind.
RollbackIsClean == RPhase = "rolled-back" => active = 0 /\ root = None

\* Where the new root is, the configuration and the journal are of its plan.
RootHasItsConfig == root # None => active = root.plan /\ rjournal.plan = root.plan

\* What no resumption gets past: another scene than the plan's, until it is put
\* back, and what a death has left in the staging directory.
Hindered == rjournal # None /\ (scene # rplans[rjournal.plan] \/ stages[rjournal.plan] = "littered")

\* An upgrade that stopped anywhere is completed by a resumption, unless it is
\* hindered.
ResumeCompletes == ~Settled ~> (Settled \/ Hindered)

\* After a rollback a new plan can be applied ("rolled-back migration requires a
\* new preview", recovery-upgrade.ts:164).
NewPreviewGoesOn ==
    \A k \in RPlans :
        k \in after ~> \/ rjournal # None /\ rjournal.plan = k
                       \/ scene # rplans[k]

\* Wherever the recovery upgrade stops, it has backed up before it converted, and root,
\* configuration and journal belong to each other.
RecoveryIsSafe == RecoveryTypeOK /\ BackedUpFirst /\ RollbackIsClean /\ RootHasItsConfig
=============================================================================
