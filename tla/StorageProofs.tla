----------------------------- MODULE StorageProofs -----------------------------
(***************************************************************************)
(* Theorems about the upgrades of the state directory: RecoveryUpgrade,    *)
(* V02Upgrade and UpgradeLock.                                             *)
(***************************************************************************)
EXTENDS MCStorage, TLAPS

-----------------------------------------------------------------------------
(***************************************************************************)
(* RecoveryUpgrade, for any number of plans, changes of the scene, deaths  *)
(* and failures of the disk.  The argument is what a command may rely on   *)
(* at each step of its sequence, whatever command was stopped before it:   *)
(* the journal names its plan, and what an earlier step has made is there. *)
(***************************************************************************)

\* The journal names the plan that everything else is of; nothing is before there is one.
JournalRules ==
    /\ rjournal = None => active = 0 /\ root = None
    /\ rjournal # None =>
          /\ backups[rjournal.plan] = "whole" /\ active \in {0, rjournal.plan}
          /\ root # None => root.plan = rjournal.plan /\ active = rjournal.plan
    /\ RPhase = "rolled-back" => active = 0 /\ root = None /\ worker = None
    /\ root # None /\ root.tree = "used" => RPhase = "verified" /\ worker = None

\* What a command relies on.
ApplySound ==
    rjournal = None /\ (worker.n = 3 => backups[worker.plan] = "whole")

FinishSound ==
    /\ rjournal # None /\ rjournal.plan = worker.plan
    /\ RPhase \notin {"rolled-back", "verified"}
    /\ worker.n <= 6 => root = None
    /\ worker.n \in 3..6 => stages[worker.plan] = "whole"
    /\ worker.n \in 5..6 => active = worker.plan
    /\ worker.n >= 7 => root # None

RollbackSound ==
    /\ rjournal # None /\ rjournal.plan = worker.plan
    /\ worker.n >= 2 => root = None
    /\ worker.n = 3 => active = 0

WorkerSound ==
    worker # None =>
        /\ worker.op = "apply" => ApplySound
        /\ worker.op = "finish" => FinishSound
        /\ worker.op = "rollback" => RollbackSound

RecoveryInv == RecoveryTypeOK /\ JournalRules /\ WorkerSound

\* Where a command is, and at what.
Stands(op, n, step) == worker.op = op /\ worker.n = n /\ Sequence[worker.op][worker.n] = step

Step ==
    \/ Stands("apply", 1, "back up") \/ Stands("apply", 2, "back up on")
    \/ Stands("apply", 3, "prepared")
    \/ Stands("finish", 1, "stage") \/ Stands("finish", 2, "stage on")
    \/ Stands("finish", 3, "staged") \/ Stands("finish", 4, "convert")
    \/ Stands("finish", 5, "config-written") \/ Stands("finish", 6, "publish")
    \/ Stands("finish", 7, "root-published") \/ Stands("finish", 8, "verified")
    \/ Stands("rollback", 1, "withdraw") \/ Stands("rollback", 2, "reconvert")
    \/ Stands("rollback", 3, "rolled-back")

\* The sequences, as numbers and names.
LEMMA SequenceIs ==
    /\ DOMAIN Sequence = {"apply", "finish", "rollback"}
    /\ Len(Sequence["apply"]) = 3 /\ Len(Sequence["finish"]) = 8 /\ Len(Sequence["rollback"]) = 3
    /\ Sequence["apply"][1] = "back up" /\ Sequence["apply"][2] = "back up on"
    /\ Sequence["apply"][3] = "prepared"
    /\ Sequence["finish"][1] = "stage" /\ Sequence["finish"][2] = "stage on"
    /\ Sequence["finish"][3] = "staged" /\ Sequence["finish"][4] = "convert"
    /\ Sequence["finish"][5] = "config-written" /\ Sequence["finish"][6] = "publish"
    /\ Sequence["finish"][7] = "root-published" /\ Sequence["finish"][8] = "verified"
    /\ Sequence["rollback"][1] = "withdraw" /\ Sequence["rollback"][2] = "reconvert"
    /\ Sequence["rollback"][3] = "rolled-back"
  BY DEF Sequence

LEMMA StepIs ==
    ASSUME RecoveryTypeOK, worker # None
    PROVE  /\ Step /\ worker \in Workers /\ P \in RPlans /\ worker.plan \in RPlans
           /\ worker.n \in 1..8 /\ worker.op \in {"apply", "finish", "rollback"}
           /\ worker.op \in {"apply", "rollback"} => worker.n \in 1..3
<1>1. /\ worker \in Workers /\ worker.op \in {"apply", "finish", "rollback"}
      /\ worker.n \in 1..8 /\ worker.plan \in RPlans
      /\ worker.n <= Len(Sequence[worker.op])
  BY SequenceIs DEF RecoveryTypeOK, Workers
<1>2. PICK n \in 1..8 : n = worker.n
  BY <1>1
<1>3. PICK op \in {"apply", "finish", "rollback"} : op = worker.op
  BY <1>1
<1>4. n <= Len(Sequence[op])
  BY <1>1, <1>2, <1>3
<1>5. CASE op = "apply"
  <2>1. n <= 3
    BY <1>4, <1>5, SequenceIs
  <2>2. n = 1 \/ n = 2 \/ n = 3
    BY <2>1
  <2>3. Step
    BY <1>2, <1>3, <1>5, <2>2, SequenceIs, Zenon DEF Step, Stands
  <2>4. QED
    BY <1>1, <1>2, <2>1, <2>3 DEF P
<1>6. CASE op = "finish"
  <2>1. n = 1 \/ n = 2 \/ n = 3 \/ n = 4 \/ n = 5 \/ n = 6 \/ n = 7 \/ n = 8
    OBVIOUS
  <2>2. Step
    BY <1>2, <1>3, <1>6, <2>1, SequenceIs, Zenon DEF Step, Stands
  <2>3. QED
    BY <1>1, <1>3, <1>6, <2>2 DEF P
<1>7. CASE op = "rollback"
  <2>1. n <= 3
    BY <1>4, <1>7, SequenceIs
  <2>2. n = 1 \/ n = 2 \/ n = 3
    BY <2>1
  <2>3. Step
    BY <1>2, <1>3, <1>7, <2>2, SequenceIs, Zenon DEF Step, Stands
  <2>4. QED
    BY <1>1, <1>2, <2>1, <2>3 DEF P
<1>8. QED
  BY <1>5, <1>6, <1>7

\* A command goes on to step n of op, or ends.
GoesTo(op, n) == worker' # None /\ worker'.op = op /\ worker'.n = n /\ worker'.plan = P

\* The next step of a command, or its end.
LEMMA AdvancesTo ==
    ASSUME RecoveryTypeOK, worker # None, RAdvances
    PROVE  /\ worker' \in Workers \cup {None}
           /\ worker' # None => worker'.n <= Len(Sequence[worker'.op])
           /\ UNCHANGED <<scene, rplans, crashes, after>>
           /\ worker.op \in {"apply", "rollback"} /\ worker.n < 3 => GoesTo(worker.op, worker.n + 1)
           /\ worker.op = "apply" /\ worker.n = 3 => GoesTo("finish", 1)
           /\ worker.op = "finish" /\ worker.n < 8 => GoesTo(worker.op, worker.n + 1)
           /\ worker.op = "finish" /\ worker.n = 8 => worker' = None
           /\ worker.op = "rollback" /\ worker.n = 3 => worker' = None
<1>1. PICK n \in 1..8 : n = worker.n
  BY StepIs
<1>2. PICK op \in {"apply", "finish", "rollback"} : op = worker.op
  BY StepIs
<1>3. PICK k \in RPlans : k = worker.plan /\ k = P
  BY StepIs DEF P
<1>4. PICK last \in {3, 8} : last = Len(Sequence[op]) /\ (op = "finish" <=> last = 8)
  BY SequenceIs
<1>5. worker \in [op : {"apply", "finish", "rollback"}, plan : RPlans, n : 1..8]
      /\ Workers = [op : {"apply", "finish", "rollback"}, plan : RPlans, n : 1..8]
      /\ None \notin Workers
  BY StepIs, SequenceIs, RecoveryAssumption DEF Workers
<1>6. UNCHANGED <<scene, rplans, crashes, after>>
  BY DEF RAdvances
<1>7. n <= last /\ n \in Int /\ last \in Int
  <2>1. worker.n <= Len(Sequence[worker.op])
    BY DEF RecoveryTypeOK
  <2>2. QED
    BY <1>1, <1>2, <1>4, <2>1
<1>8. CASE n < last
  <2>1. PICK m \in 1..8 : m = n + 1
    BY <1>8
  <2>2. worker.n < Len(Sequence[worker.op])
    BY <1>1, <1>2, <1>4, <1>8
  <2>3. worker' = [worker EXCEPT !.n = worker.n + 1]
    BY <2>2, Zenon DEF RAdvances
  <2>4. worker' = [worker EXCEPT !.n = m]
    BY <1>1, <2>1, <2>3
  <2>5. worker' \in Workers /\ worker'.n = m /\ worker'.op = op /\ worker'.plan = k
    BY <1>2, <1>3, <1>5, <2>4
  <2>6. m <= Len(Sequence[worker'.op])
    BY <1>4, <1>8, <2>1, <2>5
  <2>7. GoesTo(op, n + 1)
    BY <1>3, <1>5, <2>1, <2>5 DEF GoesTo
  <2>8. n # last /\ (op = "apply" => n # 3) /\ (op = "finish" => n # 8) /\ (op = "rollback" => n # 3)
    <3>1. CASE op = "finish" /\ last = 8
      BY <1>1, <1>8, <3>1
    <3>2. CASE op # "finish" /\ last = 3
      BY <1>1, <1>8, <3>2
    <3>3. QED
      BY <1>4, <3>1, <3>2
  <2>9. QED
    BY <1>1, <1>2, <1>6, <2>5, <2>6, <2>7, <2>8, Zenon
<1>9. CASE n = last
  <2>1. ~(worker.n < Len(Sequence[worker.op]))
    BY <1>1, <1>2, <1>4, <1>9
  <2>2. (op \in {"apply", "rollback"} => n = 3) /\ (op = "finish" => n = 8) /\ ~(3 < 3) /\ ~(8 < 8)
    BY <1>1, <1>2, <1>4, <1>9
  <2>3. CASE op = "apply"
    <3>1. worker' = [worker EXCEPT !.op = "finish", !.n = 1]
      BY <1>2, <2>1, <2>3, Zenon DEF RAdvances
    <3>2. PICK to \in {"apply", "finish", "rollback"}, m \in 1..8 : to = "finish" /\ m = 1
      OBVIOUS
    <3>3. worker' = [worker EXCEPT !.op = to, !.n = m]
      BY <3>1, <3>2
    <3>4. worker' \in Workers /\ worker'.n = m /\ worker'.op = to /\ worker'.plan = k
      BY <1>3, <1>5, <3>3
    <3>5. worker' # None
      BY <1>5, <3>4
    <3>6. worker'.n <= Len(Sequence[worker'.op])
      <4>1. worker'.n = 1 /\ Len(Sequence[worker'.op]) = 8
        BY <3>2, <3>4, SequenceIs
      <4>2. QED
        BY <4>1
    <3>7. GoesTo("finish", 1)
      BY <1>3, <3>2, <3>4, <3>5 DEF GoesTo
    <3>8. QED
      BY <1>1, <1>2, <1>6, <2>2, <2>3, <3>4, <3>6, <3>7
  <2>4. CASE op # "apply"
    <3>1. worker' = None
      BY <1>2, <2>1, <2>4, Zenon DEF RAdvances
    <3>2. QED
      BY <1>1, <1>2, <1>6, <2>2, <2>4, <3>1
  <2>5. QED
    BY <2>3, <2>4
<1>10. QED
  BY <1>7, <1>8, <1>9


LEMMA NamesAre ==
    ASSUME RecoveryTypeOK
    PROVE  /\ rjournal # None => rjournal \in Journals /\ rjournal.plan \in RPlans
                                 /\ rjournal.phase \in RPhases /\ RPhase = rjournal.phase
           /\ rjournal = None => RPhase = "none"
           /\ root # None => root.plan \in RPlans /\ root.tree \in {"whole", "used"}
           /\ \A k \in RPlans : k \in Nat /\ k # 0
           /\ \A phase \in RPhases, k \in RPlans :
                 LET j == [phase |-> phase, plan |-> k]
                 IN  j \in Journals /\ j # None /\ j.phase = phase /\ j.plan = k
           /\ \A tree \in {"whole", "used"}, k \in RPlans :
                 LET r == [tree |-> tree, plan |-> k]
                 IN  r \in Roots /\ r # None /\ r.tree = tree /\ r.plan = k
  BY RecoveryAssumption DEF RecoveryTypeOK, Journals, Roots, RPhase, RPlans

\* A step that is not of a command leaves what commands rely on.
LEMMA BeginsKeeps ==
    ASSUME RecoveryInv, NEW op \in {"apply", "finish", "rollback"}, NEW k \in RPlans,
           NEW n \in 1..8, RBegins(op, k, n),
           op = "apply" => n = 1 /\ rjournal = None,
           op = "finish" => /\ rjournal # None /\ rjournal.plan = k
                            /\ RPhase \notin {"rolled-back", "verified"}
                            /\ n = IF root = None THEN 1 ELSE 7,
           op = "rollback" => /\ n = 1 /\ rjournal # None /\ rjournal.plan = k
                              /\ RPhase # "rolled-back"
                              /\ root # None => root.tree = "whole"
    PROVE  RecoveryInv'
<1>1. /\ worker = None /\ worker' = [op |-> op, plan |-> k, n |-> n]
      /\ UNCHANGED <<scene, active, root, stages, backups, rjournal, rplans, crashes, after>>
  BY DEF RBegins
<1>2. worker' \in Workers /\ worker'.op = op /\ worker'.plan = k /\ worker'.n = n
  BY <1>1, SequenceIs DEF Workers
<1>3. op \in {"apply", "rollback"} => n = 1
  OBVIOUS
<1>4. n <= Len(Sequence[op])
  <2>1. PICK last \in {3, 8} : last = Len(Sequence[op]) /\ (op = "finish" <=> last = 8)
    BY SequenceIs
  <2>2. n <= last
    <3>1. CASE last = 8
      BY <3>1
    <3>2. CASE last = 3
      <4>1. n = 1
        BY <1>3, <2>1, <3>2
      <4>2. QED
        BY <3>2, <4>1
    <3>3. QED
      BY <3>1, <3>2
  <2>3. QED
    BY <2>1, <2>2
<1>5. RecoveryTypeOK'
  BY <1>1, <1>2, <1>4 DEF RecoveryInv, RecoveryTypeOK
<1>6. (root # None => root.tree # "used") \/ RPhase = "verified"
  BY DEF RecoveryInv, JournalRules
<1>7. JournalRules'
  <2>1. RPhase' = RPhase
    BY <1>1 DEF RPhase
  <2>2. root # None => root.tree # "used"
    BY <1>6, NamesAre DEF RecoveryInv, JournalRules
  <2>3. RPhase # "rolled-back"
    BY NamesAre DEF RecoveryInv
  <2>4. QED
    BY <1>1, <2>1, <2>2, <2>3 DEF RecoveryInv, JournalRules
<1>8. WorkerSound'
  <2>1. RPhase' = RPhase
    BY <1>1 DEF RPhase
  <2>2. CASE op = "apply"
    BY <1>1, <1>2, <2>2 DEF WorkerSound, ApplySound
  <2>3. CASE op = "finish"
    BY <1>1, <1>2, <2>1, <2>3 DEF WorkerSound, FinishSound
  <2>4. CASE op = "rollback"
    BY <1>1, <1>2, <2>4 DEF WorkerSound, RollbackSound
  <2>5. QED
    BY <2>2, <2>3, <2>4
<1>9. QED
  BY <1>5, <1>7, <1>8 DEF RecoveryInv


\* Each name is of one step of one command.
LEMMA PositionIs ==
    ASSUME RecoveryTypeOK, worker # None
    PROVE  LET step == Sequence[worker.op][worker.n] IN
           /\ step = "back up" => worker.op = "apply" /\ worker.n = 1
           /\ step = "back up on" => worker.op = "apply" /\ worker.n = 2
           /\ step = "prepared" => worker.op = "apply" /\ worker.n = 3
           /\ step = "stage" => worker.op = "finish" /\ worker.n = 1
           /\ step = "stage on" => worker.op = "finish" /\ worker.n = 2
           /\ step = "staged" => worker.op = "finish" /\ worker.n = 3
           /\ step = "convert" => worker.op = "finish" /\ worker.n = 4
           /\ step = "config-written" => worker.op = "finish" /\ worker.n = 5
           /\ step = "publish" => worker.op = "finish" /\ worker.n = 6
           /\ step = "root-published" => worker.op = "finish" /\ worker.n = 7
           /\ step = "verified" => worker.op = "finish" /\ worker.n = 8
           /\ step = "withdraw" => worker.op = "rollback" /\ worker.n = 1
           /\ step = "reconvert" => worker.op = "rollback" /\ worker.n = 2
           /\ step = "rolled-back" => worker.op = "rollback" /\ worker.n = 3
  BY StepIs DEF Step, Stands

\* A command writes a tree of its own plan, or nothing of what the others rely on.
LEMMA BackupKeeps == ASSUME RecoveryInv, MakeBackup PROVE RecoveryInv'
<1>1. /\ worker # None /\ RecoveryTypeOK /\ JournalRules /\ WorkerSound
      /\ RAdvances /\ UNCHANGED <<active, root, stages, rjournal>>
  BY DEF RecoveryInv, MakeBackup, WriteTree, RAt
<1>2. P \in RPlans /\ worker.plan = P /\ worker.n \in Int
  BY <1>1, StepIs DEF P
<1>3. \/ worker.op = "apply" /\ worker.n = 1 /\ \/ backups' = backups
                                                 \/ backups' = [backups EXCEPT ![P] = "partial"]
      \/ worker.op = "apply" /\ worker.n = 2 /\ backups' = [backups EXCEPT ![P] = "whole"]
  BY <1>1, PositionIs DEF MakeBackup, WriteTree, RAt
<1>4. rjournal = None
  BY <1>1, <1>3 DEF WorkerSound, ApplySound
<1>5. PICK n \in {2, 3} : n = worker.n + 1 /\ GoesTo("apply", n)
                           /\ (n = 3 => backups' = [backups EXCEPT ![P] = "whole"])
  BY <1>1, <1>3, AdvancesTo
<1>6. backups \in [RPlans -> Trees] /\ backups' \in [RPlans -> Trees]
      /\ (n = 3 => backups'[P] = "whole")
  BY <1>1, <1>2, <1>3, <1>5 DEF RecoveryTypeOK, Trees
<1>7. RecoveryTypeOK'
  BY <1>1, <1>6, AdvancesTo DEF RecoveryTypeOK
<1>8. JournalRules'
  BY <1>1, <1>4 DEF JournalRules, RPhase
<1>9. WorkerSound'
  BY <1>1, <1>2, <1>4, <1>5, <1>6 DEF WorkerSound, ApplySound, GoesTo
<1>10. QED
  BY <1>7, <1>8, <1>9 DEF RecoveryInv

\* What is said of a command that finishes, and where it goes on.
LEMMA FinishAt ==
    ASSUME RecoveryInv, worker # None, worker.op = "finish", RAdvances
    PROVE  /\ FinishSound /\ worker.plan = P /\ P \in RPlans /\ P # 0
           /\ worker.n \in 1..8 /\ rjournal.plan = P /\ rjournal # None
           /\ worker.n < 8 => GoesTo("finish", worker.n + 1)
           /\ worker.n = 8 => worker' = None
  BY StepIs, AdvancesTo, NamesAre DEF RecoveryInv, WorkerSound, FinishSound, P

LEMMA StagingKeeps == ASSUME RecoveryInv, MakeStaging PROVE RecoveryInv'
<1>1. /\ worker # None /\ RecoveryTypeOK /\ JournalRules /\ WorkerSound
      /\ RAdvances /\ UNCHANGED <<active, root, backups, rjournal>>
  BY DEF RecoveryInv, MakeStaging, WriteTree, RAt
<1>2. \/ worker.op = "finish" /\ worker.n = 1 /\ \/ stages' = stages
                                                  \/ stages' = [stages EXCEPT ![P] = "partial"]
      \/ worker.op = "finish" /\ worker.n = 2 /\ stages' = [stages EXCEPT ![P] = "whole"]
  BY <1>1, PositionIs DEF MakeStaging, WriteTree, RAt
<1>3. /\ FinishSound /\ worker.plan = P /\ P \in RPlans /\ rjournal.plan = P
      /\ GoesTo("finish", worker.n + 1)
  BY <1>1, <1>2, FinishAt
<1>4. PICK n \in {2, 3} : n = worker.n + 1 /\ GoesTo("finish", n)
                           /\ (n = 3 => stages' = [stages EXCEPT ![P] = "whole"])
  BY <1>2, <1>3
<1>5. stages' \in [RPlans -> Trees] /\ (n = 3 => stages'[P] = "whole")
  BY <1>1, <1>2, <1>3, <1>4 DEF RecoveryTypeOK, Trees
<1>6. RecoveryTypeOK'
  BY <1>1, <1>5, AdvancesTo DEF RecoveryTypeOK
<1>7. root = None /\ rjournal # None /\ RPhase \notin {"rolled-back", "verified"}
  BY <1>2, <1>3 DEF FinishSound
<1>8. JournalRules'
  BY <1>1, <1>7 DEF JournalRules, RPhase
<1>9. WorkerSound'
  <2>1. worker'.op = "finish" /\ worker'.plan = P /\ worker'.n = n
    BY <1>4 DEF GoesTo
  <2>2. FinishSound'
    BY <1>1, <1>3, <1>4, <1>5, <1>7, <2>1 DEF FinishSound, RPhase
  <2>3. QED
    BY <2>1, <2>2 DEF WorkerSound
<1>10. QED
  BY <1>6, <1>8, <1>9 DEF RecoveryInv

LEMMA ConvertKeeps == ASSUME RecoveryInv, ConvertConfig PROVE RecoveryInv'
<1>1. /\ worker # None /\ RecoveryTypeOK /\ JournalRules /\ WorkerSound
      /\ RAdvances /\ active' = P /\ UNCHANGED <<root, stages, backups, rjournal>>
  BY DEF RecoveryInv, ConvertConfig, RAt
<1>2. worker.op = "finish" /\ worker.n = 4
  BY <1>1, PositionIs DEF ConvertConfig, RAt
<1>3. /\ FinishSound /\ worker.plan = P /\ P \in RPlans /\ rjournal.plan = P
      /\ GoesTo("finish", 5)
  BY <1>1, <1>2, FinishAt
<1>4. /\ root = None /\ rjournal # None /\ RPhase \notin {"rolled-back", "verified"}
      /\ stages[P] = "whole"
  BY <1>2, <1>3 DEF FinishSound
<1>5. RecoveryTypeOK'
  BY <1>1, <1>3, AdvancesTo DEF RecoveryTypeOK
<1>6. JournalRules'
  <2>1. RPhase' = RPhase
    BY <1>1 DEF RPhase
  <2>2. QED
    BY <1>1, <1>3, <1>4, <2>1 DEF JournalRules
<1>7. WorkerSound'
  <2>1. worker'.op = "finish" /\ worker'.plan = P /\ worker'.n = 5
    BY <1>3 DEF GoesTo
  <2>2. FinishSound'
    BY <1>1, <1>3, <1>4, <2>1 DEF FinishSound, RPhase
  <2>3. QED
    BY <2>1, <2>2 DEF WorkerSound
<1>8. QED
  BY <1>5, <1>6, <1>7 DEF RecoveryInv

LEMMA PublishKeeps == ASSUME RecoveryInv, PublishRoot PROVE RecoveryInv'
<1>1. /\ worker # None /\ RecoveryTypeOK /\ JournalRules /\ WorkerSound
      /\ RAdvances /\ root' = [tree |-> stages[P], plan |-> P]
      /\ stages' = [stages EXCEPT ![P] = "absent"] /\ UNCHANGED <<active, backups, rjournal>>
  BY DEF RecoveryInv, PublishRoot, RAt
<1>2. worker.op = "finish" /\ worker.n = 6
  BY <1>1, PositionIs DEF PublishRoot, RAt
<1>3. /\ FinishSound /\ worker.plan = P /\ P \in RPlans /\ rjournal.plan = P
      /\ GoesTo("finish", 7)
  BY <1>1, <1>2, FinishAt
<1>4. /\ root = None /\ rjournal # None /\ RPhase \notin {"rolled-back", "verified"}
      /\ stages[P] = "whole" /\ active = P
  BY <1>2, <1>3 DEF FinishSound
<1>5. root' \in Roots /\ root' # None /\ root'.tree = "whole" /\ root'.plan = P
  <2>1. PICK tree \in {"whole", "used"} : tree = "whole"
    OBVIOUS
  <2>2. root' = [tree |-> tree, plan |-> P]
    BY <1>1, <1>4, <2>1
  <2>3. QED
    BY <1>1, <1>3, <2>1, <2>2, NamesAre
<1>6. RecoveryTypeOK'
  <2>1. stages' \in [RPlans -> Trees]
    BY <1>1 DEF RecoveryTypeOK, Trees
  <2>2. QED
    BY <1>1, <1>5, <2>1, AdvancesTo DEF RecoveryTypeOK
<1>7. JournalRules'
  <2>1. RPhase' = RPhase
    BY <1>1 DEF RPhase
  <2>2. QED
    BY <1>1, <1>3, <1>4, <1>5, <2>1 DEF JournalRules
<1>8. WorkerSound'
  <2>1. worker'.op = "finish" /\ worker'.plan = P /\ worker'.n = 7
    BY <1>3 DEF GoesTo
  <2>2. FinishSound'
    BY <1>1, <1>3, <1>4, <1>5, <2>1 DEF FinishSound, RPhase
  <2>3. QED
    BY <2>1, <2>2 DEF WorkerSound
<1>9. QED
  BY <1>6, <1>7, <1>8 DEF RecoveryInv

\* What is said of a command that rolls back, and where it goes on.
LEMMA RollbackAt ==
    ASSUME RecoveryInv, worker # None, worker.op = "rollback", RAdvances
    PROVE  /\ RollbackSound /\ worker.plan = P /\ P \in RPlans /\ P # 0
           /\ worker.n \in 1..3 /\ rjournal.plan = P /\ rjournal # None
           /\ worker.n < 3 => GoesTo("rollback", worker.n + 1)
           /\ worker.n = 3 => worker' = None
  BY StepIs, AdvancesTo, NamesAre DEF RecoveryInv, WorkerSound, RollbackSound, P

LEMMA WithdrawKeeps == ASSUME RecoveryInv, WithdrawRoot PROVE RecoveryInv'
<1>1. /\ worker # None /\ RecoveryTypeOK /\ JournalRules /\ WorkerSound
      /\ RAdvances /\ root' = None
      /\ stages' = IF root = None THEN stages ELSE [stages EXCEPT ![P] = root.tree]
      /\ UNCHANGED <<active, backups, rjournal>>
  BY DEF RecoveryInv, WithdrawRoot, RAt
<1>2. worker.op = "rollback" /\ worker.n = 1
  BY <1>1, PositionIs DEF WithdrawRoot, RAt
<1>3. /\ RollbackSound /\ worker.plan = P /\ P \in RPlans /\ rjournal.plan = P
      /\ GoesTo("rollback", 2)
  BY <1>1, <1>2, RollbackAt
<1>4. rjournal # None
  BY <1>3 DEF RollbackSound
<1>5. RecoveryTypeOK'
  <2>1. stages' \in [RPlans -> Trees]
    <3>1. CASE root = None
      BY <1>1, <3>1 DEF RecoveryTypeOK
    <3>2. CASE root # None
      <4>1. PICK tree \in Trees : tree = root.tree
        BY <1>1, <3>2, NamesAre DEF Trees
      <4>2. stages' = [stages EXCEPT ![P] = tree]
        BY <1>1, <3>2, <4>1
      <4>3. QED
        BY <1>1, <4>2 DEF RecoveryTypeOK
    <3>3. QED
      BY <3>1, <3>2
  <2>2. QED
    BY <1>1, <2>1, AdvancesTo DEF RecoveryTypeOK
<1>6. JournalRules'
  <2>1. RPhase' = RPhase /\ RPhase # "rolled-back"
    BY <1>1 DEF RPhase, JournalRules
  <2>2. QED
    BY <1>1, <1>3, <1>4, <2>1 DEF JournalRules
<1>7. WorkerSound'
  <2>1. worker'.op = "rollback" /\ worker'.plan = P /\ worker'.n = 2
    BY <1>3 DEF GoesTo
  <2>2. RollbackSound'
    BY <1>1, <1>3, <1>4, <2>1 DEF RollbackSound
  <2>3. QED
    BY <2>1, <2>2 DEF WorkerSound
<1>8. QED
  BY <1>5, <1>6, <1>7 DEF RecoveryInv

LEMMA ReconvertKeeps == ASSUME RecoveryInv, ReconvertConfig PROVE RecoveryInv'
<1>1. /\ worker # None /\ RecoveryTypeOK /\ JournalRules /\ WorkerSound
      /\ RAdvances /\ active' = 0 /\ UNCHANGED <<root, stages, backups, rjournal>>
  BY DEF RecoveryInv, ReconvertConfig, RAt
<1>2. worker.op = "rollback" /\ worker.n = 2
  BY <1>1, PositionIs DEF ReconvertConfig, RAt
<1>3. /\ RollbackSound /\ worker.plan = P /\ P \in RPlans /\ rjournal.plan = P
      /\ GoesTo("rollback", 3)
  BY <1>1, <1>2, RollbackAt
<1>4. rjournal # None /\ root = None
  BY <1>2, <1>3 DEF RollbackSound
<1>5. RecoveryTypeOK'
  BY <1>1, <1>3, AdvancesTo DEF RecoveryTypeOK
<1>6. JournalRules'
  <2>1. RPhase' = RPhase /\ RPhase # "rolled-back"
    BY <1>1 DEF RPhase, JournalRules
  <2>2. QED
    BY <1>1, <1>3, <1>4, <2>1 DEF JournalRules
<1>7. WorkerSound'
  <2>1. worker'.op = "rollback" /\ worker'.plan = P /\ worker'.n = 3
    BY <1>3 DEF GoesTo
  <2>2. RollbackSound'
    BY <1>1, <1>3, <1>4, <2>1 DEF RollbackSound
  <2>3. QED
    BY <2>1, <2>2 DEF WorkerSound
<1>8. QED
  BY <1>5, <1>6, <1>7 DEF RecoveryInv

\* The phases a command records, each at its step.
LEMMA RecordsAt ==
    ASSUME RecoveryInv, Record
    PROVE  \/ worker.op = "apply" /\ worker.n = 3 /\ rjournal' = [phase |-> "prepared", plan |-> P]
           \/ worker.op = "finish" /\ worker.n = 3 /\ rjournal' = [phase |-> "staged", plan |-> P]
           \/ worker.op = "finish" /\ worker.n = 5
              /\ rjournal' = [phase |-> "config-written", plan |-> P]
           \/ worker.op = "finish" /\ worker.n = 7
              /\ rjournal' = [phase |-> "root-published", plan |-> P]
           \/ worker.op = "finish" /\ worker.n = 8 /\ rjournal' = [phase |-> "verified", plan |-> P]
           \/ worker.op = "rollback" /\ worker.n = 3
              /\ rjournal' = [phase |-> "rolled-back", plan |-> P]
<1>1. PICK phase : /\ phase = Sequence[worker.op][worker.n] /\ phase \in RPhases
                   /\ rjournal' = [phase |-> phase, plan |-> P]
  BY DEF Record
<1>2. worker # None /\ RecoveryTypeOK
  BY DEF Record, RecoveryInv
<1>3. phase \in {"prepared", "staged", "config-written", "root-published", "verified", "rolled-back"}
  BY <1>1 DEF RPhases
<1>4. QED
  BY <1>1, <1>2, <1>3, PositionIs

LEMMA RecordKeeps == ASSUME RecoveryInv, Record PROVE RecoveryInv'
<1>1. /\ worker # None /\ RecoveryTypeOK /\ JournalRules /\ WorkerSound
      /\ RAdvances /\ UNCHANGED <<active, root, stages, backups>>
  BY DEF RecoveryInv, Record
<1>2. P \in RPlans /\ P # 0 /\ worker.plan = P
  BY <1>1, StepIs, NamesAre DEF P
<1>3. ASSUME NEW phase \in RPhases, rjournal' = [phase |-> phase, plan |-> P]
      PROVE  /\ rjournal' \in Journals /\ rjournal' # None /\ rjournal'.plan = P
             /\ rjournal'.phase = phase /\ RPhase' = phase /\ RecoveryTypeOK'
  <2>1. /\ rjournal' \in Journals /\ rjournal' # None /\ rjournal'.plan = P
        /\ rjournal'.phase = phase
    BY <1>1, <1>2, <1>3, NamesAre
  <2>2. RPhase' = phase
    BY <2>1 DEF RPhase
  <2>3. RecoveryTypeOK'
    BY <1>1, <2>1, AdvancesTo DEF RecoveryTypeOK
  <2>4. QED
    BY <2>1, <2>2, <2>3
<1>4. CASE worker.op = "apply" /\ worker.n = 3 /\ rjournal' = [phase |-> "prepared", plan |-> P]
  <2>1. /\ rjournal' # None /\ rjournal'.plan = P /\ RPhase' = "prepared" /\ RecoveryTypeOK'
    BY <1>3, <1>4 DEF RPhases
  <2>2. rjournal = None /\ backups[P] = "whole" /\ active = 0 /\ root = None
    BY <1>1, <1>2, <1>4 DEF WorkerSound, ApplySound, JournalRules
  <2>3. worker'.op = "finish" /\ worker'.plan = P /\ worker'.n = 1
    BY <1>1, <1>4, AdvancesTo DEF GoesTo
  <2>4. JournalRules'
    BY <1>1, <2>1, <2>2 DEF JournalRules
  <2>5. FinishSound'
    BY <1>1, <2>1, <2>2, <2>3 DEF FinishSound
  <2>6. QED
    BY <2>1, <2>3, <2>4, <2>5 DEF RecoveryInv, WorkerSound
<1>5. ASSUME worker.op = "finish"
      PROVE  /\ FinishSound /\ rjournal # None /\ rjournal.plan = P
             /\ backups[P] = "whole" /\ active \in {0, P}
             /\ root # None => root.plan = P /\ active = P /\ root.tree # "used"
    BY <1>1, <1>2, <1>5 DEF WorkerSound, FinishSound, JournalRules
<1>6. ASSUME worker.op = "finish", NEW phase \in RPhases \ {"verified", "rolled-back"},
             NEW n \in {3, 5, 7}, worker.n = n, rjournal' = [phase |-> phase, plan |-> P]
      PROVE  RecoveryInv'
  <2>1. /\ rjournal' # None /\ rjournal'.plan = P /\ RPhase' = phase /\ RecoveryTypeOK'
    BY <1>3, <1>6
  <2>2. worker'.op = "finish" /\ worker'.plan = P /\ worker'.n = n + 1
    BY <1>1, <1>6, AdvancesTo DEF GoesTo
  <2>3. JournalRules'
    BY <1>1, <1>5, <1>6, <2>1 DEF JournalRules
  <2>4. /\ n + 1 <= 6 => root = None
        /\ n + 1 \in 3..6 => stages[P] = "whole"
        /\ n + 1 \in 5..6 => active = P
        /\ n + 1 >= 7 => root # None
    BY <1>2, <1>5, <1>6 DEF FinishSound
  <2>5. FinishSound'
    BY <1>1, <1>6, <2>1, <2>2, <2>4 DEF FinishSound
  <2>6. QED
    BY <2>1, <2>2, <2>3, <2>5 DEF RecoveryInv, WorkerSound
<1>7. CASE worker.op = "finish" /\ worker.n = 8 /\ rjournal' = [phase |-> "verified", plan |-> P]
  <2>1. /\ rjournal' # None /\ rjournal'.plan = P /\ RPhase' = "verified" /\ RecoveryTypeOK'
    BY <1>3, <1>7 DEF RPhases
  <2>2. worker' = None
    BY <1>1, <1>7, AdvancesTo
  <2>3. JournalRules'
    BY <1>1, <1>5, <1>7, <2>1, <2>2 DEF JournalRules
  <2>4. QED
    BY <2>1, <2>2, <2>3 DEF RecoveryInv, WorkerSound
<1>8. CASE worker.op = "rollback" /\ worker.n = 3 /\ rjournal' = [phase |-> "rolled-back", plan |-> P]
  <2>1. /\ rjournal' # None /\ rjournal'.plan = P /\ RPhase' = "rolled-back" /\ RecoveryTypeOK'
    BY <1>3, <1>8 DEF RPhases
  <2>2. worker' = None
    BY <1>1, <1>8, AdvancesTo
  <2>3. active = 0 /\ root = None /\ rjournal # None /\ rjournal.plan = P
    BY <1>1, <1>2, <1>8 DEF WorkerSound, RollbackSound
  <2>4. JournalRules'
    BY <1>1, <2>1, <2>2, <2>3 DEF JournalRules
  <2>5. QED
    BY <2>1, <2>2, <2>4 DEF RecoveryInv, WorkerSound
<1>9. "staged" \in RPhases \ {"verified", "rolled-back"}
      /\ "config-written" \in RPhases \ {"verified", "rolled-back"}
      /\ "root-published" \in RPhases \ {"verified", "rolled-back"}
  BY DEF RPhases
<1>10. QED
  BY <1>4, <1>6, <1>7, <1>8, <1>9, RecordsAt

\* A death leaves something in a tree that is being written, and nowhere else.
LEMMA GivingUpKeeps == ASSUME RecoveryInv, Throws \/ Dies PROVE RecoveryInv'
<1>1. /\ worker' = None /\ crashes' \in 0..MaxCrashes
      /\ UNCHANGED <<scene, active, root, rjournal, rplans, after>>
      /\ worker # None /\ worker \in Workers
  <2>1. crashes \in 0..MaxCrashes /\ worker \in Workers \cup {None}
    BY DEF RecoveryInv, RecoveryTypeOK
  <2>2. crashes < MaxCrashes => crashes + 1 \in 0..MaxCrashes
    BY <2>1, RecoveryAssumption
  <2>3. QED
    BY <2>1, <2>2 DEF Throws, Dies
<1>2. PICK k \in RPlans : k = P
  BY <1>1 DEF Workers, P
<1>3. /\ backups' = backups \/ (backups[k] = "partial" /\ backups' = [backups EXCEPT ![k] = "littered"])
      /\ stages' = stages \/ (stages[k] = "partial" /\ stages' = [stages EXCEPT ![k] = "littered"])
  BY <1>2 DEF Throws, Dies, Leaves
<1>4. /\ stages \in [RPlans -> Trees] /\ backups \in [RPlans -> Trees]
      /\ rjournal \in Journals \cup {None}
  BY DEF RecoveryInv, RecoveryTypeOK
<1>5. /\ stages' \in [RPlans -> Trees] /\ backups' \in [RPlans -> Trees]
      /\ \A j \in RPlans : backups[j] = "whole" => backups'[j] = "whole"
      /\ \A j \in RPlans : stages[j] = "whole" => stages'[j] = "whole"
      /\ \A j \in RPlans : stages[j] = "absent" => stages'[j] = "absent"
  BY <1>3, <1>4 DEF Trees
<1>6. rjournal # None => rjournal.plan \in RPlans
  BY <1>4 DEF Journals
<1>7. RecoveryTypeOK'
  BY <1>1, <1>5 DEF RecoveryInv, RecoveryTypeOK
<1>8. JournalRules'
  BY <1>1, <1>5, <1>6 DEF RecoveryInv, JournalRules, RPhase
<1>9. QED
  BY <1>1, <1>7, <1>8 DEF RecoveryInv, WorkerSound

LEMMA WorkingKeeps == ASSUME RecoveryInv, Works PROVE RecoveryInv'
<1>1. /\ worker = None /\ RPhase = "verified" /\ root # None
      /\ root.plan = rjournal.plan /\ active = rjournal.plan
      /\ root' = [root EXCEPT !.tree = "used"]
      /\ UNCHANGED <<scene, active, stages, backups, rjournal, rplans, worker, crashes, after>>
  BY DEF Works, Authority
<1>2. PICK tree \in {"whole", "used"} : tree = "used"
  OBVIOUS
<1>3. root \in Roots
  BY <1>1 DEF RecoveryInv, RecoveryTypeOK
<1>4. root' = [root EXCEPT !.tree = tree]
  BY <1>1, <1>2
<1>5. root' \in Roots /\ root'.plan = root.plan
  BY <1>3, <1>4 DEF Roots
<1>6. root' # None
  BY <1>5, RecoveryAssumption
<1>7. RecoveryTypeOK'
  BY <1>1, <1>5 DEF RecoveryInv, RecoveryTypeOK
<1>8. JournalRules'
  <2>1. RPhase' = RPhase /\ rjournal # None
    BY <1>1 DEF RPhase
  <2>2. QED
    BY <1>1, <1>5, <1>6, <2>1 DEF RecoveryInv, JournalRules
<1>9. QED
  BY <1>1, <1>7, <1>8 DEF RecoveryInv, WorkerSound

\* What no command relies on: the scene, and the plans.
LEMMA SceneKeeps ==
    ASSUME RecoveryInv, SceneChanges \/ \E k \in RPlans : PreviewRecovery(k)
    PROVE  RecoveryInv'
<1>1. UNCHANGED <<active, root, stages, backups, rjournal, worker, crashes>>
  BY DEF SceneChanges, PreviewRecovery
<1>2. RecoveryTypeOK'
  <2>1. CASE SceneChanges
    BY <2>1, RecoveryAssumption DEF RecoveryInv, RecoveryTypeOK, SceneChanges
  <2>2. ASSUME NEW k \in RPlans, PreviewRecovery(k) PROVE RecoveryTypeOK'
    <3>1. /\ rplans' = [rplans EXCEPT ![k] = scene] /\ scene' = scene
          /\ after' = after \/ after' = after \cup {k}
      BY <2>2 DEF PreviewRecovery
    <3>2. rplans' \in [RPlans -> 0..MaxScene] /\ after' \subseteq RPlans
      BY <3>1, RecoveryAssumption DEF RecoveryInv, RecoveryTypeOK
    <3>3. QED
      BY <1>1, <3>1, <3>2 DEF RecoveryInv, RecoveryTypeOK
  <2>3. QED
    BY <2>1, <2>2
<1>3. JournalRules'
  BY <1>1 DEF RecoveryInv, JournalRules, RPhase
<1>4. WorkerSound'
  <2>1. CASE worker = None
    BY <1>1, <2>1 DEF WorkerSound
  <2>2. CASE worker # None
    BY <1>1, <2>2 DEF RecoveryInv, WorkerSound, ApplySound, FinishSound, RollbackSound, RPhase
  <2>3. QED
    BY <2>1, <2>2
<1>5. QED
  BY <1>2, <1>3, <1>4 DEF RecoveryInv

\* What the commands begin with is what BeginsKeeps asks for.
LEMMA BeginningsKeep ==
    ASSUME RecoveryInv,
           \/ \E k \in RPlans : ApplyRecovery(k)
           \/ ResumeRecovery \/ RollbackRecovery
    PROVE  RecoveryInv'
<1>1. RecoveryTypeOK
  BY DEF RecoveryInv
<1>2. ASSUME NEW k \in RPlans, ApplyRecovery(k) PROVE RecoveryInv'
  <2>1. RBegins("apply", k, 1) /\ rjournal = None
    BY <1>2 DEF ApplyRecovery
  <2>2. QED
    BY <2>1, BeginsKeeps
<1>3. CASE ResumeRecovery
  <2>1. PICK n \in 1..8 : n = IF root = None THEN 1 ELSE 7
    OBVIOUS
  <2>2. /\ RBegins("finish", rjournal.plan, n) /\ rjournal # None
        /\ RPhase \notin {"rolled-back", "verified"}
    BY <1>3, <2>1 DEF ResumeRecovery
  <2>3. PICK k \in RPlans : k = rjournal.plan
    BY <1>1, <2>2, NamesAre
  <2>4. RBegins("finish", k, n)
    BY <2>2, <2>3
  <2>5. QED
    BY <2>1, <2>2, <2>3, <2>4, BeginsKeeps
<1>4. CASE RollbackRecovery
  <2>1. /\ RBegins("rollback", rjournal.plan, 1) /\ rjournal # None
        /\ RPhase # "rolled-back" /\ (root # None => root.tree = "whole")
    BY <1>4 DEF RollbackRecovery
  <2>2. PICK k \in RPlans : k = rjournal.plan
    BY <1>1, <2>1, NamesAre
  <2>3. RBegins("rollback", k, 1)
    BY <2>1, <2>2
  <2>4. QED
    BY <2>1, <2>2, <2>3, BeginsKeeps
<1>5. QED
  BY <1>2, <1>3, <1>4

LEMMA RecoveryStarts == RecoveryInit => RecoveryInv
<1>1. ASSUME RecoveryInit PROVE RecoveryInv
  <2>1. /\ scene = 1 /\ active = 0 /\ root = None /\ rjournal = None /\ worker = None
        /\ stages = [k \in RPlans |-> "absent"] /\ backups = [k \in RPlans |-> "absent"]
        /\ rplans = [k \in RPlans |-> 0] /\ crashes = 0 /\ after = {}
    BY <1>1 DEF RecoveryInit
  <2>2. RecoveryTypeOK
    BY <2>1, RecoveryAssumption DEF RecoveryTypeOK, Trees
  <2>3. JournalRules
    BY <2>1 DEF JournalRules, RPhase
  <2>4. QED
    BY <2>1, <2>2, <2>3 DEF RecoveryInv, WorkerSound
<1>2. QED
  BY <1>1

LEMMA RecoveryKeeps == RecoveryInv /\ [RecoveryNext]_rvars => RecoveryInv'
<1>1. ASSUME RecoveryInv, UNCHANGED rvars PROVE RecoveryInv'
  <2>1. UNCHANGED <<scene, active, root, stages, backups, rjournal, rplans, worker, crashes, after>>
    BY <1>1 DEF rvars
  <2>2. RecoveryTypeOK' /\ JournalRules'
    BY <1>1, <2>1 DEF RecoveryInv, RecoveryTypeOK, JournalRules, RPhase
  <2>3. WorkerSound'
    BY <1>1, <2>1 DEF RecoveryInv, WorkerSound, ApplySound, FinishSound, RollbackSound, RPhase
  <2>4. QED
    BY <2>2, <2>3 DEF RecoveryInv
<1>2. ASSUME RecoveryInv, RecoveryNext PROVE RecoveryInv'
  <2>1. CASE WorkerStep
    BY <1>2, <2>1, BackupKeeps, StagingKeeps, ConvertKeeps, PublishKeeps, WithdrawKeeps,
       ReconvertKeeps, RecordKeeps DEF WorkerStep
  <2>2. QED
    BY <1>2, <2>1, WorkingKeeps, SceneKeeps, BeginningsKeep, GivingUpKeeps DEF RecoveryNext
<1>3. QED
  BY <1>1, <1>2

\* What a command may rely on, wherever the one before it was stopped: there is a journal
\* before anything is converted, it names the plan that configuration and root are of, and
\* the tree that is published is a whole one (apply, resume and rollback of
\* recovery-upgrade.ts).
THEOREM RecoveryInvariant == RecoverySpec => []RecoveryInv
<1>1. QED
  BY RecoveryStarts, RecoveryKeeps, PTL DEF RecoverySpec

\* Wherever the recovery upgrade stops, it has backed up before it converted, and root,
\* configuration and journal belong to each other.
THEOREM RecoveryAlwaysSafe == RecoverySpec => []RecoveryIsSafe
<1>1. RecoveryInv => RecoveryIsSafe
  BY DEF RecoveryInv, JournalRules, RecoveryIsSafe, BackedUpFirst, RollbackIsClean, RootHasItsConfig
<1>2. QED
  BY <1>1, RecoveryInvariant, PTL

\* A command never reaches a root that a runtime has worked under: it stays as it is, and
\* so does the configuration.
LEMMA UsedStays ==
    ASSUME RecoveryInv, [RecoveryNext]_rvars, root # None, root.tree = "used"
    PROVE  root' = root /\ active' = active
<1>1. RPhase = "verified" /\ worker = None /\ root \in Roots
  BY DEF RecoveryInv, JournalRules, RecoveryTypeOK
<1>2. CASE Works
  <2>1. root' = [root EXCEPT !.tree = root.tree] /\ active' = active
    BY <1>2 DEF Works
  <2>2. root' = root
    BY <1>1, <2>1 DEF Roots
  <2>3. QED
    BY <2>1, <2>2
<1>3. CASE SceneChanges \/ (\E k \in RPlans : PreviewRecovery(k) \/ ApplyRecovery(k))
           \/ ResumeRecovery \/ RollbackRecovery
  BY <1>3 DEF SceneChanges, PreviewRecovery, ApplyRecovery, ResumeRecovery, RollbackRecovery, RBegins
<1>4. ~WorkerStep /\ ~Throws /\ ~Dies
  BY <1>1 DEF WorkerStep, MakeBackup, MakeStaging, ConvertConfig, PublishRoot, WithdrawRoot,
              ReconvertConfig, Record, Throws, Dies, WriteTree, RAt
<1>5. CASE UNCHANGED rvars
  BY <1>5 DEF rvars
<1>6. QED
  BY <1>2, <1>3, <1>4, <1>5 DEF RecoveryNext

\* Work that a runtime has done under the new root is never withdrawn, nor is the old
\* configuration put back over it.
THEOREM NoDowngradeEver == RecoverySpec => NoDowngradeAfterUse
<1>1. RecoveryInv /\ [RecoveryNext]_rvars =>
          [root # None /\ root.tree = "used" => root' = root /\ active' = active]_rvars
  BY UsedStays
<1>2. QED
  BY <1>1, RecoveryInvariant, PTL DEF RecoverySpec, NoDowngradeAfterUse

-----------------------------------------------------------------------------
(***************************************************************************)
(* V02Upgrade, for any number of plans, contents and mishaps.  The         *)
(* argument: plans are made in their order, each on the journal of an      *)
(* earlier one, so that an apply finds no trace of itself; what a command  *)
(* has behind it is on the disk; and a runtime writes the new generation   *)
(* only once its plan is verified, which no resumption comes after.        *)
(***************************************************************************)

\* The plan of the journal, 0 before there is one.
Current == IF journal = None THEN 0 ELSE journal.plan

\* Nothing on the disk is of the plan.
Fresh(k) ==
    /\ disk.configBackup[k] = None /\ disk.stateBackup[k] = None
    /\ disk.stagedState[k] = None /\ written.new[k] = 0

PlansSound ==
    /\ \A k \in Plans : plans[k] # None =>
          /\ \A j \in Plans : j < k => plans[j] # None
          /\ plans[k].prior # None => plans[k].prior.plan < k
    /\ journal # None => plans[journal.plan] # None
    /\ \A k \in Plans : k > Current => Fresh(k)

LayoutSound ==
    /\ \A k \in Plans : disk.stagedState[k] \in News(k) \cup {Bare, None}
    /\ Marked => journal # None /\ disk.state \in News(journal.plan)
    /\ Open => disk.config \in Contents
    /\ Phase = "verified" /\ Marked => disk.config = Target(journal.plan)
    /\ \A k \in Plans : written.new[k] > 0 /\ k = Current => Phase \in {"verified", "rolled_back"}

\* Where a command is, and what it has behind it.
Place(op, n) == upgrader.op = op /\ upgrader.n = n
PastBackup == (upgrader.op = "apply" /\ upgrader.n >= 3) \/ (upgrader.op = "resume" /\ upgrader.n >= 2)
PastMark == (upgrader.op = "apply" /\ upgrader.n >= 7) \/ (upgrader.op = "resume" /\ upgrader.n >= 6)
Checked == Place("apply", 13) \/ Place("resume", 11)

PositionSound ==
    /\ PastBackup => disk.configBackup[K] = The.config
    /\ PastMark => disk.stagedState[K] # Bare
    /\ upgrader.op = "apply" /\ upgrader.n <= 9 => disk.stateBackup[K] = None
    /\ Checked => disk.config = Target(K) /\ IsNew
    /\ upgrader.op = "rollback" /\ upgrader.n >= 2 => ~Marked
    /\ upgrader.op = "rollback" /\ upgrader.n = 4 => disk.config \in Contents

AtFirst == Open /\ K > Current /\ disk.config = The.config /\ disk.state = The.state

CommandSound ==
    /\ plans[K] # None
    /\ Place("apply", 1) => AtFirst
    /\ ~Place("apply", 1) => journal # None /\ journal.plan = K
    /\ upgrader.op # "rollback" /\ ~Place("apply", 1) => ~Open /\ Phase # "verified"

UpgraderSound == upgrader # None => CommandSound /\ PositionSound

UpgradeInv ==
    /\ UpgradeTypeOK /\ PlansSound /\ LayoutSound /\ UpgraderSound
    /\ NoStateLost /\ ConfigRecoverable

\* Contents of different generations, and of different plans, are different.
LEMMA ValuesAre ==
    /\ \A k \in Plans : k \in Nat /\ k > 0
    /\ \A v \in Versions : v \in Nat /\ Legacy(v) \in Contents /\ Legacy(v)[2] = v
    /\ \A c \in Contents : c \notin AllNews /\ c # None /\ c[2] \in Versions /\ c = Legacy(c[2])
    /\ \A k \in Plans : Target(k) \in Targets /\ Target(k) \notin Contents
    /\ \A k \in Plans : News(k) \subseteq AllNews
    /\ \A k \in Plans, v \in Versions : New(k, v) \in News(k)
    /\ \A x \in AllNews : x # None /\ x # Bare /\ x \notin Contents
                          /\ x[2] \in Plans /\ x[3] \in Versions /\ x = New(x[2], x[3])
    /\ \A k \in Plans : \A x \in News(k) : x[2] = k
<1>1. \A k \in Plans : k \in Nat /\ k > 0
  BY UpgradeAssumption DEF Plans
<1>2. \A v \in Versions : v \in Nat /\ Legacy(v) \in Contents /\ Legacy(v)[2] = v
  <2>1. \A v \in Versions : v \in Nat
    BY UpgradeAssumption DEF Versions
  <2>2. \A v \in Versions : Legacy(v) \in Contents
    BY Zenon DEF Contents
  <2>3. \A v : Legacy(v)[2] = v
    BY DEF Legacy
  <2>4. QED
    BY <2>1, <2>2, <2>3
<1>3. \A c \in Contents : c[1] = "legacy" /\ c[2] \in Versions /\ c = Legacy(c[2])
  BY DEF Contents, Legacy
<1>4. \A k \in Plans : \A x \in News(k) : x[1] = "new" /\ x[2] = k /\ x[3] \in Versions /\ x = New(x[2], x[3])
  BY DEF News, New
<1>5. \A x \in AllNews : x[1] = "new" /\ x[2] \in Plans /\ x[3] \in Versions /\ x = New(x[2], x[3])
  BY <1>4 DEF AllNews
<1>6. Bare[1] = "bare"
  BY DEF Bare
<1>7. \A k \in Plans : Target(k) \in Targets /\ Target(k)[1] = "target"
  BY DEF Targets, Target
<1>8. \A k \in Plans : News(k) \subseteq AllNews
  BY DEF AllNews
<1>9. \A k \in Plans, v \in Versions : New(k, v) \in News(k)
  BY DEF News
<1>10. \A c \in Contents : c \notin AllNews /\ c # None
  BY <1>3, <1>5, UpgradeAssumption
<1>11. \A k \in Plans : Target(k) \notin Contents
  BY <1>3, <1>7
<1>12. \A x \in AllNews : x # None /\ x # Bare /\ x \notin Contents
  BY <1>5, <1>6, <1>10, UpgradeAssumption
<1>13. QED
  BY <1>1, <1>2, <1>3, <1>4, <1>5, <1>7, <1>8, <1>9, <1>10, <1>11, <1>12

LEMMA PathIs ==
    /\ DOMAIN Path = {"apply", "resume", "rollback"}
    /\ Len(Path["apply"]) = 13 /\ Len(Path["resume"]) = 11 /\ Len(Path["rollback"]) = 4
    /\ Path["apply"][1] = "preparing" /\ Path["apply"][2] = "back up"
    /\ Path["apply"][3] = "identify" /\ Path["apply"][4] = "stage config"
    /\ Path["apply"][5] = "make" /\ Path["apply"][6] = "mark" /\ Path["apply"][7] = "prepared"
    /\ Path["apply"][8] = "cutting-over" /\ Path["apply"][9] = "move"
    /\ Path["apply"][10] = "activate" /\ Path["apply"][11] = "configure"
    /\ Path["apply"][12] = "check" /\ Path["apply"][13] = "verified"
    /\ Path["resume"][1] = "back up" /\ Path["resume"][2] = "identify"
    /\ Path["resume"][3] = "stage config" /\ Path["resume"][4] = "make"
    /\ Path["resume"][5] = "mark" /\ Path["resume"][6] = "prepared"
    /\ Path["resume"][7] = "move" /\ Path["resume"][8] = "activate"
    /\ Path["resume"][9] = "configure" /\ Path["resume"][10] = "check"
    /\ Path["resume"][11] = "verified"
    /\ Path["rollback"][1] = "quarantine" /\ Path["rollback"][2] = "restore"
    /\ Path["rollback"][3] = "restore config" /\ Path["rollback"][4] = "rolled_back"
  BY DEF Path

Standing(op, n, s) == Place(op, n) /\ Path[upgrader.op][upgrader.n] = s

OnPath ==
    \/ Standing("apply", 1, "preparing") \/ Standing("apply", 2, "back up")
    \/ Standing("apply", 3, "identify") \/ Standing("apply", 4, "stage config")
    \/ Standing("apply", 5, "make") \/ Standing("apply", 6, "mark")
    \/ Standing("apply", 7, "prepared") \/ Standing("apply", 8, "cutting-over")
    \/ Standing("apply", 9, "move") \/ Standing("apply", 10, "activate")
    \/ Standing("apply", 11, "configure") \/ Standing("apply", 12, "check")
    \/ Standing("apply", 13, "verified")
    \/ Standing("resume", 1, "back up") \/ Standing("resume", 2, "identify")
    \/ Standing("resume", 3, "stage config") \/ Standing("resume", 4, "make")
    \/ Standing("resume", 5, "mark") \/ Standing("resume", 6, "prepared")
    \/ Standing("resume", 7, "move") \/ Standing("resume", 8, "activate")
    \/ Standing("resume", 9, "configure") \/ Standing("resume", 10, "check")
    \/ Standing("resume", 11, "verified")
    \/ Standing("rollback", 1, "quarantine") \/ Standing("rollback", 2, "restore")
    \/ Standing("rollback", 3, "restore config") \/ Standing("rollback", 4, "rolled_back")

LEMMA PathStep ==
    ASSUME UpgradeTypeOK, upgrader # None
    PROVE  /\ OnPath /\ upgrader \in Commands /\ K \in Plans /\ upgrader.plan \in Plans
           /\ upgrader.n \in 1..13 /\ upgrader.op \in {"apply", "resume", "rollback"}
<1>1. /\ upgrader \in Commands /\ upgrader.op \in {"apply", "resume", "rollback"}
      /\ upgrader.n \in 1..13 /\ upgrader.plan \in Plans
      /\ upgrader.n <= Len(Path[upgrader.op])
  BY PathIs DEF UpgradeTypeOK, Commands
<1>2. PICK n \in 1..13 : n = upgrader.n
  BY <1>1
<1>3. PICK op \in {"apply", "resume", "rollback"} : op = upgrader.op
  BY <1>1
<1>4. n <= Len(Path[op])
  BY <1>1, <1>2, <1>3
<1>5. \/ n = 1 \/ n = 2 \/ n = 3 \/ n = 4 \/ n = 5 \/ n = 6 \/ n = 7 \/ n = 8
      \/ n = 9 \/ n = 10 \/ n = 11 \/ n = 12 \/ n = 13
  OBVIOUS
<1>6. CASE op = "apply"
  <2>1. CASE n = 1 \/ n = 2 \/ n = 3 \/ n = 4 \/ n = 5 \/ n = 6
    BY <1>1, <1>2, <1>3, <1>6, <2>1, PathIs DEF OnPath, Standing, Place, K
  <2>2. CASE n = 7 \/ n = 8 \/ n = 9 \/ n = 10 \/ n = 11 \/ n = 12 \/ n = 13
    BY <1>1, <1>2, <1>3, <1>6, <2>2, PathIs DEF OnPath, Standing, Place, K
  <2>3. QED
    BY <1>5, <2>1, <2>2
<1>7. CASE op = "resume"
  <2>1. n <= 11
    BY <1>4, <1>7, PathIs
  <2>2. \/ n = 1 \/ n = 2 \/ n = 3 \/ n = 4 \/ n = 5 \/ n = 6 \/ n = 7 \/ n = 8
        \/ n = 9 \/ n = 10 \/ n = 11
    BY <2>1
  <2>3. CASE n = 1 \/ n = 2 \/ n = 3 \/ n = 4 \/ n = 5
    BY <1>1, <1>2, <1>3, <1>7, <2>3, PathIs DEF OnPath, Standing, Place, K
  <2>4. CASE n = 6 \/ n = 7 \/ n = 8 \/ n = 9 \/ n = 10 \/ n = 11
    BY <1>1, <1>2, <1>3, <1>7, <2>4, PathIs DEF OnPath, Standing, Place, K
  <2>5. QED
    BY <2>2, <2>3, <2>4
<1>8. CASE op = "rollback"
  <2>1. n <= 4
    BY <1>4, <1>8, PathIs
  <2>2. n = 1 \/ n = 2 \/ n = 3 \/ n = 4
    BY <2>1
  <2>3. QED
    BY <1>1, <1>2, <1>3, <1>8, <2>2, PathIs DEF OnPath, Standing, Place, K
<1>9. QED
  BY <1>6, <1>7, <1>8

\* Each name is of one step of each path.
LEMMA PlaceIs ==
    ASSUME UpgradeTypeOK, upgrader # None
    PROVE  LET s == Path[upgrader.op][upgrader.n] IN
           /\ s = "preparing" => Place("apply", 1)
           /\ s = "back up" => Place("apply", 2) \/ Place("resume", 1)
           /\ s = "identify" => Place("apply", 3) \/ Place("resume", 2)
           /\ s = "stage config" => Place("apply", 4) \/ Place("resume", 3)
           /\ s = "make" => Place("apply", 5) \/ Place("resume", 4)
           /\ s = "mark" => Place("apply", 6) \/ Place("resume", 5)
           /\ s = "prepared" => Place("apply", 7) \/ Place("resume", 6)
           /\ s = "cutting-over" => Place("apply", 8)
           /\ s = "move" => Place("apply", 9) \/ Place("resume", 7)
           /\ s = "activate" => Place("apply", 10) \/ Place("resume", 8)
           /\ s = "configure" => Place("apply", 11) \/ Place("resume", 9)
           /\ s = "check" => Place("apply", 12) \/ Place("resume", 10)
           /\ s = "verified" => Place("apply", 13) \/ Place("resume", 11)
           /\ s = "quarantine" => Place("rollback", 1)
           /\ s = "restore" => Place("rollback", 2)
           /\ s = "restore config" => Place("rollback", 3)
           /\ s = "rolled_back" => Place("rollback", 4)
           /\ s # "failed"
  BY PathStep DEF OnPath, Standing

\* A command goes on to its next step, or ends.
LEMMA GoesOn ==
    ASSUME UpgradeTypeOK, upgrader # None, Advances
    PROVE  /\ upgrader' \in Commands \cup {None}
           /\ upgrader' # None => /\ upgrader'.n <= Len(Path[upgrader'.op])
                                  /\ upgrader'.op = upgrader.op
                                  /\ upgrader'.plan = upgrader.plan
                                  /\ upgrader'.n = upgrader.n + 1
           /\ UNCHANGED <<plans, mishaps, written>>
<1>1. PICK n \in 1..13 : n = upgrader.n
  BY PathStep
<1>2. PICK op \in {"apply", "resume", "rollback"} : op = upgrader.op
  BY PathStep
<1>3. PICK last \in {13, 11, 4} : last = Len(Path[op])
  BY PathIs
<1>4. /\ upgrader \in [op : {"apply", "resume", "rollback"}, plan : Plans, n : 1..13]
      /\ Commands = [op : {"apply", "resume", "rollback"}, plan : Plans, n : 1..13]
  BY PathStep, PathIs DEF Commands
<1>5. n <= last
  <2>1. upgrader.n <= Len(Path[upgrader.op])
    BY DEF UpgradeTypeOK
  <2>2. QED
    BY <1>1, <1>2, <1>3, <2>1
<1>6. UNCHANGED <<plans, mishaps, written>>
  BY DEF Advances
<1>7. CASE n = last
  <2>1. upgrader.n = Len(Path[upgrader.op])
    BY <1>1, <1>2, <1>3, <1>7
  <2>2. upgrader' = None
    BY <2>1 DEF Advances
  <2>3. QED
    BY <1>6, <2>2
<1>8. CASE n # last
  <2>1. PICK m \in 1..13 : m = n + 1 /\ m <= last
    BY <1>5, <1>8
  <2>2. upgrader.n # Len(Path[upgrader.op])
    BY <1>1, <1>2, <1>3, <1>8
  <2>3. upgrader' = [upgrader EXCEPT !.n = upgrader.n + 1]
    BY <2>2 DEF Advances
  <2>4. upgrader' = [upgrader EXCEPT !.n = m]
    BY <1>1, <2>1, <2>3
  <2>5. /\ upgrader' \in Commands /\ upgrader'.op = op /\ upgrader'.n = m
        /\ upgrader'.plan = upgrader.plan
    BY <1>2, <1>4, <2>4
  <2>6. upgrader'.n <= Len(Path[upgrader'.op])
    BY <1>3, <2>1, <2>5
  <2>7. QED
    BY <1>1, <1>2, <1>6, <2>1, <2>5, <2>6
<1>9. QED
  BY <1>7, <1>8


\* What a plan has observed.
LEMMA PlanIs ==
    ASSUME UpgradeTypeOK, NEW k \in Plans, plans[k] # None
    PROVE  /\ plans[k] \in Observations /\ plans[k].config \in Contents
           /\ plans[k].state \in Contents \cup {None}
           /\ plans[k].state \notin AllNews
           /\ plans[k].id \in 1..(MaxPlans + 1)
           /\ plans[k].prior = None \/ /\ plans[k].prior.plan \in Plans
                                       /\ plans[k].prior.phase = "rolled_back"
  BY ValuesAre DEF UpgradeTypeOK, Observations

\* What the journal says.
LEMMA JournalIs ==
    ASSUME UpgradeTypeOK
    PROVE  /\ journal # None => /\ journal \in Entries /\ journal.plan \in Plans
                                /\ journal.phase \in Phases /\ Phase = journal.phase
                                /\ Current = journal.plan
           /\ journal = None => Phase = "none" /\ Current = 0
           /\ Open <=> Phase \in {"none", "rolled_back"}
           /\ Current \in Nat
           /\ \A phase \in Phases, k \in Plans :
                 LET e == [phase |-> phase, plan |-> k]
                 IN  e \in Entries /\ e # None /\ e.phase = phase /\ e.plan = k
  BY ValuesAre, UpgradeAssumption DEF UpgradeTypeOK, Entries, Phase, Open, Current

\* The new generation that a runtime has written under another plan is in quarantine.
LEMMA OthersQuarantined ==
    ASSUME UpgradeTypeOK, LayoutSound, NoStateLost, NEW k \in Plans, k # Current, written.new[k] > 0
    PROVE  disk.stagedState[k] = New(k, written.new[k])
<1>1. written.new[k] \in Versions
  BY UpgradeAssumption DEF UpgradeTypeOK, Versions
<1>2. New(k, written.new[k]) \in {disk.state, disk.stagedState[k]}
  BY DEF NoStateLost
<1>3. disk.state # New(k, written.new[k])
  <2>1. CASE Marked
    BY <1>1, <2>1, ValuesAre, JournalIs DEF LayoutSound
  <2>2. CASE ~Marked
    BY <1>1, <2>2, ValuesAre DEF Marked
  <2>3. QED
    BY <2>1, <2>2
<1>4. QED
  BY <1>2, <1>3

\* A command changes the disk: what is to be shown of its step.
LEMMA StepKeeps ==
    ASSUME UpgradeInv, upgrader # None, ~Place("apply", 1), Advances, journal' = journal,
           disk' \in Layouts,
           \A k \in Plans \ {K} : /\ disk'.configBackup[k] = disk.configBackup[k]
                                  /\ disk'.stateBackup[k] = disk.stateBackup[k]
                                  /\ disk'.stagedState[k] = disk.stagedState[k],
           disk'.stagedState[K] \in News(K) \cup {Bare, None},
           disk'.state \in Contents \cup {None} \cup News(K),
           \/ disk'.config = disk.config
           \/ upgrader.op # "rollback" /\ disk'.config = Target(K)
           \/ upgrader.op = "rollback" /\ ~Marked' /\ disk'.config = The.config,
           Open \/ The.config \in {disk'.config, disk'.configBackup[K]},
           Marked' => Marked \/ upgrader.op # "rollback",
           written.legacy > 0 =>
              \/ disk'.state = Legacy(written.legacy)
              \/ \E k \in Plans : disk'.stateBackup[k] = Legacy(written.legacy),
           written.new[K] > 0 => New(K, written.new[K]) \in {disk'.state, disk'.stagedState[K]},
           upgrader' # None => PositionSound'
    PROVE  UpgradeInv'
<1>1. /\ UpgradeTypeOK /\ PlansSound /\ LayoutSound /\ NoStateLost /\ ConfigRecoverable
      /\ CommandSound /\ K \in Plans
  BY PathStep DEF UpgradeInv, UpgraderSound
<1>2. /\ UNCHANGED <<plans, mishaps, written, journal>>
      /\ upgrader' \in Commands \cup {None}
  BY <1>1, GoesOn
<1>3. /\ journal # None /\ journal.plan = K /\ Current = K /\ Current' = K
      /\ plans[K] # None /\ Phase' = Phase /\ (Open' <=> Open)
  BY <1>1, <1>2, JournalIs DEF CommandSound, Phase, Open, Current
<1>4. UpgradeTypeOK'
  BY <1>1, <1>2, GoesOn DEF UpgradeTypeOK
<1>5. PlansSound'
  <2>1. \A k \in Plans : k > K => Fresh(k)'
    <3>1. TAKE k \in Plans
    <3>2. HAVE k > K
    <3>3. Fresh(k) /\ k # K
      BY <1>1, <1>3, <3>2, ValuesAre DEF PlansSound
    <3>4. QED
      BY <1>2, <3>3 DEF Fresh
  <2>2. QED
    BY <1>1, <1>2, <1>3, <2>1 DEF PlansSound
<1>6. The \in Observations /\ The.config \in Contents /\ The = plans[K]
  BY <1>1, <1>3, PlanIs DEF The, K
<1>7. Marked' => disk'.state \in News(K)
  BY ValuesAre DEF Marked
<1>8. LayoutSound'
  <2>1. \A k \in Plans : disk'.stagedState[k] \in News(k) \cup {Bare, None}
    BY <1>1 DEF LayoutSound
  <2>2. Open => disk'.config \in Contents
    <3>1. Open => upgrader.op = "rollback"
      BY <1>1 DEF CommandSound
    <3>2. Open => disk.config \in Contents
      BY <1>1 DEF LayoutSound
    <3>3. QED
      BY <1>6, <3>1, <3>2
  <2>3. Phase = "verified" /\ Marked' => disk'.config = Target(K)
    <3>1. Phase = "verified" => upgrader.op = "rollback"
      BY <1>1 DEF CommandSound
    <3>2. Phase = "verified" /\ Marked => disk.config = Target(K)
      BY <1>1, <1>3 DEF LayoutSound
    <3>3. QED
      BY <3>1, <3>2
  <2>4. \A k \in Plans : written.new[k] > 0 /\ k = Current => Phase \in {"verified", "rolled_back"}
    BY <1>1 DEF LayoutSound
  <2>5. QED
    BY <1>2, <1>3, <1>7, <2>1, <2>2, <2>3, <2>4 DEF LayoutSound
<1>9. UpgraderSound'
  <2>1. CASE upgrader' = None
    BY <2>1 DEF UpgraderSound
  <2>2. CASE upgrader' # None
    <3>1. /\ upgrader'.op = upgrader.op /\ upgrader'.plan = K
          /\ upgrader'.n = upgrader.n + 1 /\ upgrader.n \in 1..13
      BY <1>1, <2>2, GoesOn, PathStep DEF K
    <3>2. K' = K /\ ~Place("apply", 1)'
      BY <3>1 DEF K, Place
    <3>3. CommandSound'
      BY <1>1, <1>2, <1>3, <3>1, <3>2 DEF CommandSound
    <3>4. QED
      BY <2>2, <3>3 DEF UpgraderSound
  <2>3. QED
    BY <2>1, <2>2
<1>10. NoStateLost'
  <2>1. ASSUME NEW k \in Plans, written.new[k] > 0
        PROVE  New(k, written.new[k]) \in {disk'.state, disk'.stagedState[k]}
    <3>1. CASE k = K
      BY <2>1, <3>1
    <3>2. CASE k # K
      BY <1>1, <1>3, <2>1, <3>2, OthersQuarantined
    <3>3. QED
      BY <3>1, <3>2
  <2>2. QED
    BY <1>2, <2>1 DEF NoStateLost
<1>11. ConfigRecoverable'
  BY <1>2, <1>3, <1>6 DEF ConfigRecoverable
<1>12. QED
  BY <1>4, <1>5, <1>8, <1>9, <1>10, <1>11 DEF UpgradeInv


\* What a step that checks has found.
LEMMA PassesIs ==
    ASSUME upgrader # None, Passes
    PROVE  LET s == Path[upgrader.op][upgrader.n] IN
           /\ s = "make" => IsNew \/ disk.stagedState[K] \in News(K) \cup {None}
           /\ s = "move" => Movable
           /\ s = "activate" => \/ disk.state = None /\ disk.stagedState[K] # None
                                \/ upgrader.op = "resume" /\ IsNew
           /\ s = "check" => disk.config = Target(K) /\ IsNew
           /\ s = "quarantine" => \/ IsNew /\ disk.stagedState[K] = None
                                  \/ disk.state \in {None, The.state}
           /\ s = "restore" => (Present /\ disk.state = None => disk.stateBackup[K] = The.state)
           /\ s = "restore config" => disk.configBackup[K] = The.config
<1>1. PICK s : s = Path[upgrader.op][upgrader.n] /\ \A t : At(t) <=> s = t
  BY DEF At
<1>2. s = "make" => IsNew \/ disk.stagedState[K] \in News(K) \cup {None}
  BY <1>1 DEF Passes
<1>3. s = "move" => Movable
  BY <1>1 DEF Passes
<1>4. s = "activate" => \/ disk.state = None /\ disk.stagedState[K] # None
                        \/ upgrader.op = "resume" /\ IsNew
  BY <1>1 DEF Passes
<1>5. s = "check" => disk.config = Target(K) /\ IsNew
  BY <1>1 DEF Passes
<1>6. s = "quarantine" => \/ IsNew /\ disk.stagedState[K] = None
                          \/ disk.state \in {None, The.state}
  BY <1>1 DEF Passes, Recognized
<1>7. s = "restore" => (Present /\ disk.state = None => disk.stateBackup[K] = The.state)
  BY <1>1 DEF Passes, Recognized
<1>8. s = "restore config" => disk.configBackup[K] = The.config
  BY <1>1 DEF Passes
<1>9. QED
  BY <1>1, <1>2, <1>3, <1>4, <1>5, <1>6, <1>7, <1>8

\* What holds of a command that is past its first step.
LEMMA UnderWay ==
    ASSUME UpgradeInv, upgrader # None, ~Place("apply", 1)
    PROVE  /\ K \in Plans
           /\ journal # None /\ journal.plan = K /\ plans[K] # None /\ The = plans[K]
           /\ The.config \in Contents /\ The.state \in Contents \cup {None}
           /\ The.state \notin AllNews
           /\ disk \in Layouts
           /\ disk.stagedState[K] \in News(K) \cup {Bare, None}
           /\ disk.state \in Contents \cup {None} \cup News(K)
           /\ Marked <=> disk.state \in News(K)
           /\ Marked <=> IsNew
           /\ upgrader.n \in 1..13
           /\ Open \/ The.config \in {disk.config, disk.configBackup[K]}
           /\ written.legacy > 0 =>
                 \/ disk.state = Legacy(written.legacy)
                 \/ \E k \in Plans : disk.stateBackup[k] = Legacy(written.legacy)
           /\ written.new[K] > 0 => New(K, written.new[K]) \in {disk.state, disk.stagedState[K]}
           /\ upgrader.op # "rollback" => ~(written.new[K] > 0)
           /\ CommandSound /\ PositionSound
<1>1. /\ UpgradeTypeOK /\ PlansSound /\ LayoutSound /\ NoStateLost /\ ConfigRecoverable
      /\ CommandSound /\ PositionSound /\ K \in Plans /\ upgrader.n \in 1..13
  BY PathStep DEF UpgradeInv, UpgraderSound
<1>2. journal # None /\ journal.plan = K /\ plans[K] # None /\ The = plans[K] /\ Current = K
  BY <1>1, JournalIs DEF CommandSound, The, K
<1>3. /\ The.config \in Contents /\ The.state \in Contents \cup {None}
      /\ The.state \notin AllNews
  BY <1>1, <1>2, PlanIs
<1>4. disk \in Layouts
  BY <1>1 DEF UpgradeTypeOK
<1>5. disk.stagedState[K] \in News(K) \cup {Bare, None}
  BY <1>1 DEF LayoutSound
<1>6. Marked <=> disk.state \in News(K)
  BY <1>1, <1>2, ValuesAre DEF LayoutSound, Marked
<1>7. disk.state \in Contents \cup {None} \cup News(K)
  BY <1>4, <1>6 DEF Layouts, Marked
<1>8. Open \/ The.config \in {disk.config, disk.configBackup[K]}
  BY <1>1, <1>2 DEF ConfigRecoverable
<1>9. upgrader.op # "rollback" => ~(written.new[K] > 0)
  <2>1. upgrader.op # "rollback" => Phase \notin {"verified", "rolled_back"}
    BY <1>1, JournalIs DEF CommandSound
  <2>2. QED
    BY <1>1, <1>2, <2>1 DEF LayoutSound
<1>10. QED
  BY <1>1, <1>2, <1>3, <1>4, <1>5, <1>6, <1>7, <1>8, <1>9 DEF NoStateLost, IsNew


\* What the next step of a command relies on, said of the step that it takes.
LEMMA NextPosition ==
    ASSUME UpgradeInv, upgrader # None, Advances,
           (upgrader.op = "apply" /\ upgrader.n >= 2) \/ upgrader.op = "resume" =>
              disk'.configBackup[K] = The.config,
           (upgrader.op = "apply" /\ upgrader.n >= 6) \/ (upgrader.op = "resume" /\ upgrader.n >= 5) =>
              disk'.stagedState[K] # Bare,
           upgrader.op = "apply" /\ upgrader.n <= 8 => disk'.stateBackup[K] = None,
           Place("apply", 12) \/ Place("resume", 10) =>
              disk'.config = Target(K) /\ disk'.state \in News(K),
           upgrader.op = "rollback" => disk'.state \notin AllNews,
           Place("rollback", 3) => disk'.config \in Contents
    PROVE  upgrader' # None => PositionSound'
<1>1. UpgradeTypeOK
  BY DEF UpgradeInv
<1>2. SUFFICES ASSUME upgrader' # None PROVE PositionSound'
  OBVIOUS
<1>3. PICK n \in 1..13 : n = upgrader.n
  BY <1>1, PathStep
<1>4. /\ upgrader'.op = upgrader.op /\ upgrader'.plan = upgrader.plan /\ upgrader'.n = n + 1
      /\ plans' = plans
  BY <1>1, <1>2, <1>3, GoesOn
<1>5. K' = K /\ The' = The
  BY <1>4 DEF K, The
<1>6. /\ n + 1 >= 3 => n >= 2
      /\ n + 1 >= 7 => n >= 6
      /\ n + 1 >= 6 => n >= 5
      /\ n + 1 <= 9 => n <= 8
      /\ n + 1 = 13 => n = 12
      /\ n + 1 = 11 => n = 10
      /\ n + 1 = 4 => n = 3
  OBVIOUS
<1>7. /\ PastBackup' => (upgrader.op = "apply" /\ n >= 2) \/ upgrader.op = "resume"
      /\ PastMark' => (upgrader.op = "apply" /\ n >= 6) \/ (upgrader.op = "resume" /\ n >= 5)
      /\ Checked' => Place("apply", 12) \/ Place("resume", 10)
  BY <1>3, <1>4, <1>6 DEF PastBackup, PastMark, Checked, Place
<1>8. IsNew' <=> disk'.state \in News(K)
  BY <1>5 DEF IsNew
<1>9. Marked' <=> disk'.state \in AllNews
  BY DEF Marked
<1>10. QED
  BY <1>3, <1>4, <1>5, <1>6, <1>7, <1>8, <1>9 DEF PositionSound, Place

\* A copy of the configuration is made, or is there.
LEMMA BackUpKeeps == ASSUME UpgradeInv, BackUp PROVE UpgradeInv'
<1>1. /\ upgrader # None /\ Path[upgrader.op][upgrader.n] = "back up" /\ Advances
      /\ journal' = journal /\ disk' = [disk EXCEPT !.configBackup[K] = The.config]
      /\ UpgradeTypeOK
  BY DEF BackUp, Does, At, UpgradeInv
<1>2. Place("apply", 2) \/ Place("resume", 1)
  BY <1>1, PlaceIs
<1>3. ~Place("apply", 1)
  BY <1>2 DEF Place
<1>4. /\ disk' \in Layouts /\ disk'.config = disk.config /\ disk'.state = disk.state
      /\ disk'.stateBackup = disk.stateBackup /\ disk'.stagedState = disk.stagedState
      /\ disk'.configBackup[K] = The.config
      /\ \A k \in Plans \ {K} : disk'.configBackup[k] = disk.configBackup[k]
  BY <1>1, <1>3, UnderWay DEF Layouts
<1>5. upgrader' # None => PositionSound'
  <2>1. /\ upgrader.op = "apply" => upgrader.n = 2
        /\ upgrader.op = "resume" => upgrader.n = 1
        /\ upgrader.op # "rollback"
    BY <1>2 DEF Place
  <2>2. upgrader.op = "apply" => disk.stateBackup[K] = None
    <3>1. PositionSound
      BY <1>1, <1>3, UnderWay
    <3>2. QED
      BY <2>1, <3>1 DEF PositionSound
  <2>3. /\ ~(upgrader.op = "apply" /\ upgrader.n >= 6)
        /\ ~(upgrader.op = "resume" /\ upgrader.n >= 5)
        /\ ~Place("apply", 12) /\ ~Place("resume", 10) /\ ~Place("rollback", 3)
    BY <2>1 DEF Place
  <2>4. QED
    BY <1>1, <1>4, <2>1, <2>2, <2>3, NextPosition
<1>6. Marked' => Marked
  BY <1>4 DEF Marked
<1>7. QED
  BY <1>1, <1>2, <1>3, <1>4, <1>5, <1>6, UnderWay, StepKeeps DEF Place

\* Steps that change neither configuration, state, their backups nor what is staged of it.
LEMMA AsideKeeps ==
    ASSUME UpgradeInv, upgrader # None, Advances, journal' = journal, disk' \in Layouts,
           ~Place("apply", 1), upgrader.op # "rollback",
           upgrader.op = "apply" => upgrader.n \in {3, 4, 12},
           upgrader.op = "resume" => upgrader.n \in {2, 3, 10},
           disk'.config = disk.config, disk'.state = disk.state,
           disk'.stateBackup = disk.stateBackup, disk'.stagedState = disk.stagedState,
           disk'.configBackup = disk.configBackup,
           Place("apply", 12) \/ Place("resume", 10) => disk.config = Target(K) /\ IsNew
    PROVE  UpgradeInv'
<1>1. upgrader' # None => PositionSound'
  BY UnderWay, NextPosition DEF Place, PositionSound, PastBackup, PastMark
<1>2. Marked' => Marked
  BY DEF Marked
<1>3. QED
  BY <1>1, <1>2, UnderWay, StepKeeps DEF Place

LEMMA IdentifyKeeps == ASSUME UpgradeInv, Identify PROVE UpgradeInv'
<1>1. /\ upgrader # None /\ Path[upgrader.op][upgrader.n] = "identify" /\ Advances
      /\ journal' = journal /\ disk' = [disk EXCEPT !.id = The.id]
      /\ UpgradeTypeOK
  BY DEF Identify, Does, At, UpgradeInv
<1>2. Place("apply", 3) \/ Place("resume", 2)
  BY <1>1, PlaceIs
<1>3. ~Place("apply", 1)
  BY <1>2 DEF Place
<1>4. The.id \in 0..(MaxPlans + 1)
  BY <1>1, <1>3, UnderWay, PlanIs, UpgradeAssumption
<1>5. /\ disk' \in Layouts /\ disk'.config = disk.config /\ disk'.state = disk.state
      /\ disk'.stateBackup = disk.stateBackup /\ disk'.stagedState = disk.stagedState
      /\ disk'.configBackup = disk.configBackup
  BY <1>1, <1>3, <1>4, UnderWay DEF Layouts
<1>6. /\ upgrader.op = "apply" => upgrader.n \in {3, 4, 12}
      /\ upgrader.op = "resume" => upgrader.n \in {2, 3, 10}
      /\ upgrader.op # "rollback" /\ ~Place("apply", 12) /\ ~Place("resume", 10)
  BY <1>2 DEF Place
<1>7. QED
  BY <1>1, <1>3, <1>5, <1>6, AsideKeeps

LEMMA StageConfigKeeps == ASSUME UpgradeInv, StageConfig PROVE UpgradeInv'
<1>1. /\ upgrader # None /\ Path[upgrader.op][upgrader.n] = "stage config" /\ Advances
      /\ journal' = journal
      /\ disk' = IF disk.config = Target(K) THEN disk ELSE [disk EXCEPT !.stagedConfig[K] = Target(K)]
      /\ UpgradeTypeOK
  BY DEF StageConfig, Does, At, UpgradeInv
<1>2. Place("apply", 4) \/ Place("resume", 3)
  BY <1>1, PlaceIs
<1>3. ~Place("apply", 1)
  BY <1>2 DEF Place
<1>4. Target(K) \in Targets /\ disk \in Layouts
  BY <1>1, <1>3, UnderWay, ValuesAre
<1>5. /\ disk' \in Layouts /\ disk'.config = disk.config /\ disk'.state = disk.state
      /\ disk'.stateBackup = disk.stateBackup /\ disk'.stagedState = disk.stagedState
      /\ disk'.configBackup = disk.configBackup
  BY <1>1, <1>4 DEF Layouts
<1>6. /\ upgrader.op = "apply" => upgrader.n \in {3, 4, 12}
      /\ upgrader.op = "resume" => upgrader.n \in {2, 3, 10}
      /\ upgrader.op # "rollback" /\ ~Place("apply", 12) /\ ~Place("resume", 10)
  BY <1>2 DEF Place
<1>7. QED
  BY <1>1, <1>3, <1>5, <1>6, AsideKeeps

LEMMA CheckKeeps == ASSUME UpgradeInv, Check PROVE UpgradeInv'
<1>1. /\ upgrader # None /\ Path[upgrader.op][upgrader.n] = "check" /\ Advances
      /\ journal' = journal /\ disk' = disk /\ UpgradeTypeOK /\ Passes
  BY DEF Check, Does, At, UpgradeInv
<1>2. Place("apply", 12) \/ Place("resume", 10)
  BY <1>1, PlaceIs
<1>3. disk.config = Target(K) /\ IsNew
  BY <1>1, PassesIs
<1>4. disk' \in Layouts
  BY <1>1 DEF UpgradeTypeOK
<1>5. QED
  BY <1>1, <1>2, <1>3, <1>4, AsideKeeps DEF Place


LEMMA MakeStageKeeps == ASSUME UpgradeInv, MakeStage PROVE UpgradeInv'
<1>1. /\ upgrader # None /\ Path[upgrader.op][upgrader.n] = "make" /\ Advances
      /\ journal' = journal
      /\ disk' = IF IsNew \/ disk.stagedState[K] # None THEN disk
                 ELSE [disk EXCEPT !.stagedState[K] = Bare]
      /\ UpgradeTypeOK
  BY DEF MakeStage, Does, At, UpgradeInv
<1>2. Place("apply", 5) \/ Place("resume", 4)
  BY <1>1, PlaceIs
<1>3. ~Place("apply", 1)
  BY <1>2 DEF Place
<1>4. disk \in Layouts /\ disk.stagedState[K] \in News(K) \cup {Bare, None} /\ K \in Plans
  BY <1>1, <1>3, UnderWay
<1>5. /\ disk' \in Layouts /\ disk'.config = disk.config /\ disk'.state = disk.state
      /\ disk'.stateBackup = disk.stateBackup /\ disk'.configBackup = disk.configBackup
      /\ \/ disk'.stagedState[K] = disk.stagedState[K]
         \/ disk.stagedState[K] = None /\ disk'.stagedState[K] = Bare
      /\ \A k \in Plans \ {K} : disk'.stagedState[k] = disk.stagedState[k]
  <2>1. CASE IsNew \/ disk.stagedState[K] # None
    BY <1>1, <1>4, <2>1
  <2>2. CASE ~(IsNew \/ disk.stagedState[K] # None)
    BY <1>1, <1>4, <2>2 DEF Layouts
  <2>3. QED
    BY <2>1, <2>2
<1>6. /\ upgrader.op = "apply" => upgrader.n = 5
      /\ upgrader.op = "resume" => upgrader.n = 4
      /\ upgrader.op # "rollback"
  BY <1>2 DEF Place
<1>7. upgrader' # None => PositionSound'
  <2>1. /\ ~(upgrader.op = "apply" /\ upgrader.n >= 6)
        /\ ~(upgrader.op = "resume" /\ upgrader.n >= 5)
        /\ ~Place("apply", 12) /\ ~Place("resume", 10) /\ ~Place("rollback", 3)
    BY <1>6 DEF Place
  <2>2. /\ disk.configBackup[K] = The.config
        /\ upgrader.op = "apply" => disk.stateBackup[K] = None
    <3>1. PositionSound
      BY <1>1, <1>3, UnderWay
    <3>2. PastBackup
      BY <1>2 DEF PastBackup, Place
    <3>3. QED
      BY <1>6, <3>1, <3>2 DEF PositionSound
  <2>3. QED
    BY <1>1, <1>5, <1>6, <2>1, <2>2, NextPosition
<1>8. Marked' => Marked
  BY <1>5 DEF Marked
<1>9. ~(written.new[K] > 0)
  BY <1>1, <1>3, <1>6, UnderWay
<1>10. QED
  BY <1>1, <1>3, <1>4, <1>5, <1>6, <1>7, <1>8, <1>9, UnderWay, StepKeeps

LEMMA MarkStageKeeps == ASSUME UpgradeInv, MarkStage PROVE UpgradeInv'
<1>1. /\ upgrader # None /\ Path[upgrader.op][upgrader.n] = "mark" /\ Advances
      /\ journal' = journal
      /\ disk' = IF disk.stagedState[K] = Bare THEN [disk EXCEPT !.stagedState[K] = New(K, 1)]
                 ELSE disk
      /\ UpgradeTypeOK
  BY DEF MarkStage, Does, At, UpgradeInv
<1>2. Place("apply", 6) \/ Place("resume", 5)
  BY <1>1, PlaceIs
<1>3. ~Place("apply", 1)
  BY <1>2 DEF Place
<1>4. disk \in Layouts /\ disk.stagedState[K] \in News(K) \cup {Bare, None} /\ K \in Plans
  BY <1>1, <1>3, UnderWay
<1>5. New(K, 1) \in News(K) /\ New(K, 1) \in AllNews /\ New(K, 1) # Bare
  <2>1. 1 \in Versions
    BY UpgradeAssumption DEF Versions
  <2>2. QED
    BY <1>4, <2>1, ValuesAre
<1>6. /\ disk' \in Layouts /\ disk'.config = disk.config /\ disk'.state = disk.state
      /\ disk'.stateBackup = disk.stateBackup /\ disk'.configBackup = disk.configBackup
      /\ disk'.stagedState[K] \in News(K) \cup {None} /\ disk'.stagedState[K] # Bare
      /\ \A k \in Plans \ {K} : disk'.stagedState[k] = disk.stagedState[k]
  <2>1. CASE disk.stagedState[K] = Bare
    BY <1>1, <1>4, <1>5, <2>1 DEF Layouts
  <2>2. CASE disk.stagedState[K] # Bare
    BY <1>1, <1>4, <2>2
  <2>3. QED
    BY <2>1, <2>2
<1>7. /\ upgrader.op = "apply" => upgrader.n = 6
      /\ upgrader.op = "resume" => upgrader.n = 5
      /\ upgrader.op # "rollback"
  BY <1>2 DEF Place
<1>8. upgrader' # None => PositionSound'
  <2>1. ~Place("apply", 12) /\ ~Place("resume", 10) /\ ~Place("rollback", 3)
    BY <1>7 DEF Place
  <2>2. /\ disk.configBackup[K] = The.config
        /\ upgrader.op = "apply" => disk.stateBackup[K] = None
    <3>1. PositionSound
      BY <1>1, <1>3, UnderWay
    <3>2. PastBackup
      BY <1>2 DEF PastBackup, Place
    <3>3. QED
      BY <1>7, <3>1, <3>2 DEF PositionSound
  <2>3. QED
    BY <1>1, <1>6, <1>7, <2>1, <2>2, NextPosition
<1>9. Marked' => Marked
  BY <1>6 DEF Marked
<1>10. ~(written.new[K] > 0)
  BY <1>1, <1>3, <1>7, UnderWay
<1>11. QED
  BY <1>1, <1>3, <1>4, <1>6, <1>7, <1>8, <1>9, <1>10, UnderWay, StepKeeps

\* The old state is moved into the backup, which an apply finds empty.
LEMMA MoveStateKeeps == ASSUME UpgradeInv, MoveState PROVE UpgradeInv'
<1>1. /\ upgrader # None /\ Path[upgrader.op][upgrader.n] = "move" /\ Advances
      /\ journal' = journal /\ UpgradeTypeOK /\ Passes
      /\ disk' = IF Present /\ ~IsNew /\ disk.state # None
                   THEN [disk EXCEPT !.state = None, !.stateBackup[K] = disk.state]
                   ELSE disk
  BY DEF MoveState, Does, At, UpgradeInv
<1>2. Place("apply", 9) \/ Place("resume", 7)
  BY <1>1, PlaceIs
<1>3. ~Place("apply", 1)
  BY <1>2 DEF Place
<1>4. /\ disk \in Layouts /\ disk.stagedState[K] \in News(K) \cup {Bare, None} /\ K \in Plans
      /\ disk.state \in Contents \cup {None} \cup News(K)
  BY <1>1, <1>3, UnderWay
<1>5. /\ upgrader.op = "apply" => upgrader.n = 9
      /\ upgrader.op = "resume" => upgrader.n = 7
      /\ upgrader.op # "rollback"
  BY <1>2 DEF Place
<1>6. /\ disk.configBackup[K] = The.config /\ disk.stagedState[K] # Bare
      /\ upgrader.op = "apply" => disk.stateBackup[K] = None
  <2>1. PositionSound
    BY <1>1, <1>3, UnderWay
  <2>2. PastBackup /\ PastMark
    BY <1>2 DEF PastBackup, PastMark, Place
  <2>3. QED
    BY <1>5, <2>1, <2>2 DEF PositionSound
<1>7. /\ ~Place("apply", 12) /\ ~Place("resume", 10) /\ ~Place("rollback", 3)
      /\ ~(upgrader.op = "apply" /\ upgrader.n <= 8)
  BY <1>5 DEF Place
<1>8. ~(written.new[K] > 0)
  BY <1>1, <1>3, <1>5, UnderWay
<1>9. CASE ~(Present /\ ~IsNew /\ disk.state # None)
  <2>1. disk' = disk
    BY <1>1, <1>9
  <2>2. upgrader' # None => PositionSound'
    BY <1>1, <1>5, <1>6, <1>7, <2>1, NextPosition
  <2>3. Marked' => Marked
    BY <2>1 DEF Marked
  <2>4. QED
    BY <1>1, <1>3, <1>4, <1>5, <1>8, <2>1, <2>2, <2>3, UnderWay, StepKeeps
<1>10. CASE Present /\ ~IsNew /\ disk.state # None
  <2>1. disk' = [disk EXCEPT !.state = None, !.stateBackup[K] = disk.state]
    BY <1>1, <1>10
  <2>2. disk.state \in Contents
    BY <1>4, <1>10 DEF IsNew
  <2>3. /\ disk' \in Layouts /\ disk'.config = disk.config /\ disk'.state = None
        /\ disk'.configBackup = disk.configBackup /\ disk'.stagedState = disk.stagedState
        /\ disk'.stateBackup[K] = disk.state
        /\ \A k \in Plans \ {K} : disk'.stateBackup[k] = disk.stateBackup[k]
    BY <1>4, <2>1, <2>2 DEF Layouts
  <2>4. disk.stateBackup[K] = None
    <3>1. Movable /\ disk.state \notin {None}
      BY <1>1, <1>10, PassesIs
    <3>2. upgrader.op = "resume" => disk.stateBackup[K] = None
      BY <1>10, <3>1 DEF Movable
    <3>3. upgrader.op \in {"apply", "resume"}
      BY <1>1, <1>5, PathStep
    <3>4. QED
      BY <1>6, <3>2, <3>3
  <2>5. written.legacy > 0 => \E k \in Plans : disk'.stateBackup[k] = Legacy(written.legacy)
    <3>1. SUFFICES ASSUME written.legacy > 0
                   PROVE  \E k \in Plans : disk'.stateBackup[k] = Legacy(written.legacy)
      OBVIOUS
    <3>2. CASE disk.state = Legacy(written.legacy)
      BY <1>4, <2>3, <3>2
    <3>3. ASSUME NEW k \in Plans, disk.stateBackup[k] = Legacy(written.legacy)
          PROVE  \E j \in Plans : disk'.stateBackup[j] = Legacy(written.legacy)
      <4>1. Legacy(written.legacy) # None
        <5>1. written.legacy \in Versions
          BY <1>1, <3>1 DEF UpgradeTypeOK, Versions
        <5>2. QED
          BY <5>1, ValuesAre
      <4>2. k # K
        BY <2>4, <3>3, <4>1
      <4>3. QED
        BY <2>3, <3>3, <4>2
    <3>4. QED
      BY <1>1, <1>3, <3>1, <3>2, <3>3, UnderWay
  <2>6. upgrader' # None => PositionSound'
    BY <1>1, <1>5, <1>6, <1>7, <2>3, NextPosition
  <2>7. ~Marked'
    BY <2>3, ValuesAre DEF Marked
  <2>8. QED
    BY <1>1, <1>3, <1>4, <1>5, <1>8, <2>3, <2>5, <2>6, <2>7, UnderWay, StepKeeps
<1>11. QED
  BY <1>9, <1>10


\* The new state becomes the state, where there is none, or where it has been before.
LEMMA ActivateStateKeeps == ASSUME UpgradeInv, ActivateState PROVE UpgradeInv'
<1>1. /\ upgrader # None /\ Path[upgrader.op][upgrader.n] = "activate" /\ Advances
      /\ journal' = journal /\ UpgradeTypeOK /\ Passes
      /\ disk' = IF IsNew THEN disk
                 ELSE [disk EXCEPT !.state = disk.stagedState[K], !.stagedState[K] = None]
  BY DEF ActivateState, Does, At, UpgradeInv
<1>2. Place("apply", 10) \/ Place("resume", 8)
  BY <1>1, PlaceIs
<1>3. ~Place("apply", 1)
  BY <1>2 DEF Place
<1>4. /\ disk \in Layouts /\ disk.stagedState[K] \in News(K) \cup {Bare, None} /\ K \in Plans
      /\ disk.state \in Contents \cup {None} \cup News(K)
  BY <1>1, <1>3, UnderWay
<1>5. /\ upgrader.op = "apply" => upgrader.n = 10
      /\ upgrader.op = "resume" => upgrader.n = 8
      /\ upgrader.op # "rollback"
  BY <1>2 DEF Place
<1>6. disk.configBackup[K] = The.config /\ disk.stagedState[K] # Bare
  <2>1. PositionSound
    BY <1>1, <1>3, UnderWay
  <2>2. PastBackup /\ PastMark
    BY <1>2 DEF PastBackup, PastMark, Place
  <2>3. QED
    BY <2>1, <2>2 DEF PositionSound
<1>7. /\ ~Place("apply", 12) /\ ~Place("resume", 10) /\ ~Place("rollback", 3)
      /\ ~(upgrader.op = "apply" /\ upgrader.n <= 8)
  BY <1>5 DEF Place
<1>8. ~(written.new[K] > 0)
  BY <1>1, <1>3, <1>5, UnderWay
<1>9. CASE IsNew
  <2>1. disk' = disk
    BY <1>1, <1>9
  <2>2. upgrader' # None => PositionSound'
    BY <1>1, <1>5, <1>6, <1>7, <2>1, NextPosition
  <2>3. Marked' => Marked
    BY <2>1 DEF Marked
  <2>4. QED
    BY <1>1, <1>3, <1>4, <1>5, <1>8, <2>1, <2>2, <2>3, UnderWay, StepKeeps
<1>10. CASE ~IsNew
  <2>1. disk.state = None /\ disk.stagedState[K] \in News(K)
    BY <1>1, <1>4, <1>6, <1>10, PassesIs
  <2>2. PICK new \in News(K) : new = disk.stagedState[K]
    BY <2>1
  <2>3. new \in AllNews
    BY <1>4, <2>2, ValuesAre
  <2>4. disk' = [disk EXCEPT !.state = new, !.stagedState[K] = None]
    BY <1>1, <1>10, <2>2
  <2>5. /\ disk' \in Layouts /\ disk'.config = disk.config /\ disk'.state = new
        /\ disk'.configBackup = disk.configBackup /\ disk'.stateBackup = disk.stateBackup
        /\ disk'.stagedState[K] = None
        /\ \A k \in Plans \ {K} : disk'.stagedState[k] = disk.stagedState[k]
    BY <1>4, <2>3, <2>4 DEF Layouts
  <2>7. written.legacy > 0 => \E k \in Plans : disk'.stateBackup[k] = Legacy(written.legacy)
    <3>1. written.legacy > 0 => Legacy(written.legacy) # None
      <4>1. written.legacy > 0 => written.legacy \in Versions
        BY <1>1 DEF UpgradeTypeOK, Versions
      <4>2. QED
        BY <4>1, ValuesAre
    <3>2. QED
      BY <1>1, <1>3, <2>1, <2>5, <3>1, UnderWay
  <2>8. upgrader' # None => PositionSound'
    <3>1. None # Bare
      BY UpgradeAssumption
    <3>2. QED
      BY <1>1, <1>5, <1>6, <1>7, <2>5, <3>1, NextPosition
  <2>9. QED
    BY <1>1, <1>3, <1>4, <1>5, <1>8, <2>5, <2>7, <2>8, UnderWay, StepKeeps
<1>11. QED
  BY <1>9, <1>10

LEMMA ActivateConfigKeeps == ASSUME UpgradeInv, ActivateConfig PROVE UpgradeInv'
<1>1. /\ upgrader # None /\ Path[upgrader.op][upgrader.n] = "configure" /\ Advances
      /\ journal' = journal /\ UpgradeTypeOK
      /\ disk' = IF disk.config = Target(K) THEN disk
                 ELSE [disk EXCEPT !.config = Target(K), !.stagedConfig[K] = None]
  BY DEF ActivateConfig, Does, At, UpgradeInv
<1>2. Place("apply", 11) \/ Place("resume", 9)
  BY <1>1, PlaceIs
<1>3. ~Place("apply", 1)
  BY <1>2 DEF Place
<1>4. /\ disk \in Layouts /\ disk.stagedState[K] \in News(K) \cup {Bare, None} /\ K \in Plans
      /\ disk.state \in Contents \cup {None} \cup News(K)
  BY <1>1, <1>3, UnderWay
<1>5. /\ upgrader.op = "apply" => upgrader.n = 11
      /\ upgrader.op = "resume" => upgrader.n = 9
      /\ upgrader.op # "rollback"
  BY <1>2 DEF Place
<1>6. disk.configBackup[K] = The.config /\ disk.stagedState[K] # Bare
  <2>1. PositionSound
    BY <1>1, <1>3, UnderWay
  <2>2. PastBackup /\ PastMark
    BY <1>2 DEF PastBackup, PastMark, Place
  <2>3. QED
    BY <2>1, <2>2 DEF PositionSound
<1>7. /\ ~Place("apply", 12) /\ ~Place("resume", 10) /\ ~Place("rollback", 3)
      /\ ~(upgrader.op = "apply" /\ upgrader.n <= 8)
  BY <1>5 DEF Place
<1>8. ~(written.new[K] > 0)
  BY <1>1, <1>3, <1>5, UnderWay
<1>9. /\ disk' \in Layouts /\ disk'.config = Target(K) /\ disk'.state = disk.state
      /\ disk'.configBackup = disk.configBackup /\ disk'.stateBackup = disk.stateBackup
      /\ disk'.stagedState = disk.stagedState
  <2>1. Target(K) \in Targets
    BY <1>4, ValuesAre
  <2>2. QED
    BY <1>1, <1>4, <2>1 DEF Layouts
<1>10. upgrader' # None => PositionSound'
  BY <1>1, <1>5, <1>6, <1>7, <1>9, NextPosition
<1>11. QED
  BY <1>1, <1>3, <1>4, <1>5, <1>6, <1>8, <1>9, <1>10, UnderWay, StepKeeps

\* The new state goes back where it was staged.
LEMMA QuarantineKeeps == ASSUME UpgradeInv, Quarantine PROVE UpgradeInv'
<1>1. /\ upgrader # None /\ Path[upgrader.op][upgrader.n] = "quarantine" /\ Advances
      /\ journal' = journal /\ UpgradeTypeOK /\ Passes
      /\ disk' = IF IsNew THEN [disk EXCEPT !.state = None, !.stagedState[K] = disk.state] ELSE disk
  BY DEF Quarantine, Does, At, UpgradeInv
<1>2. Place("rollback", 1)
  BY <1>1, PlaceIs
<1>3. ~Place("apply", 1) /\ upgrader.op = "rollback" /\ ~Place("rollback", 3)
      /\ ~Place("apply", 12) /\ ~Place("resume", 10)
  BY <1>2 DEF Place
<1>4. /\ disk \in Layouts /\ disk.stagedState[K] \in News(K) \cup {Bare, None} /\ K \in Plans
      /\ disk.state \in Contents \cup {None} \cup News(K) /\ (Marked <=> IsNew)
  BY <1>1, <1>3, UnderWay
<1>5. CASE ~IsNew
  <2>1. disk' = disk /\ ~Marked /\ ~Marked'
    BY <1>1, <1>4, <1>5 DEF Marked
  <2>2. upgrader' # None => PositionSound'
    BY <1>1, <1>3, <2>1, NextPosition DEF Marked
  <2>3. QED
    BY <1>1, <1>3, <1>4, <2>1, <2>2, UnderWay, StepKeeps
<1>6. CASE IsNew
  <2>1. disk.stagedState[K] = None
    <3>1. disk.state \in AllNews
      BY <1>4, <1>6 DEF Marked
    <3>2. The.state \notin AllNews
      BY <1>1, <1>3, UnderWay
    <3>3. QED
      BY <1>1, <1>6, <3>1, <3>2, ValuesAre, PassesIs
  <2>2. PICK new \in News(K) : new = disk.state
    BY <1>6 DEF IsNew
  <2>3. new \in AllNews /\ new \notin Contents /\ new # None
    BY <1>4, <2>2, ValuesAre
  <2>4. disk' = [disk EXCEPT !.state = None, !.stagedState[K] = new]
    BY <1>1, <1>6, <2>2
  <2>5. /\ disk' \in Layouts /\ disk'.config = disk.config /\ disk'.state = None
        /\ disk'.configBackup = disk.configBackup /\ disk'.stateBackup = disk.stateBackup
        /\ disk'.stagedState[K] = new
        /\ \A k \in Plans \ {K} : disk'.stagedState[k] = disk.stagedState[k]
    BY <1>4, <2>3, <2>4 DEF Layouts
  <2>6. ~Marked' /\ disk'.state \notin AllNews
    BY <2>5, ValuesAre DEF Marked
  <2>7. upgrader' # None => PositionSound'
    BY <1>1, <1>3, <2>6, NextPosition
  <2>8. written.legacy > 0 => \E k \in Plans : disk'.stateBackup[k] = Legacy(written.legacy)
    <3>1. written.legacy > 0 => Legacy(written.legacy) \in Contents
      <4>1. written.legacy > 0 => written.legacy \in Versions
        BY <1>1 DEF UpgradeTypeOK, Versions
      <4>2. QED
        BY <4>1, ValuesAre
    <3>2. QED
      BY <1>1, <1>3, <2>2, <2>3, <2>5, <3>1, UnderWay
  <2>9. written.new[K] > 0 => New(K, written.new[K]) = new
    <3>1. written.new[K] > 0 => New(K, written.new[K]) # None
      <4>1. written.new[K] > 0 => written.new[K] \in Versions
        BY <1>1, <1>4 DEF UpgradeTypeOK, Versions
      <4>2. QED
        BY <1>4, <4>1, ValuesAre
    <3>2. QED
      BY <1>1, <1>3, <2>1, <2>2, <3>1, UnderWay
  <2>10. QED
    BY <1>1, <1>3, <1>4, <2>5, <2>6, <2>7, <2>8, <2>9, UnderWay, StepKeeps
<1>7. QED
  BY <1>5, <1>6

\* The old state goes back where it was, which is empty.
LEMMA RestoreStateKeeps == ASSUME UpgradeInv, RestoreState PROVE UpgradeInv'
<1>1. /\ upgrader # None /\ Path[upgrader.op][upgrader.n] = "restore" /\ Advances
      /\ journal' = journal /\ UpgradeTypeOK /\ Passes
      /\ disk' = IF Present /\ disk.state = None
                   THEN [disk EXCEPT !.state = disk.stateBackup[K], !.stateBackup[K] = None]
                   ELSE disk
  BY DEF RestoreState, Does, At, UpgradeInv
<1>2. Place("rollback", 2)
  BY <1>1, PlaceIs
<1>3. ~Place("apply", 1) /\ upgrader.op = "rollback" /\ ~Place("rollback", 3)
      /\ ~Place("apply", 12) /\ ~Place("resume", 10) /\ upgrader.n >= 2
  BY <1>2 DEF Place
<1>4. /\ disk \in Layouts /\ disk.stagedState[K] \in News(K) \cup {Bare, None} /\ K \in Plans
      /\ disk.state \in Contents \cup {None} \cup News(K)
  BY <1>1, <1>3, UnderWay
<1>5. ~Marked
  <2>1. PositionSound
    BY <1>1, <1>3, UnderWay
  <2>2. QED
    BY <1>3, <2>1 DEF PositionSound
<1>6. CASE ~(Present /\ disk.state = None)
  <2>1. disk' = disk /\ ~Marked'
    BY <1>1, <1>5, <1>6 DEF Marked
  <2>2. upgrader' # None => PositionSound'
    BY <1>1, <1>3, <2>1, NextPosition DEF Marked
  <2>3. QED
    BY <1>1, <1>3, <1>4, <2>1, <2>2, UnderWay, StepKeeps
<1>7. CASE Present /\ disk.state = None
  <2>1. PICK old \in Contents \cup {None} : old = disk.stateBackup[K]
    BY <1>4 DEF Layouts
  <2>2. disk' = [disk EXCEPT !.state = old, !.stateBackup[K] = None]
    BY <1>1, <1>7, <2>1
  <2>3. /\ disk' \in Layouts /\ disk'.config = disk.config /\ disk'.state = old
        /\ disk'.configBackup = disk.configBackup /\ disk'.stagedState = disk.stagedState
        /\ disk'.stateBackup[K] = None
        /\ \A k \in Plans \ {K} : disk'.stateBackup[k] = disk.stateBackup[k]
    BY <1>4, <2>2 DEF Layouts
  <2>4. ~Marked' /\ disk'.state \notin AllNews
    BY <2>1, <2>3, ValuesAre DEF Marked
  <2>5. upgrader' # None => PositionSound'
    BY <1>1, <1>3, <2>4, NextPosition
  <2>6. written.legacy > 0 =>
           \/ disk'.state = Legacy(written.legacy)
           \/ \E k \in Plans : disk'.stateBackup[k] = Legacy(written.legacy)
    <3>1. SUFFICES ASSUME written.legacy > 0, disk'.state # Legacy(written.legacy)
                   PROVE  \E k \in Plans : disk'.stateBackup[k] = Legacy(written.legacy)
      OBVIOUS
    <3>2. Legacy(written.legacy) # None
      <4>1. written.legacy \in Versions
        BY <1>1, <3>1 DEF UpgradeTypeOK, Versions
      <4>2. QED
        BY <4>1, ValuesAre
    <3>3. PICK k \in Plans : disk.stateBackup[k] = Legacy(written.legacy)
      BY <1>1, <1>3, <1>7, <3>1, <3>2, UnderWay
    <3>4. k # K
      BY <2>1, <2>3, <3>1, <3>3
    <3>5. QED
      BY <2>3, <3>3, <3>4
  <2>7. written.new[K] > 0 => New(K, written.new[K]) = disk'.stagedState[K]
    <3>1. written.new[K] > 0 => New(K, written.new[K]) # None
      <4>1. written.new[K] > 0 => written.new[K] \in Versions
        BY <1>1, <1>4 DEF UpgradeTypeOK, Versions
      <4>2. QED
        BY <1>4, <4>1, ValuesAre
    <3>2. QED
      BY <1>1, <1>3, <1>7, <2>3, <3>1, UnderWay
  <2>8. QED
    BY <1>1, <1>3, <1>4, <2>1, <2>3, <2>4, <2>5, <2>6, <2>7, UnderWay, StepKeeps
<1>8. QED
  BY <1>6, <1>7

LEMMA RestoreConfigKeeps == ASSUME UpgradeInv, RestoreConfig PROVE UpgradeInv'
<1>1. /\ upgrader # None /\ Path[upgrader.op][upgrader.n] = "restore config" /\ Advances
      /\ journal' = journal /\ UpgradeTypeOK /\ Passes
      /\ disk' = [disk EXCEPT !.config = disk.configBackup[K]]
  BY DEF RestoreConfig, Does, At, UpgradeInv
<1>2. Place("rollback", 3)
  BY <1>1, PlaceIs
<1>3. ~Place("apply", 1) /\ upgrader.op = "rollback"
      /\ ~Place("apply", 12) /\ ~Place("resume", 10) /\ upgrader.n >= 2
  BY <1>2 DEF Place
<1>4. /\ disk \in Layouts /\ disk.stagedState[K] \in News(K) \cup {Bare, None} /\ K \in Plans
      /\ disk.state \in Contents \cup {None} \cup News(K) /\ The.config \in Contents
  BY <1>1, <1>3, UnderWay
<1>5. ~Marked
  <2>1. PositionSound
    BY <1>1, <1>3, UnderWay
  <2>2. QED
    BY <1>3, <2>1 DEF PositionSound
<1>6. disk.configBackup[K] = The.config
  BY <1>1, PassesIs
<1>7. /\ disk' \in Layouts /\ disk'.config = The.config /\ disk'.state = disk.state
      /\ disk'.configBackup = disk.configBackup /\ disk'.stateBackup = disk.stateBackup
      /\ disk'.stagedState = disk.stagedState
  BY <1>1, <1>4, <1>6 DEF Layouts
<1>8. ~Marked' /\ disk'.state \notin AllNews
  BY <1>5, <1>7 DEF Marked
<1>9. upgrader' # None => PositionSound'
  BY <1>1, <1>3, <1>4, <1>7, <1>8, NextPosition
<1>10. QED
  BY <1>1, <1>3, <1>4, <1>7, <1>8, <1>9, UnderWay, StepKeeps


\* A command writes its phase in the journal.
LEMMA PublishKeepsIt ==
    ASSUME UpgradeInv, upgrader # None, Advances, disk' = disk,
           NEW phase \in Phases, phase = Path[upgrader.op][upgrader.n],
           journal' = [phase |-> phase, plan |-> K]
    PROVE  UpgradeInv'
<1>1. /\ UpgradeTypeOK /\ PlansSound /\ LayoutSound /\ NoStateLost /\ ConfigRecoverable
      /\ CommandSound /\ PositionSound /\ K \in Plans /\ upgrader.n \in 1..13
  BY PathStep DEF UpgradeInv, UpgraderSound
<1>2. /\ UNCHANGED <<plans, mishaps, written, disk>>
      /\ upgrader' \in Commands \cup {None}
      /\ plans[K] # None
  BY <1>1, GoesOn DEF CommandSound
<1>3. journal' \in Entries /\ journal' # None /\ journal'.phase = phase /\ journal'.plan = K
  BY <1>1, JournalIs
<1>4. Phase' = phase /\ Current' = K /\ (Open' <=> phase = "rolled_back") /\ Marked' = Marked
  <2>1. Phase' = phase /\ Current' = K /\ Marked' = Marked
    BY <1>2, <1>3 DEF Phase, Current, Marked
  <2>2. phase # "none"
    BY DEF Phases
  <2>3. QED
    BY <2>1, <2>2 DEF Open
<1>5. \/ Place("apply", 1) /\ phase = "preparing"
      \/ (Place("apply", 7) \/ Place("resume", 6)) /\ phase = "prepared"
      \/ Place("apply", 8) /\ phase = "cutting-over"
      \/ (Place("apply", 13) \/ Place("resume", 11)) /\ phase = "verified"
      \/ Place("rollback", 4) /\ phase = "rolled_back"
  BY <1>1, PlaceIs DEF Phases
<1>6. Current <= K /\ Current \in Nat /\ K \in Nat /\ K > 0
  BY <1>1, JournalIs, ValuesAre DEF CommandSound, AtFirst
<1>7. The \in Observations /\ The = plans[K] /\ The.config \in Contents /\ The.state \notin AllNews
  BY <1>1, <1>2, PlanIs DEF The, K
<1>8. UpgradeTypeOK'
  BY <1>1, <1>2, <1>3, GoesOn DEF UpgradeTypeOK
<1>9. PlansSound'
  <2>1. \A k \in Plans : k > K => Fresh(k)'
    <3>1. TAKE k \in Plans
    <3>2. HAVE k > K
    <3>3. k > Current
      BY <1>6, <3>2, ValuesAre
    <3>4. Fresh(k)
      BY <1>1, <3>3 DEF PlansSound
    <3>5. QED
      BY <1>2, <3>4 DEF Fresh
  <2>2. QED
    BY <1>1, <1>2, <1>3, <1>4, <2>1 DEF PlansSound
<1>10. Place("apply", 1) => ~Marked /\ disk.config = The.config /\ K > Current
  BY <1>1, <1>7 DEF CommandSound, AtFirst, Marked
<1>11. ~Place("apply", 1) => journal # None /\ journal.plan = K /\ Current = K
  BY <1>1, JournalIs DEF CommandSound
<1>12. LayoutSound'
  <2>1. Marked => disk.state \in News(K)
    BY <1>1, <1>10, <1>11 DEF LayoutSound
  <2>2. phase = "rolled_back" => disk.config \in Contents
    BY <1>1, <1>5 DEF PositionSound, Place
  <2>3. phase = "verified" /\ Marked => disk.config = Target(K)
    BY <1>1, <1>5 DEF PositionSound, Checked, Place
  <2>4. written.new[K] > 0 => phase \in {"verified", "rolled_back"}
    <3>1. CASE Place("apply", 1)
      <4>1. Fresh(K)
        BY <1>1, <1>10, <3>1 DEF PlansSound
      <4>2. QED
        BY <4>1 DEF Fresh
    <3>2. CASE ~Place("apply", 1)
      <4>1. written.new[K] > 0 => Phase \in {"verified", "rolled_back"}
        BY <1>1, <1>11, <3>2 DEF LayoutSound
      <4>2. upgrader.op # "rollback" => ~Open /\ Phase # "verified"
        BY <1>1, <3>2 DEF CommandSound
      <4>3. upgrader.op = "rollback" => phase = "rolled_back"
        BY <1>5 DEF Place
      <4>4. QED
        BY <1>1, <4>1, <4>2, <4>3, JournalIs
    <3>3. QED
      BY <3>1, <3>2
  <2>5. QED
    BY <1>1, <1>2, <1>3, <1>4, <2>1, <2>2, <2>3, <2>4 DEF LayoutSound
<1>13. NoStateLost'
  BY <1>1, <1>2 DEF NoStateLost
<1>14. ConfigRecoverable'
  <2>1. The.config \in {disk.config, disk.configBackup[K]} \/ phase = "rolled_back"
    <3>1. CASE Place("apply", 1)
      BY <1>10, <3>1
    <3>2. CASE ~Place("apply", 1) /\ upgrader.op # "rollback"
      BY <1>1, <1>7, <1>11, <3>2 DEF CommandSound, ConfigRecoverable
    <3>3. CASE upgrader.op = "rollback"
      BY <1>5, <3>3 DEF Place
    <3>4. QED
      BY <3>1, <3>2, <3>3
  <2>2. QED
    BY <1>2, <1>3, <1>4, <1>7, <2>1 DEF ConfigRecoverable
<1>15. UpgraderSound'
  <2>1. SUFFICES ASSUME upgrader' # None PROVE CommandSound' /\ PositionSound'
    BY DEF UpgraderSound
  <2>2. /\ upgrader'.op = upgrader.op /\ upgrader'.plan = K /\ upgrader'.n = upgrader.n + 1
        /\ upgrader'.n <= Len(Path[upgrader'.op])
    BY <1>1, <2>1, GoesOn DEF K
  <2>3. K' = K /\ ~Place("apply", 1)'
    BY <1>1, <2>2 DEF K, Place
  <2>4. Place("apply", 1) \/ Place("apply", 7) \/ Place("resume", 6) \/ Place("apply", 8)
    <3>1. ~Place("apply", 13)
      <4>1. SUFFICES ASSUME Place("apply", 13) PROVE FALSE
        OBVIOUS
      <4>2. upgrader'.op = "apply" /\ upgrader'.n = 14
        BY <2>2, <4>1 DEF Place
      <4>3. Len(Path[upgrader'.op]) = 13
        BY <4>2, PathIs
      <4>4. QED
        BY <2>2, <4>2, <4>3
    <3>2. ~Place("resume", 11)
      <4>1. SUFFICES ASSUME Place("resume", 11) PROVE FALSE
        OBVIOUS
      <4>2. upgrader'.op = "resume" /\ upgrader'.n = 12
        BY <2>2, <4>1 DEF Place
      <4>3. Len(Path[upgrader'.op]) = 11
        BY <4>2, PathIs
      <4>4. QED
        BY <2>2, <4>2, <4>3
    <3>3. ~Place("rollback", 4)
      <4>1. SUFFICES ASSUME Place("rollback", 4) PROVE FALSE
        OBVIOUS
      <4>2. upgrader'.op = "rollback" /\ upgrader'.n = 5
        BY <2>2, <4>1 DEF Place
      <4>3. Len(Path[upgrader'.op]) = 4
        BY <4>2, PathIs
      <4>4. QED
        BY <2>2, <4>2, <4>3
    <3>4. QED
      BY <1>5, <3>1, <3>2, <3>3
  <2>5. upgrader.op # "rollback" /\ phase \notin {"verified", "rolled_back"}
    BY <1>5, <2>4 DEF Place
  <2>6. CommandSound'
    BY <1>2, <1>3, <1>4, <2>2, <2>3, <2>5 DEF CommandSound
  <2>7. PositionSound'
    <3>1. (upgrader.op = "apply" /\ upgrader.n >= 2) \/ upgrader.op = "resume" =>
             disk.configBackup[K] = The.config
      <4>1. (upgrader.op = "apply" /\ upgrader.n >= 2) \/ upgrader.op = "resume" => PastBackup
        BY <2>4 DEF Place, PastBackup
      <4>2. QED
        BY <1>1, <4>1 DEF PositionSound
    <3>2. /\ upgrader.op = "apply" /\ upgrader.n >= 6 => PastMark
          /\ upgrader.op = "resume" /\ upgrader.n >= 5 => PastMark
      BY <2>4 DEF Place, PastMark
    <3>3. PastMark => disk.stagedState[K] # Bare
      BY <1>1 DEF PositionSound
    <3>4. upgrader.op = "apply" /\ upgrader.n <= 8 => disk.stateBackup[K] = None
      <4>1. CASE Place("apply", 1)
        <5>1. Fresh(K)
          BY <1>1, <1>10, <4>1 DEF PlansSound
        <5>2. QED
          BY <5>1 DEF Fresh
      <4>2. upgrader.op = "apply" /\ upgrader.n <= 9 => disk.stateBackup[K] = None
        BY <1>1 DEF PositionSound
      <4>3. QED
        BY <1>1, <4>2
    <3>5. ~Place("apply", 12) /\ ~Place("resume", 10) /\ ~Place("rollback", 3)
      BY <2>4 DEF Place
    <3>6. QED
      BY <1>2, <2>1, <2>5, <3>1, <3>2, <3>3, <3>4, <3>5, NextPosition
  <2>8. QED
    BY <2>6, <2>7
<1>16. QED
  BY <1>8, <1>9, <1>12, <1>13, <1>14, <1>15 DEF UpgradeInv

LEMMA WorkKeeps == ASSUME UpgradeInv, Work PROVE UpgradeInv'
<1>1. CASE Publish
  <2>1. PICK phase \in Phases : /\ phase = Path[upgrader.op][upgrader.n]
                                /\ journal' = [phase |-> phase, plan |-> K]
    BY <1>1 DEF Publish
  <2>2. upgrader # None /\ Advances /\ disk' = disk
    BY <1>1 DEF Publish
  <2>3. QED
    BY <2>1, <2>2, PublishKeepsIt
<1>2. QED
  BY <1>1, BackUpKeeps, IdentifyKeeps, StageConfigKeeps, MakeStageKeeps, MarkStageKeeps,
     MoveStateKeeps, ActivateStateKeeps, ActivateConfigKeeps, CheckKeeps, QuarantineKeeps,
     RestoreStateKeeps, RestoreConfigKeeps DEF Work


\* A command that fails leaves the disk as it is, and at most says so in the journal.
LEMMA FailingKeeps ==
    ASSUME UpgradeInv, upgrader # None, Failed, mishaps' \in 0..MaxMishaps
    PROVE  UpgradeInv'
<1>1. /\ UpgradeTypeOK /\ PlansSound /\ LayoutSound /\ NoStateLost /\ ConfigRecoverable
      /\ CommandSound /\ K \in Plans /\ upgrader.n \in 1..13
  BY PathStep DEF UpgradeInv, UpgraderSound
<1>2. upgrader' = None /\ UNCHANGED <<disk, plans, written>>
  BY DEF Failed
<1>3. UpgraderSound'
  BY <1>2 DEF UpgraderSound
<1>4. NoStateLost'
  BY <1>1, <1>2 DEF NoStateLost
<1>5. Marked' = Marked
  BY <1>2 DEF Marked
<1>6. CASE journal' = journal
  <2>1. Phase' = Phase /\ Current' = Current /\ Open' = Open
    BY <1>6 DEF Phase, Current, Open
  <2>2. UpgradeTypeOK'
    BY <1>1, <1>2, <1>6 DEF UpgradeTypeOK
  <2>3. PlansSound'
    BY <1>1, <1>2, <1>6, <2>1 DEF PlansSound, Fresh
  <2>4. LayoutSound'
    BY <1>1, <1>2, <1>5, <1>6, <2>1 DEF LayoutSound
  <2>5. ConfigRecoverable'
    BY <1>1, <1>2, <1>6, <2>1 DEF ConfigRecoverable
  <2>6. QED
    BY <1>3, <1>4, <2>2, <2>3, <2>4, <2>5 DEF UpgradeInv
<1>7. CASE journal' # journal
  <2>1. upgrader.op = "apply" /\ upgrader.n > 1 /\ journal' = [phase |-> "failed", plan |-> K]
    BY <1>7 DEF Failed
  <2>2. ~Place("apply", 1) /\ upgrader.op # "rollback"
    BY <2>1 DEF Place
  <2>3. journal # None /\ journal.plan = K /\ ~Open /\ Phase # "verified" /\ Current = K
    BY <1>1, <2>2, JournalIs DEF CommandSound
  <2>4. PICK phase \in Phases : phase = "failed"
    BY DEF Phases
  <2>5. /\ journal' \in Entries /\ journal' # None /\ journal'.phase = "failed"
        /\ journal'.plan = K
    BY <1>1, <2>1, <2>4, JournalIs
  <2>6. Phase' = "failed" /\ Current' = K /\ ~Open'
    BY <2>5 DEF Phase, Current, Open
  <2>7. UpgradeTypeOK'
    BY <1>1, <1>2, <2>5 DEF UpgradeTypeOK
  <2>8. PlansSound'
    BY <1>1, <1>2, <2>3, <2>5, <2>6 DEF PlansSound, Fresh
  <2>9. ~(written.new[K] > 0)
    BY <1>1, <2>3, JournalIs DEF LayoutSound
  <2>10. LayoutSound'
    BY <1>1, <1>2, <1>5, <2>3, <2>5, <2>6, <2>9 DEF LayoutSound
  <2>11. ConfigRecoverable'
    BY <1>1, <1>2, <2>3, <2>5, <2>6 DEF ConfigRecoverable
  <2>12. QED
    BY <1>3, <1>4, <2>7, <2>8, <2>10, <2>11 DEF UpgradeInv
<1>8. QED
  BY <1>6, <1>7

\* A command begins with what it relies on.
LEMMA BeginningKeeps ==
    ASSUME UpgradeInv, NEW op \in {"apply", "resume", "rollback"}, NEW k \in Plans,
           Begins(op, k), plans[k] # None,
           op = "apply" => /\ Open /\ k > Current
                           /\ disk.config = plans[k].config /\ disk.state = plans[k].state,
           op # "apply" => journal # None /\ journal.plan = k,
           op = "resume" => ~Open /\ Phase # "verified"
    PROVE  UpgradeInv'
<1>1. /\ UpgradeTypeOK /\ PlansSound /\ LayoutSound /\ NoStateLost /\ ConfigRecoverable
      /\ upgrader = None /\ UNCHANGED <<disk, journal, plans, mishaps, written>>
      /\ upgrader' = [op |-> op, plan |-> k, n |-> 1]
  BY DEF UpgradeInv, Begins
<1>2. /\ upgrader' \in Commands /\ upgrader'.op = op /\ upgrader'.plan = k /\ upgrader'.n = 1
  <2>1. op \in DOMAIN Path
    BY PathIs
  <2>2. 1 \in 1..13
    OBVIOUS
  <2>3. QED
    BY <1>1, <2>1, <2>2 DEF Commands
<1>3. upgrader'.n <= Len(Path[upgrader'.op])
  <2>1. PICK last \in {13, 11, 4} : last = Len(Path[op])
    BY PathIs
  <2>2. Len(Path[upgrader'.op]) = last /\ upgrader'.n = 1
    BY <1>2, <2>1
  <2>3. QED
    BY <2>2
<1>4. UpgradeTypeOK'
  BY <1>1, <1>2, <1>3 DEF UpgradeTypeOK
<1>5. /\ Phase' = Phase /\ Current' = Current /\ Open' = Open /\ Marked' = Marked
  BY <1>1 DEF Phase, Current, Open, Marked
<1>6. PlansSound'
  BY <1>1, <1>5 DEF PlansSound, Fresh
<1>7. LayoutSound'
  BY <1>1, <1>5 DEF LayoutSound
<1>8. NoStateLost' /\ ConfigRecoverable'
  BY <1>1, <1>5 DEF NoStateLost, ConfigRecoverable
<1>9. K' = k /\ The' = plans[k]
  BY <1>1, <1>2 DEF K, The
<1>10. CommandSound'
  BY <1>1, <1>2, <1>5, <1>9 DEF CommandSound, AtFirst, Place
<1>11. PositionSound'
  <2>1. op = "apply" => disk.stateBackup[k] = None
    BY <1>1 DEF PlansSound, Fresh
  <2>2. ~PastBackup' /\ ~PastMark' /\ ~Checked'
    BY <1>2 DEF PastBackup, PastMark, Checked, Place
  <2>3. QED
    BY <1>1, <1>2, <1>9, <2>1, <2>2 DEF PositionSound
<1>12. QED
  BY <1>4, <1>6, <1>7, <1>8, <1>10, <1>11 DEF UpgradeInv, UpgraderSound

LEMMA BeginningsOfUpgrade ==
    ASSUME UpgradeInv, (\E k \in Plans : Apply(k)) \/ Resume \/ Rollback
    PROVE  UpgradeInv'
<1>1. UpgradeTypeOK /\ PlansSound
  BY DEF UpgradeInv
<1>2. ASSUME NEW k \in Plans, Apply(k) PROVE UpgradeInv'
  <2>1. /\ Open /\ plans[k] # None /\ Begins("apply", k)
        /\ plans[k].config = disk.config /\ plans[k].state = disk.state
        /\ plans[k].prior = journal
    <3>1. Open /\ plans[k] # None /\ Begins("apply", k) /\ plans[k] = Observed(k)
      BY <1>2 DEF Apply
    <3>2. QED
      BY <3>1 DEF Observed
  <2>2. k > Current
    <3>1. CASE journal = None
      BY <1>1, <3>1, JournalIs, ValuesAre
    <3>2. CASE journal # None
      <4>1. journal.plan < k
        BY <1>1, <2>1, <3>2 DEF PlansSound
      <4>2. QED
        BY <1>1, <3>2, <4>1, JournalIs, ValuesAre
    <3>3. QED
      BY <3>1, <3>2
  <2>3. QED
    BY <2>1, <2>2, BeginningKeeps
<1>3. ASSUME NEW op \in {"resume", "rollback"}, journal # None, Begins(op, journal.plan),
             op = "resume" => ~Open /\ Phase # "verified"
      PROVE  UpgradeInv'
  <2>1. PICK k \in Plans : k = journal.plan /\ plans[k] # None
    BY <1>1, <1>3, JournalIs DEF PlansSound
  <2>2. Begins(op, k)
    BY <1>3, <2>1
  <2>3. QED
    BY <1>3, <2>1, <2>2, BeginningKeeps
<1>4. Resume => journal # None /\ Begins("resume", journal.plan) /\ ~Open /\ Phase # "verified"
  BY DEF Resume, Open, Phase
<1>5. Rollback => journal # None /\ Begins("rollback", journal.plan)
  BY DEF Rollback
<1>6. QED
  BY <1>2, <1>3, <1>4, <1>5

\* What others do while no command is under way, or to the identity.
LEMMA OthersKeep ==
    ASSUME UpgradeInv, journal' = journal, upgrader' = upgrader, mishaps' = mishaps, plans' = plans,
           disk' \in Layouts, disk'.configBackup = disk.configBackup,
           disk'.stateBackup = disk.stateBackup, disk'.stagedState = disk.stagedState,
           written' \in [legacy : 0..MaxVersion, new : [Plans -> 0..MaxVersion]],
           disk'.config = disk.config \/ (Open /\ disk'.config \in Contents),
           upgrader = None \/ (disk'.config = disk.config /\ disk'.state = disk.state),
           \/ disk'.state = disk.state /\ written' = written
           \/ ~Marked /\ disk'.state \in Contents /\ Open /\ written'.new = written.new
           \/ Marked /\ disk'.state \in News(journal.plan) /\ Phase = "verified"
              /\ \A k \in Plans : k # journal.plan => written'.new[k] = written.new[k],
           NoStateLost'
    PROVE  UpgradeInv'
<1>1. /\ UpgradeTypeOK /\ PlansSound /\ LayoutSound /\ NoStateLost /\ ConfigRecoverable
      /\ UpgraderSound
  BY DEF UpgradeInv
<1>2. Phase' = Phase /\ Current' = Current /\ Open' = Open
  BY DEF Phase, Current, Open
<1>3. UpgradeTypeOK'
  BY <1>1 DEF UpgradeTypeOK
<1>4. Marked' => Marked /\ disk'.state \in News(journal.plan)
  BY <1>1, ValuesAre DEF Marked, LayoutSound
<1>5. \A k \in Plans : k > Current => written'.new[k] = written.new[k]
  <2>1. ASSUME NEW k \in Plans, k > Current, Marked PROVE k # journal.plan
    BY <1>1, <2>1, JournalIs, ValuesAre DEF LayoutSound
  <2>2. QED
    BY <2>1
<1>6. PlansSound'
  BY <1>1, <1>2, <1>5 DEF PlansSound, Fresh
<1>7. LayoutSound'
  <2>1. Phase = "verified" => ~Open
    BY <1>1, JournalIs
  <2>2. ASSUME NEW k \in Plans, written'.new[k] > 0, k = Current
        PROVE  Phase \in {"verified", "rolled_back"}
    BY <1>1, <2>2 DEF LayoutSound
  <2>3. QED
    BY <1>1, <1>2, <1>4, <2>1, <2>2 DEF LayoutSound
<1>8. ConfigRecoverable'
  BY <1>1, <1>2 DEF ConfigRecoverable
<1>9. UpgraderSound'
  <2>1. CASE upgrader = None
    BY <2>1 DEF UpgraderSound
  <2>2. CASE upgrader # None
    <3>1. K' = K /\ The' = The /\ Marked' = Marked /\ IsNew' = IsNew
      BY <2>2 DEF K, The, Marked, IsNew
    <3>2. CommandSound'
      BY <1>1, <1>2, <2>2, <3>1 DEF UpgraderSound, CommandSound, AtFirst, Place
    <3>3. PositionSound'
      BY <1>1, <2>2, <3>1 DEF UpgraderSound, PositionSound, PastBackup, PastMark, Checked, Place
    <3>4. QED
      BY <3>2, <3>3 DEF UpgraderSound
  <2>3. QED
    BY <2>1, <2>2
<1>10. QED
  BY <1>3, <1>6, <1>7, <1>8, <1>9 DEF UpgradeInv


LEMMA RuntimeKeeps == ASSUME UpgradeInv, RuntimeWrites PROVE UpgradeInv'
<1>1. /\ UpgradeTypeOK /\ LayoutSound /\ NoStateLost /\ upgrader = None /\ Admitted
      /\ UNCHANGED <<journal, plans, upgrader, mishaps>>
  BY DEF UpgradeInv, RuntimeWrites
<1>2. disk \in Layouts /\ written \in [legacy : 0..MaxVersion, new : [Plans -> 0..MaxVersion]]
  BY <1>1 DEF UpgradeTypeOK
<1>3. CASE ~Marked
  <2>1. /\ written.legacy < MaxVersion
        /\ written' = [written EXCEPT !.legacy = written.legacy + 1]
        /\ disk' = [disk EXCEPT !.state = Legacy(written.legacy + 1)]
    BY <1>3 DEF RuntimeWrites
  <2>2. PICK v \in Versions : v = written.legacy + 1
    BY <1>2, <2>1, UpgradeAssumption DEF Versions
  <2>3. v \in 0..MaxVersion /\ v \in Nat
    BY UpgradeAssumption DEF Versions
  <2>4. PICK new \in Contents : new = Legacy(v)
    BY <2>2, ValuesAre
  <2>5. written' = [written EXCEPT !.legacy = v] /\ disk' = [disk EXCEPT !.state = new]
    BY <2>1, <2>2, <2>4
  <2>6. /\ disk' \in Layouts /\ disk'.config = disk.config /\ disk'.state = new
        /\ disk'.configBackup = disk.configBackup /\ disk'.stateBackup = disk.stateBackup
        /\ disk'.stagedState = disk.stagedState
    BY <1>2, <2>5 DEF Layouts
  <2>7. /\ written' \in [legacy : 0..MaxVersion, new : [Plans -> 0..MaxVersion]]
        /\ written'.legacy = v /\ written'.new = written.new
    BY <1>2, <2>3, <2>5
  <2>8. NoStateLost'
    <3>1. ASSUME NEW k \in Plans, written.new[k] > 0
          PROVE  New(k, written.new[k]) \in {disk'.state, disk'.stagedState[k]}
      <4>1. written.new[k] \in Versions
        BY <1>2, <3>1 DEF Versions
      <4>2. New(k, written.new[k]) \in AllNews
        BY <4>1, ValuesAre
      <4>3. New(k, written.new[k]) \in {disk.state, disk.stagedState[k]}
        BY <1>1, <3>1 DEF NoStateLost
      <4>4. QED
        BY <1>3, <2>6, <4>2, <4>3 DEF Marked
    <3>2. disk'.state = Legacy(written'.legacy)
      BY <2>4, <2>6, <2>7
    <3>3. QED
      BY <2>7, <3>1, <3>2 DEF NoStateLost
  <2>9. Open
    BY <1>1, <1>3 DEF Admitted
  <2>10. QED
    BY <1>1, <1>3, <2>6, <2>7, <2>8, <2>9, OthersKeep
<1>4. CASE Marked
  <2>1. /\ disk.state[3] < MaxVersion
        /\ written' = [written EXCEPT !.new[disk.state[2]] = disk.state[3] + 1]
        /\ disk' = [disk EXCEPT !.state = New(disk.state[2], disk.state[3] + 1)]
    BY <1>4 DEF RuntimeWrites
  <2>2. Phase = "verified" /\ journal # None /\ disk.state \in News(journal.plan)
    BY <1>1, <1>4 DEF Admitted, LayoutSound
  <2>3. PICK k \in Plans : k = journal.plan /\ k = disk.state[2] /\ k = Current
    BY <1>1, <2>2, ValuesAre, JournalIs
  <2>4. disk.state[3] \in Versions
    BY <1>4, ValuesAre DEF Marked
  <2>5. PICK v \in Versions : v = disk.state[3] + 1
    BY <2>1, <2>4, UpgradeAssumption DEF Versions
  <2>6. v \in 0..MaxVersion /\ v \in Nat /\ v > 0
    BY UpgradeAssumption DEF Versions
  <2>7. PICK new \in News(k) : new = New(k, v)
    BY ValuesAre
  <2>8. new \in AllNews /\ new \notin Contents
    BY <2>7, ValuesAre
  <2>9. written' = [written EXCEPT !.new[k] = v] /\ disk' = [disk EXCEPT !.state = new]
    BY <2>1, <2>3, <2>5, <2>7
  <2>10. /\ disk' \in Layouts /\ disk'.config = disk.config /\ disk'.state = new
         /\ disk'.configBackup = disk.configBackup /\ disk'.stateBackup = disk.stateBackup
         /\ disk'.stagedState = disk.stagedState
    BY <1>2, <2>8, <2>9 DEF Layouts
  <2>11. /\ written' \in [legacy : 0..MaxVersion, new : [Plans -> 0..MaxVersion]]
         /\ written'.legacy = written.legacy /\ written'.new[k] = v
         /\ \A j \in Plans : j # k => written'.new[j] = written.new[j]
    BY <1>2, <2>6, <2>9
  <2>12. NoStateLost'
    <3>1. ASSUME NEW j \in Plans, written'.new[j] > 0
          PROVE  New(j, written'.new[j]) \in {disk'.state, disk'.stagedState[j]}
      <4>1. CASE j = k
        BY <2>7, <2>10, <2>11, <4>1
      <4>2. CASE j # k
        BY <1>1, <2>3, <2>10, <2>11, <3>1, <4>2, OthersQuarantined
      <4>3. QED
        BY <4>1, <4>2
    <3>2. written.legacy > 0 => \E j \in Plans : disk'.stateBackup[j] = Legacy(written.legacy)
      <4>1. written.legacy > 0 => Legacy(written.legacy) \in Contents
        <5>1. written.legacy > 0 => written.legacy \in Versions
          BY <1>2 DEF Versions
        <5>2. QED
          BY <5>1, ValuesAre
      <4>2. disk.state \notin Contents
        BY <1>4, ValuesAre DEF Marked
      <4>3. QED
        BY <1>1, <2>10, <4>1, <4>2 DEF NoStateLost
    <3>3. QED
      BY <2>11, <3>1, <3>2 DEF NoStateLost
  <2>13. QED
    BY <1>1, <1>4, <2>2, <2>3, <2>7, <2>10, <2>11, <2>12, OthersKeep
<1>5. QED
  BY <1>3, <1>4

LEMMA EditsKeep == ASSUME UpgradeInv, UserEdits \/ SomebodyIdentifies PROVE UpgradeInv'
<1>1. UpgradeTypeOK /\ NoStateLost /\ disk \in Layouts /\ UNCHANGED <<journal, plans, upgrader, mishaps, written>>
      /\ written \in [legacy : 0..MaxVersion, new : [Plans -> 0..MaxVersion]]
  BY DEF UpgradeInv, UpgradeTypeOK, UserEdits, SomebodyIdentifies
<1>2. CASE UserEdits
  <2>1. /\ upgrader = None /\ Open /\ disk.config \in Contents /\ disk.config[2] < MaxVersion
        /\ disk' = [disk EXCEPT !.config = Legacy(disk.config[2] + 1)]
    BY <1>2 DEF UserEdits
  <2>2. disk.config[2] \in Versions
    BY <2>1, ValuesAre
  <2>3. disk.config[2] + 1 \in Versions
    BY <2>1, <2>2, UpgradeAssumption DEF Versions
  <2>4. PICK new \in Contents : new = Legacy(disk.config[2] + 1)
    BY <2>3, ValuesAre
  <2>5. disk' = [disk EXCEPT !.config = new]
    BY <2>1, <2>4
  <2>6. /\ disk' \in Layouts /\ disk'.config = new /\ disk'.state = disk.state
        /\ disk'.configBackup = disk.configBackup /\ disk'.stateBackup = disk.stateBackup
        /\ disk'.stagedState = disk.stagedState
    BY <1>1, <2>5 DEF Layouts
  <2>7. NoStateLost'
    BY <1>1, <2>6 DEF NoStateLost
  <2>8. QED
    BY <1>1, <2>1, <2>6, <2>7, OthersKeep
<1>3. CASE SomebodyIdentifies
  <2>1. disk' = [disk EXCEPT !.id = MaxPlans + 1]
    BY <1>3 DEF SomebodyIdentifies
  <2>2. MaxPlans + 1 \in 0..(MaxPlans + 1)
    BY UpgradeAssumption
  <2>3. /\ disk' \in Layouts /\ disk'.config = disk.config /\ disk'.state = disk.state
        /\ disk'.configBackup = disk.configBackup /\ disk'.stateBackup = disk.stateBackup
        /\ disk'.stagedState = disk.stagedState
    BY <1>1, <2>1, <2>2 DEF Layouts
  <2>4. NoStateLost'
    BY <1>1, <2>3 DEF NoStateLost
  <2>5. QED
    BY <1>1, <2>3, <2>4, OthersKeep
<1>4. QED
  BY <1>2, <1>3

\* A preview is the latest plan, and on the journal of an earlier one.
LEMMA PreviewKeeps == ASSUME UpgradeInv, NEW k \in Plans, Preview(k) PROVE UpgradeInv'
<1>1. /\ UpgradeTypeOK /\ PlansSound /\ LayoutSound /\ NoStateLost /\ ConfigRecoverable
      /\ UpgraderSound /\ UNCHANGED <<disk, journal, upgrader, mishaps, written>>
      /\ plans' = [plans EXCEPT ![k] = Observed(k)] /\ plans[k] = None
      /\ \A j \in Plans : j < k => plans[j] # None
      /\ Open /\ ~Marked /\ disk.config \in Contents
  BY DEF UpgradeInv, Preview
<1>2. PICK plan : plan = Observed(k)
  OBVIOUS
<1>3. plan \in Observations /\ plan.prior = journal
  <2>1. plan = [config |-> disk.config, state |-> disk.state,
                id |-> IF disk.id = 0 THEN k ELSE disk.id, existed |-> disk.id # 0,
                prior |-> journal]
    BY <1>2 DEF Observed
  <2>2. disk.config \in Contents /\ disk.state \in Contents \cup {None}
    BY <1>1 DEF UpgradeTypeOK, Layouts, Marked
  <2>3. (IF disk.id = 0 THEN k ELSE disk.id) \in 1..(MaxPlans + 1)
    BY <1>1, UpgradeAssumption DEF UpgradeTypeOK, Layouts, Plans
  <2>4. journal \in [phase : {"rolled_back"}, plan : Plans] \cup {None}
    <3>1. CASE journal = None
      BY <3>1
    <3>2. CASE journal # None
      <4>1. journal \in Entries /\ journal.phase \in Phases /\ Phase = journal.phase
        BY <1>1, <3>2, JournalIs
      <4>2. journal.phase = "rolled_back"
        BY <1>1, <4>1, JournalIs DEF Phases
      <4>3. QED
        BY <4>1, <4>2 DEF Entries
    <3>3. QED
      BY <3>1, <3>2
  <2>5. (disk.id # 0) \in BOOLEAN
    OBVIOUS
  <2>6. QED
    BY <2>1, <2>2, <2>3, <2>4, <2>5 DEF Observations
<1>4. plan # None
  BY <1>3, UpgradeAssumption
<1>5. /\ plans' \in [Plans -> Observations \cup {None}] /\ plans'[k] = plan
      /\ \A j \in Plans : j # k => plans'[j] = plans[j]
  BY <1>1, <1>2, <1>3 DEF UpgradeTypeOK
<1>6. UpgradeTypeOK'
  BY <1>1, <1>5 DEF UpgradeTypeOK
<1>7. /\ Phase' = Phase /\ Current' = Current /\ Open' = Open /\ Marked' = Marked
  BY <1>1 DEF Phase, Current, Open, Marked
<1>8. PlansSound'
  <2>1. journal # None => journal.plan \in Plans /\ plans[journal.plan] # None
    BY <1>1, JournalIs DEF PlansSound
  <2>2. journal # None => journal.plan < k
    <3>1. SUFFICES ASSUME journal # None PROVE journal.plan < k
      OBVIOUS
    <3>2. PICK j \in Plans : j = journal.plan
      BY <2>1, <3>1
    <3>3. ~(k < j) /\ j # k
      BY <1>1, <2>1, <3>1, <3>2 DEF PlansSound
    <3>4. QED
      BY <3>2, <3>3, ValuesAre
  <2>3. ASSUME NEW i \in Plans, plans'[i] # None
        PROVE  /\ \A j \in Plans : j < i => plans'[j] # None
               /\ plans'[i].prior # None => plans'[i].prior.plan < i
    <3>1. CASE i = k
      BY <1>1, <1>3, <1>4, <1>5, <2>2, <3>1
    <3>2. CASE i # k
      BY <1>1, <1>4, <1>5, <2>3, <3>2 DEF PlansSound
    <3>3. QED
      BY <3>1, <3>2
  <2>4. journal # None => plans'[journal.plan] # None
    BY <1>4, <1>5, <2>1
  <2>5. \A i \in Plans : i > Current => Fresh(i)'
    BY <1>1 DEF PlansSound, Fresh
  <2>6. QED
    BY <1>1, <1>7, <2>3, <2>4, <2>5 DEF PlansSound
<1>9. LayoutSound'
  BY <1>1, <1>7 DEF LayoutSound
<1>10. NoStateLost' /\ ConfigRecoverable'
  BY <1>1, <1>7 DEF NoStateLost, ConfigRecoverable
<1>11. UpgraderSound'
  <2>1. CASE upgrader = None
    BY <1>1, <2>1 DEF UpgraderSound
  <2>2. CASE upgrader # None
    <3>1. K # k /\ K \in Plans /\ K' = K
      BY <1>1, <2>2, PathStep DEF UpgraderSound, CommandSound, K
    <3>2. The' = The
      BY <1>1, <1>5, <3>1 DEF The, K
    <3>3. plans'[K] = plans[K] /\ (IsNew' <=> IsNew)
      BY <1>1, <1>5, <3>1 DEF IsNew
    <3>4. CommandSound'
      BY <1>1, <1>7, <2>2, <3>1, <3>2, <3>3 DEF UpgraderSound, CommandSound, AtFirst, Place
    <3>5. PositionSound'
      BY <1>1, <1>7, <2>2, <3>1, <3>2, <3>3
         DEF UpgraderSound, PositionSound, PastBackup, PastMark, Checked, Place
    <3>6. QED
      BY <3>4, <3>5 DEF UpgraderSound
  <2>3. QED
    BY <2>1, <2>2
<1>12. QED
  BY <1>6, <1>8, <1>9, <1>10, <1>11 DEF UpgradeInv

LEMMA UpgradeStarts == UpgradeInit => UpgradeInv
<1>1. SUFFICES ASSUME UpgradeInit PROVE UpgradeInv
  OBVIOUS
<1>2. PICK present \in BOOLEAN :
          /\ disk = [config |-> Legacy(1), state |-> IF present THEN Legacy(1) ELSE None, id |-> 0,
                     configBackup |-> [k \in Plans |-> None], stagedConfig |-> [k \in Plans |-> None],
                     stateBackup |-> [k \in Plans |-> None], stagedState |-> [k \in Plans |-> None]]
          /\ written = [legacy |-> IF present THEN 1 ELSE 0, new |-> [k \in Plans |-> 0]]
  BY <1>1 DEF UpgradeInit
<1>3. journal = None /\ plans = [k \in Plans |-> None] /\ upgrader = None /\ mishaps = 0
  BY <1>1 DEF UpgradeInit
<1>4. 1 \in Versions /\ 0 \in 0..MaxVersion /\ 1 \in 0..MaxVersion /\ 0 \in 0..MaxMishaps
      /\ 0 \in 0..(MaxPlans + 1)
  BY UpgradeAssumption DEF Versions
<1>5. PICK old \in Contents : old = Legacy(1)
  BY <1>4, ValuesAre
<1>6. PICK state \in Contents \cup {None} :
          /\ state = IF present THEN Legacy(1) ELSE None
          /\ present => state = Legacy(1)
  BY <1>5
<1>7. PICK v \in {0, 1} : v = (IF present THEN 1 ELSE 0) /\ (v > 0 => state = Legacy(v))
  <2>1. CASE present
    BY <1>6, <2>1
  <2>2. CASE ~present
    BY <2>2
  <2>3. QED
    BY <2>1, <2>2
<1>8. disk = [config |-> old, state |-> state, id |-> 0,
              configBackup |-> [k \in Plans |-> None], stagedConfig |-> [k \in Plans |-> None],
              stateBackup |-> [k \in Plans |-> None], stagedState |-> [k \in Plans |-> None]]
  BY <1>2, <1>5, <1>6
<1>9. /\ disk \in Layouts /\ disk.config = old /\ disk.state = state
      /\ \A k \in Plans : /\ disk.configBackup[k] = None /\ disk.stateBackup[k] = None
                          /\ disk.stagedState[k] = None
  BY <1>4, <1>8 DEF Layouts
<1>10. written = [legacy |-> v, new |-> [k \in Plans |-> 0]]
  BY <1>2, <1>7
<1>11. /\ written \in [legacy : 0..MaxVersion, new : [Plans -> 0..MaxVersion]]
       /\ written.legacy = v /\ \A k \in Plans : written.new[k] = 0
  BY <1>4, <1>7, <1>10
<1>12. UpgradeTypeOK
  BY <1>3, <1>4, <1>9, <1>11 DEF UpgradeTypeOK
<1>13. ~Marked /\ Open /\ Phase = "none" /\ Current = 0
  BY <1>3, <1>9, ValuesAre DEF Marked, Open, Phase, Current
<1>14. PlansSound
  BY <1>3, <1>9, <1>11 DEF PlansSound, Fresh
<1>15. LayoutSound
  BY <1>9, <1>11, <1>13 DEF LayoutSound
<1>16. NoStateLost /\ ConfigRecoverable
  BY <1>7, <1>9, <1>11, <1>13 DEF NoStateLost, ConfigRecoverable
<1>17. QED
  BY <1>3, <1>12, <1>14, <1>15, <1>16 DEF UpgradeInv, UpgraderSound

LEMMA UpgradeKeeps == UpgradeInv /\ [UpgradeNext]_uvars => UpgradeInv'
<1>1. ASSUME UpgradeInv, UNCHANGED uvars PROVE UpgradeInv'
  <2>1. UNCHANGED <<disk, journal, plans, upgrader, mishaps, written>>
    BY <1>1 DEF uvars
  <2>2. /\ UpgradeTypeOK /\ NoStateLost /\ disk \in Layouts
        /\ written \in [legacy : 0..MaxVersion, new : [Plans -> 0..MaxVersion]]
    BY <1>1 DEF UpgradeInv, UpgradeTypeOK
  <2>3. NoStateLost'
    BY <2>1, <2>2 DEF NoStateLost
  <2>4. QED
    BY <1>1, <2>1, <2>2, <2>3, OthersKeep
<1>2. ASSUME UpgradeInv, Refused \/ Mishap PROVE UpgradeInv'
  <2>1. mishaps \in 0..MaxMishaps
    BY <1>2 DEF UpgradeInv, UpgradeTypeOK
  <2>2. upgrader # None /\ Failed /\ mishaps' \in 0..MaxMishaps
    BY <1>2, <2>1, UpgradeAssumption DEF Refused, Mishap
  <2>3. QED
    BY <1>2, <2>2, FailingKeeps
<1>3. ASSUME UpgradeInv, UpgradeNext PROVE UpgradeInv'
  BY <1>2, <1>3, RuntimeKeeps, EditsKeep, PreviewKeeps, BeginningsOfUpgrade, WorkKeeps DEF UpgradeNext
<1>4. QED
  BY <1>1, <1>3

\* What a command may rely on, whatever was stopped before it (applyV02Upgrade,
\* resumeV02Upgrade, rollbackV02Upgrade): its plan has left no trace before it is applied,
\* and afterwards what its path has behind it is on the disk.
THEOREM UpgradeInvariant == UpgradeSpec => []UpgradeInv
<1>1. QED
  BY UpgradeStarts, UpgradeKeeps, PTL DEF UpgradeSpec

LEMMA SafetyOfInv == UpgradeInv => GenerationsAreSafe
<1>1. ASSUME UpgradeInv PROVE OnlyWholeGenerations
  <2>1. CASE Marked
    <3>1. Admitted => Phase = "verified"
      BY <2>1 DEF Admitted
    <3>2. QED
      BY <1>1, <2>1, <3>1 DEF UpgradeInv, LayoutSound, OnlyWholeGenerations
  <2>2. CASE ~Marked
    BY <1>1, <2>2 DEF UpgradeInv, LayoutSound, OnlyWholeGenerations, Admitted
  <2>3. QED
    BY <2>1, <2>2
<1>2. QED
  BY <1>1 DEF UpgradeInv, GenerationsAreSafe

\* Wherever the upgrade stops, a runtime meets one generation, and nothing that was written
\* or configured is lost.
THEOREM GenerationsAlwaysSafe == UpgradeSpec => []GenerationsAreSafe
<1>1. QED
  BY SafetyOfInv, UpgradeInvariant, PTL

-----------------------------------------------------------------------------
(***************************************************************************)
(* UpgradeLock, for any number of processes and attempts.  The argument:   *)
(* whoever judged an owner stale knows a process that is dead and stays    *)
(* so, and since it looked at the file it will remove, that file is there  *)
(* until another process removes it.                                       *)
(***************************************************************************)

LockSound ==
    /\ \A p \in Upgraders : lstep[p] \in {"claim", "compare", "verify", "unlink"} => read[p] \in dead
    /\ \A p \in Upgraders : lstep[p] \in {"compare", "verify", "unlink"} => claimed[p] # None
    /\ \A p \in Upgraders :
          lstep[p] \in {"verify", "unlink"} => owner = claimed[p] \/ p \in overtaken
    /\ \A p \in Upgraders : lstep[p] = "unlink" => claimed[p] = read[p]
    /\ \A p \in Upgraders : lstep[p] = "releasing" => owner = p \/ p \in overtaken
    /\ \A p \in Upgraders : lstep[p] = "link" => tries[p] < MaxAttempts
    /\ \A p \in Upgraders : lstep[p] = "idle" => tries[p] = 0

LockInv == LockTypeOK /\ LockSound /\ LiveLockStays

\* What a turn does to the step of its process and of the others.
LEMMA TurnIs ==
    ASSUME LockTypeOK, NEW p \in Upgraders, NEW next \in LockSteps, Turns(p, next)
    PROVE  /\ p \notin dead /\ dead' = dead /\ lstep' \in [Upgraders -> LockSteps]
           /\ lstep'[p] = next /\ \A q \in Upgraders : q # p => lstep'[q] = lstep[q]
  BY DEF Turns, Live, LockTypeOK

LEMMA AgainIs ==
    ASSUME LockTypeOK, NEW p \in Upgraders
    PROVE  /\ Again(p) \in {"link", "over"} /\ Again(p) \in LockSteps
           /\ Again(p) = "link" => tries[p] < MaxAttempts
  BY DEF Again, LockSteps

\* A step of a process that leaves the lock file, and who is dead, as they are.
LEMMA QuietKeeps ==
    ASSUME LockInv, NEW p \in Upgraders, NEW next \in LockSteps, Turns(p, next),
           owner' = owner, lost' = lost, tries' = tries,
           overtaken' = overtaken \/ overtaken' = overtaken \ {p},
           read' = read \/ (lstep[p] = "look" /\ read' = [read EXCEPT ![p] = owner]),
           claimed' = claimed \/ (lstep[p] = "claim" /\ claimed' = [claimed EXCEPT ![p] = owner]),
           next \in {"claim", "compare", "verify", "unlink"} => read'[p] \in dead,
           next \in {"compare", "verify", "unlink"} => claimed'[p] # None,
           next \in {"verify", "unlink"} => owner = claimed'[p] \/ p \in overtaken',
           next = "unlink" => claimed'[p] = read'[p],
           next = "link" => tries[p] < MaxAttempts,
           next \notin {"idle", "held"},
           next = "releasing" => owner = p
    PROVE  LockInv'
<1>1. LockTypeOK /\ LockSound /\ LiveLockStays
  BY DEF LockInv
<1>2. /\ p \notin dead /\ dead' = dead /\ lstep' \in [Upgraders -> LockSteps]
      /\ lstep'[p] = next /\ \A q \in Upgraders : q # p => lstep'[q] = lstep[q]
  BY <1>1, TurnIs
<1>3. /\ read' \in [Upgraders -> Upgraders \cup {None}]
      /\ claimed' \in [Upgraders -> Upgraders \cup {None}]
      /\ \A q \in Upgraders : q # p => read'[q] = read[q] /\ claimed'[q] = claimed[q]
  BY <1>1 DEF LockTypeOK
<1>4. \A q \in Upgraders : q # p => (q \in overtaken' <=> q \in overtaken)
  OBVIOUS
<1>5. LockTypeOK'
  BY <1>1, <1>2, <1>3 DEF LockTypeOK
<1>6. LockSound'
  BY <1>1, <1>2, <1>3, <1>4 DEF LockSound
<1>7. LiveLockStays'
  BY <1>1, <1>2 DEF LiveLockStays, Live
<1>8. QED
  BY <1>5, <1>6, <1>7 DEF LockInv

LEMMA LinkStepKeeps == ASSUME LockInv, NEW p \in Upgraders, Link(p) PROVE LockInv'
<1>1. /\ LockTypeOK /\ LockSound /\ LiveLockStays /\ lstep[p] = "link" /\ tries[p] < MaxAttempts
      /\ tries' = [tries EXCEPT ![p] = tries[p] + 1]
      /\ UNCHANGED <<read, claimed, overtaken, lost>>
  BY DEF LockInv, LockSound, Link
<1>2. PICK n \in 0..MaxAttempts : n = tries[p] + 1
  BY <1>1, LockAssumption DEF LockTypeOK
<1>3. /\ tries' \in [Upgraders -> 0..MaxAttempts] /\ tries'[p] = n
      /\ \A q \in Upgraders : q # p => tries'[q] = tries[q]
  BY <1>1, <1>2 DEF LockTypeOK
<1>4. PICK next \in {"held", "look"} :
          /\ Turns(p, next)
          /\ \/ next = "held" /\ owner = None /\ owner' = p
             \/ next = "look" /\ owner' = owner
  BY DEF Link
<1>5. /\ p \notin dead /\ dead' = dead /\ lstep' \in [Upgraders -> LockSteps]
      /\ lstep'[p] = next /\ \A q \in Upgraders : q # p => lstep'[q] = lstep[q]
  BY <1>1, <1>4, TurnIs DEF LockSteps
<1>6. LockTypeOK'
  BY <1>1, <1>3, <1>4, <1>5 DEF LockTypeOK
<1>7. \A q \in Upgraders :
          /\ owner = q => owner' = q
          /\ owner = claimed[q] /\ claimed[q] # None => owner' = claimed[q]
  BY <1>4, LockAssumption
<1>8. LockSound'
  BY <1>1, <1>3, <1>4, <1>5, <1>7 DEF LockSound
<1>9. LiveLockStays'
  BY <1>1, <1>4, <1>5, <1>7 DEF LiveLockStays, Live
<1>10. QED
  BY <1>6, <1>8, <1>9 DEF LockInv

\* A removal takes the file of a dead owner, or one's own, unless it was overtaken; and
\* whoever looked at the file that it takes is overtaken by it.
LEMMA RemovalsKeep ==
    ASSUME LockInv, NEW p \in Upgraders, UnlinkStale(p) \/ ReleaseUnlinks(p)
    PROVE  LockInv'
<1>1. LockTypeOK /\ LockSound /\ LiveLockStays
  BY DEF LockInv
<1>2. /\ lstep[p] \in {"unlink", "releasing"} /\ Removes(p) /\ UNCHANGED <<read, claimed, tries>>
      /\ Turns(p, Again(p)) \/ Turns(p, "over")
  BY DEF UnlinkStale, ReleaseUnlinks
<1>3. PICK next \in {"link", "over"} : Turns(p, next) /\ (next = "link" => tries[p] < MaxAttempts)
  BY <1>1, <1>2, AgainIs
<1>4. /\ p \notin dead /\ dead' = dead /\ lstep' \in [Upgraders -> LockSteps]
      /\ lstep'[p] = next /\ \A q \in Upgraders : q # p => lstep'[q] = lstep[q]
  BY <1>1, <1>3, TurnIs DEF LockSteps
<1>5. /\ owner' = None
      /\ overtaken' = overtaken \cup
            {q \in Upgraders \ {p} : lstep[q] \in {"verify", "unlink", "releasing"}}
      /\ lost' = IF p \in overtaken THEN lost \cup ({owner} \ {None, p}) ELSE lost
  BY <1>2 DEF Removes
<1>6. LockTypeOK'
  BY <1>1, <1>2, <1>4, <1>5 DEF LockTypeOK
<1>7. LockSound'
  BY <1>1, <1>2, <1>3, <1>4, <1>5 DEF LockSound
<1>8. p \in overtaken \/ owner = p \/ owner \in dead
  BY <1>1, <1>2 DEF LockSound
<1>9. LiveLockStays'
  <2>1. ASSUME NEW q \in Upgraders, lstep'[q] \in {"held", "releasing"}, q \notin dead
        PROVE  q \in lost'
    <3>1. q # p /\ lstep[q] \in {"held", "releasing"}
      BY <1>4, <2>1
    <3>2. owner = q \/ q \in lost
      BY <1>1, <2>1, <3>1 DEF LiveLockStays, Live
    <3>3. owner = q => p \in overtaken
      BY <1>8, <2>1, <3>1
    <3>4. QED
      BY <1>5, <3>1, <3>2, <3>3, LockAssumption
  <2>2. QED
    BY <1>4, <2>1 DEF LiveLockStays, Live
<1>10. QED
  BY <1>6, <1>7, <1>9 DEF LockInv

\* Whoever is judged stale is dead.
LEMMA StaleIsDead ==
    ASSUME NEW q, NEW view \in Views(q), Stale(view)
    PROVE  q \in dead
  BY DEF Views, Stale

LEMMA LooksKeep ==
    ASSUME LockInv, NEW p \in Upgraders,
           AcquireBegins(p) \/ LookAtOwner(p) \/ Judge(p) \/ ClaimFile(p) \/ CompareFiles(p)
              \/ VerifyClaim(p) \/ ReleaseReads(p)
    PROVE  LockInv'
<1>1. LockTypeOK /\ LockSound
  BY DEF LockInv
<1>2. CASE AcquireBegins(p)
  <2>1. /\ lstep[p] = "idle" /\ Turns(p, "link") /\ "link" \in LockSteps
        /\ UNCHANGED <<owner, read, claimed, tries, overtaken, lost>>
    BY <1>2 DEF AcquireBegins, LockSteps
  <2>2. tries[p] < MaxAttempts
    BY <1>1, <2>1, LockAssumption DEF LockSound
  <2>3. QED
    BY <2>1, <2>2, QuietKeeps
<1>3. CASE LookAtOwner(p)
  <2>1. PICK next \in {"over", "judge"} : next = IF owner = None THEN "over" ELSE "judge"
    OBVIOUS
  <2>2. /\ lstep[p] = "look" /\ Turns(p, next) /\ next \in LockSteps
        /\ read' = [read EXCEPT ![p] = owner]
        /\ UNCHANGED <<owner, claimed, tries, overtaken, lost>>
    BY <1>3, <2>1 DEF LookAtOwner, LockSteps
  <2>3. QED
    BY <2>1, <2>2, QuietKeeps
<1>4. CASE Judge(p)
  <2>1. PICK view \in Views(read[p]) : Turns(p, IF Stale(view) THEN "claim" ELSE "over")
    BY <1>4 DEF Judge
  <2>2. PICK next \in {"claim", "over"} : next = IF Stale(view) THEN "claim" ELSE "over"
    OBVIOUS
  <2>3. next = "claim" => read[p] \in dead
    BY <2>2, StaleIsDead
  <2>4. /\ lstep[p] = "judge" /\ Turns(p, next) /\ next \in LockSteps
        /\ UNCHANGED <<owner, read, claimed, tries, overtaken, lost>>
    BY <1>4, <2>1, <2>2 DEF Judge, LockSteps
  <2>5. QED
    BY <2>2, <2>3, <2>4, QuietKeeps
<1>5. CASE ClaimFile(p)
  <2>1. PICK next \in {"link", "over", "compare"} :
            /\ next = IF owner = None THEN Again(p) ELSE "compare"
            /\ next = "link" => tries[p] < MaxAttempts
            /\ next = "compare" => owner # None
    BY <1>1, AgainIs
  <2>2. /\ lstep[p] = "claim" /\ Turns(p, next) /\ next \in LockSteps
        /\ claimed' = [claimed EXCEPT ![p] = owner]
        /\ UNCHANGED <<owner, read, tries, overtaken, lost>>
    BY <1>5, <2>1 DEF ClaimFile, LockSteps
  <2>3. read[p] \in dead /\ claimed'[p] = owner
    BY <1>1, <2>2 DEF LockSound, LockTypeOK
  <2>4. QED
    BY <2>1, <2>2, <2>3, QuietKeeps
<1>6. CASE CompareFiles(p)
  <2>1. PICK next \in {"link", "over", "verify"} :
            /\ next = IF owner = claimed[p] THEN "verify" ELSE Again(p)
            /\ next = "link" => tries[p] < MaxAttempts
            /\ next = "verify" => owner = claimed[p]
    BY <1>1, AgainIs
  <2>2. /\ lstep[p] = "compare" /\ Turns(p, next) /\ next \in LockSteps
        /\ overtaken' = overtaken \ {p} /\ UNCHANGED <<owner, read, claimed, tries, lost>>
    BY <1>6, <2>1 DEF CompareFiles, Looks, LockSteps
  <2>3. read[p] \in dead /\ claimed[p] # None
    BY <1>1, <2>2 DEF LockSound
  <2>4. QED
    BY <2>1, <2>2, <2>3, QuietKeeps
<1>7. CASE VerifyClaim(p)
  <2>1. PICK view \in Views(claimed[p]) :
            Turns(p, IF claimed[p] = read[p] /\ Stale(view) THEN "unlink" ELSE Again(p))
    BY <1>7 DEF VerifyClaim
  <2>2. PICK next \in {"link", "over", "unlink"} :
            /\ next = IF claimed[p] = read[p] /\ Stale(view) THEN "unlink" ELSE Again(p)
            /\ next = "link" => tries[p] < MaxAttempts
            /\ next = "unlink" => claimed[p] = read[p]
    BY <1>1, AgainIs
  <2>3. /\ lstep[p] = "verify" /\ Turns(p, next) /\ next \in LockSteps
        /\ UNCHANGED <<owner, read, claimed, tries, overtaken, lost>>
    BY <1>7, <2>1, <2>2 DEF VerifyClaim, LockSteps
  <2>4. /\ read[p] \in dead /\ claimed[p] # None
        /\ owner = claimed[p] \/ p \in overtaken
    BY <1>1, <2>3 DEF LockSound
  <2>5. QED
    BY <2>2, <2>3, <2>4, QuietKeeps
<1>8. CASE ReleaseReads(p)
  <2>1. PICK next \in {"releasing", "over"} :
            /\ next = IF owner = p THEN "releasing" ELSE "over"
            /\ next = "releasing" => owner = p
    OBVIOUS
  <2>2. /\ lstep[p] = "held" /\ Turns(p, next) /\ next \in LockSteps
        /\ overtaken' = overtaken \ {p} /\ UNCHANGED <<owner, read, claimed, tries, lost>>
    BY <1>8, <2>1 DEF ReleaseReads, Looks, LockSteps
  <2>3. QED
    BY <2>1, <2>2, QuietKeeps
<1>9. QED
  BY <1>2, <1>3, <1>4, <1>5, <1>6, <1>7, <1>8

LEMMA LockStarts == LockInit => LockInv
<1>1. SUFFICES ASSUME LockInit PROVE LockInv
  OBVIOUS
<1>2. 0 \in 0..MaxAttempts
  BY LockAssumption
<1>3. LockTypeOK
  BY <1>1, <1>2 DEF LockInit, LockTypeOK, LockSteps
<1>4. LockSound /\ LiveLockStays
  BY <1>1 DEF LockInit, LockSound, LiveLockStays
<1>5. QED
  BY <1>3, <1>4 DEF LockInv

LEMMA LockKeeps == LockInv /\ [LockNext]_lockvars => LockInv'
<1>1. ASSUME LockInv, UNCHANGED lockvars PROVE LockInv'
  <2>1. LockTypeOK'
    BY <1>1 DEF lockvars, LockInv, LockTypeOK
  <2>2. LockSound' /\ LiveLockStays'
    BY <1>1 DEF lockvars, LockInv, LockSound, LiveLockStays, Live
  <2>3. QED
    BY <2>1, <2>2 DEF LockInv
<1>2. ASSUME LockInv, LockNext PROVE LockInv'
  <2>1. PICK p \in Upgraders : LockStep(p)
    BY <1>2 DEF LockNext
  <2>2. CASE UpgraderDies(p)
    <3>1. dead' = dead \cup {p}
          /\ UNCHANGED <<owner, lstep, read, claimed, tries, overtaken, lost>>
      BY <2>2 DEF UpgraderDies
    <3>2. LockTypeOK' /\ LockSound' /\ LiveLockStays'
      BY <1>2, <3>1 DEF LockInv, LockTypeOK, LockSound, LiveLockStays, Live
    <3>3. QED
      BY <1>2, <3>2 DEF LockInv
  <2>3. QED
    BY <1>2, <2>1, <2>2, LinkStepKeeps, RemovalsKeep, LooksKeep DEF LockStep
<1>3. QED
  BY <1>1, <1>2

\* A live owner keeps the lock file, unless a process removes it that another removal has
\* overtaken between its look at the file and its unlink by name (reclaimStaleLock and the
\* release of v02-upgrade-lock.ts).
THEOREM LockAlwaysKept == LockSpec => []LiveLockStays
<1>1. LockInv => LiveLockStays
  BY DEF LockInv
<1>2. QED
  BY <1>1, LockStarts, LockKeeps, PTL DEF LockSpec

-----------------------------------------------------------------------------
(***************************************************************************)
(* The parts together, as the run storage checks them.                     *)
(***************************************************************************)

LayoutInv == UpgradeInv /\ LockInv

\* The generations of the state directory are whole wherever an upgrade stops, and of the
\* lock that guards their exchange (acquireV02UpgradeLock) a live owner is robbed only by
\* a process that another has overtaken.
THEOREM LayoutAlwaysSafe == MCSpec => []LayoutIsSafe
<1>1. MCInit => LayoutInv
  BY UpgradeStarts, LockStarts DEF MCInit, LayoutInv
<1>2. ASSUME LayoutInv, [MCNext]_Rest PROVE LayoutInv'
  <2>1. [UpgradeNext]_uvars
    BY <1>2 DEF MCNext, Rest
  <2>2. [LockNext]_lockvars
    BY <1>2 DEF MCNext, Rest
  <2>3. UpgradeInv'
    BY <1>2, <2>1, UpgradeKeeps DEF LayoutInv
  <2>4. LockInv'
    BY <1>2, <2>2, LockKeeps DEF LayoutInv
  <2>5. QED
    BY <2>3, <2>4 DEF LayoutInv
<1>3. UpgradeInv => GenerationsAreSafe
  BY SafetyOfInv
<1>4. LayoutInv => LayoutIsSafe
  BY <1>3 DEF LayoutInv, LockInv, LayoutIsSafe
<1>5. QED
  BY <1>1, <1>2, <1>4, PTL DEF MCSpec
=============================================================================
