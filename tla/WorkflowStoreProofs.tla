------------------------- MODULE WorkflowStoreProofs -------------------------
(***************************************************************************)
(* The promises of WorkflowStore for any number of starts, writers and     *)
(* controllers, and any bounds.                                            *)
(*                                                                         *)
(* The argument: taskStateRevision never decreases, and every claim and    *)
(* every stop advances it.  So a lease is at most the revision of the      *)
(* record, a revoked one is below it, and whoever holds the lease of the   *)
(* current revision made the change that gave it.  A command that passes   *)
(* its revision check works from the record itself.                        *)
(***************************************************************************)
EXTENDS WorkflowStore, TLAPS

\* A client whose record has the revision of the file has the file.
SeenInv ==
    \A c \in Clients : pc[c] = "loaded" =>
        /\ seen[c].rev <= record.rev
        /\ seen[c].rev = record.rev => seen[c] = record

\* Ids: each start has its own, from its minting on.
IdInv ==
    /\ \A s \in Starts :
          /\ id[s] <= minted
          /\ pc[s] \in {"minted", "owner", "loaded"} => id[s] # None
          /\ pc[s] \in {"idle", "frozen"} => id[s] = None
    /\ \A s, t \in Starts : id[s] = id[t] /\ id[s] # None => s = t

\* The record names the last claim in the field of its kind, and no
\* expectation is ahead of the record.
ClaimInv ==
    /\ ~Exists(record) => record.tsr = 0 /\ lastClaim = None
    /\ lastClaim <= minted
    /\ record.dev <= lastClaim
    /\ record.review <= lastClaim
    /\ lastClaim \in {record.dev, record.review}
    /\ record.stage = "developing" => record.dev = lastClaim
    /\ record.stage = "reviewing" => record.review = lastClaim
    /\ \A s \in Starts :
          /\ id[s] # None /\ id[s] = record.dev => KindOf[s] = "dev"
          /\ id[s] # None /\ id[s] = record.review => KindOf[s] = "review"
          /\ pc[s] \in {"frozen", "minted"} => Exists(record) /\ expect[s].tsr <= record.tsr
          /\ pc[s] = "minted" /\ expect[s].tsr = record.tsr => id[s] > lastClaim

\* A lease is never ahead of the record, and a revoked one is behind it.
LeaseInv ==
    /\ revoked \in SUBSET (0..lastClaim)
    /\ \A s \in Starts :
          /\ lease[s] # 0 => id[s] # None /\ id[s] <= lastClaim
          /\ lease[s] <= record.tsr
          /\ pc[s] \in {"owner", "loaded"} => lease[s] # 0
          /\ pc[s] \in {"idle", "frozen", "minted"} => lease[s] = 0
          /\ lease[s] # 0 /\ id[s] \in revoked => lease[s] < record.tsr
    /\ LeaseNamesLastWriter

\* A verdict is younger than the development it is about.
VerdictInv ==
    /\ delivered <= lastClaim
    /\ judge <= lastClaim
    /\ \A s \in Starts : id[s] # None /\ id[s] = delivered => KindOf[s] = "dev"
    /\ VerdictIsFresh
    /\ PassedHasVerdict

\* The allowance of a run is used once it was granted.
RunInv ==
    /\ runs <= MaxRuns
    /\ record.run <= runs
    /\ \A r \in 1..MaxRuns :
          /\ grants[r] <= 1
          /\ r > runs => grants[r] = 0
          /\ r = record.run /\ ~record.used => grants[r] = 0
    /\ record.halted => ~record.running

StoreInv ==
    /\ TypeOK
    /\ SeenInv
    /\ IdInv
    /\ ClaimInv
    /\ LeaseInv
    /\ VerdictInv
    /\ RunInv

-----------------------------------------------------------------------------
(* What the commands make of a record *)

\* A commit keeps what its caller wrote, and advances the two revisions.
LEMMA CommitFields ==
    ASSUME NEW w \in Workflow(Event), NEW next \in Workflow(Event), NEW advance \in BOOLEAN,
           next.tsr = w.tsr \/ (~Exists(w) /\ next.tsr = w.tsr + 1)
    PROVE  LET v == Commit(w, next, advance) IN
           /\ v \in Workflow(Event)
           /\ v.rev = w.rev + 1
           /\ v.tsr \in {w.tsr, w.tsr + 1}
           /\ Exists(w) /\ (advance \/ TaskStateChanged(w, next)) => v.tsr = w.tsr + 1
           /\ next.tsr = w.tsr /\ ~advance /\ ~TaskStateChanged(w, next) => v.tsr = w.tsr
           /\ v.stage = next.stage
           /\ v.dev = next.dev
           /\ v.review = next.review
           /\ v.interrupted = next.interrupted
           /\ v.verdict = next.verdict
           /\ v.run = next.run
           /\ v.used = next.used
           /\ v.halted = next.halted
           /\ v.running = next.running
           /\ v.events = next.events
<1> DEFINE rev == w.rev + 1
           tsr == IF ~Exists(w) THEN next.tsr
                  ELSE IF advance \/ TaskStateChanged(w, next) THEN w.tsr + 1
                  ELSE w.tsr
           v == Commit(w, next, advance)
<1>1. /\ rev \in Nat
      /\ tsr \in {w.tsr, w.tsr + 1}
      /\ Exists(w) /\ (advance \/ TaskStateChanged(w, next)) => tsr = w.tsr + 1
      /\ next.tsr = w.tsr /\ ~advance /\ ~TaskStateChanged(w, next) => tsr = w.tsr
      /\ tsr \in Nat
  BY DEF Workflow
<1>2. v = [next EXCEPT !.rev = rev, !.tsr = tsr]
  BY DEF Commit
<1> HIDE DEF rev, tsr, v
<1>3. /\ v \in Workflow(Event)
      /\ v.rev = rev
      /\ v.tsr = tsr
  BY <1>1, <1>2 DEF Workflow
<1>4. /\ v.stage = next.stage
      /\ v.dev = next.dev
      /\ v.review = next.review
      /\ v.interrupted = next.interrupted
      /\ v.verdict = next.verdict
  BY <1>2 DEF Workflow
<1>5. /\ v.run = next.run
      /\ v.used = next.used
      /\ v.halted = next.halted
      /\ v.running = next.running
      /\ v.events = next.events
  BY <1>2 DEF Workflow
<1>6. QED
  BY <1>1, <1>3, <1>4, <1>5 DEF rev, v

\* The fields of a record have their types.
LEMMA RecordFields ==
    ASSUME NEW w \in Workflow(Event)
    PROVE  /\ w.rev \in Nat
           /\ w.tsr \in Nat
           /\ w.stage \in Stage
           /\ w.dev \in Nat
           /\ w.review \in Nat
           /\ w.verdict \in {"none", "failed", "passed"}
           /\ w.run \in Nat
           /\ w.used \in BOOLEAN
           /\ w.halted \in BOOLEAN
           /\ w.running \in BOOLEAN
           /\ w.events \in SUBSET Event
           /\ CurrentTask(w) \in Nat
  BY DEF Workflow, CurrentTask, Later

\* So has the missing file.
LEMMA AbsentType == Absent \in Workflow(Event) /\ Absent.rev = 0
  BY DEF Absent, Workflow, Stage, Preparation, None

-----------------------------------------------------------------------------
(* Steps that write no record *)

\* Init establishes StoreInv.
LEMMA InitStoreInv == Init => StoreInv
<1> SUFFICES ASSUME Init PROVE StoreInv
  OBVIOUS
<1> USE StoreAssumption DEF StoreAssumption, Init, Absent, None, Clients
<1>1. TypeOK
  BY DEF TypeOK, Workflow, Stage, Preparation, Label, Expectation, NoExpectation
<1>2. SeenInv /\ IdInv
  BY DEF SeenInv, IdInv
<1>3. ClaimInv
  BY DEF ClaimInv, Exists
<1>4. LeaseInv
  BY DEF LeaseInv, LeaseNamesLastWriter
<1>5. VerdictInv
  BY DEF VerdictInv, VerdictIsFresh, PassedHasVerdict
<1>6. RunInv
  BY DEF RunInv
<1>7. QED
  BY <1>1, <1>2, <1>3, <1>4, <1>5, <1>6 DEF StoreInv

\* Freeze preserves StoreInv.
LEMMA FreezeStep ==
    ASSUME StoreInv, NEW s \in Starts, Freeze(s)
    PROVE  StoreInv'
<1> USE StoreAssumption DEF StoreAssumption, StoreInv, TypeOK, Clients, Label, Freeze, Goto, Expecting, caller, verdicts, tasks
<1> DEFINE e == [task |-> CurrentTask(record), tsr |-> record.tsr, rev |-> record.rev]
<1>0. e \in Expectation /\ e.tsr = record.tsr /\ expect' = [expect EXCEPT ![s] = e]
  BY RecordFields DEF Expectation
<1> HIDE DEF e
<1>1. TypeOK'
  <2>1. PICK r \in 0..record.run : runOf' = [runOf EXCEPT ![s] = r]
    OBVIOUS
  <2>2. runOf' \in [Starts -> Nat]
    BY <2>1, RecordFields
  <2>3. expect' \in [Starts -> Expectation]
    BY <1>0
  <2>4. QED
    BY <2>2, <2>3
<1>2. SeenInv'
  BY RecordFields DEF SeenInv
<1>3. IdInv'
  BY DEF IdInv, None
<1>4. ClaimInv'
  BY SMTT(20), <1>0, RecordFields DEF ClaimInv, IdInv, Exists, None
<1>5. LeaseInv'
  BY RecordFields DEF LeaseInv, LeaseNamesLastWriter, IdInv, ClaimInv, None
<1>6. VerdictInv'
  BY RecordFields DEF VerdictInv, VerdictIsFresh, PassedHasVerdict, IdInv, ClaimInv, None
<1>7. RunInv'
  BY DEF RunInv
<1>8. QED
  BY <1>1, <1>2, <1>3, <1>4, <1>5, <1>6, <1>7

\* Mint preserves StoreInv.
LEMMA MintStep ==
    ASSUME StoreInv, NEW s \in Starts, Mint(s)
    PROVE  StoreInv'
<1> USE StoreAssumption DEF StoreAssumption, StoreInv, TypeOK, Clients, Label, Mint, Goto, Forget, Read, Expecting, caller, verdicts, tasks
<1>1. TypeOK'
  <2>1. minted' \in Nat /\ id' \in [Starts -> Nat]
    OBVIOUS
  <2>2. pc' \in [Clients -> Label]
    OBVIOUS
  <2>3. QED
    BY <2>1, <2>2
<1>2. SeenInv'
  BY RecordFields DEF SeenInv
<1>3. IdInv'
  BY SMTT(20) DEF IdInv, None
<1>4. ClaimInv'
  BY SMTT(20), RecordFields DEF ClaimInv, IdInv, Exists, None, NoExpectation
<1>5. LeaseInv'
  BY RecordFields DEF LeaseInv, LeaseNamesLastWriter, IdInv, ClaimInv, None
<1>6. VerdictInv'
  BY SMTT(20), RecordFields DEF VerdictInv, VerdictIsFresh, PassedHasVerdict, IdInv, ClaimInv, None
<1>7. RunInv'
  BY DEF RunInv
<1>8. QED
  BY <1>1, <1>2, <1>3, <1>4, <1>5, <1>6, <1>7

\* ClaimRefused preserves StoreInv.
LEMMA ClaimRefusedStep ==
    ASSUME StoreInv, NEW s \in Starts, ClaimRefused(s)
    PROVE  StoreInv'
<1> USE StoreAssumption DEF StoreAssumption, StoreInv, TypeOK, Clients, Label, ClaimRefused, Goto, Forget, Read, Expecting, caller, verdicts, tasks
<1>1. TypeOK'
  BY RecordFields, AbsentType DEF Expectation, NoExpectation, None
<1>2. SeenInv'
  BY RecordFields DEF SeenInv
<1>3. IdInv'
  BY DEF IdInv, None
<1>4. ClaimInv'
  BY RecordFields DEF ClaimInv, IdInv, Exists, None, NoExpectation
<1>5. LeaseInv'
  BY RecordFields DEF LeaseInv, LeaseNamesLastWriter, IdInv, ClaimInv, None
<1>6. VerdictInv'
  BY RecordFields DEF VerdictInv, VerdictIsFresh, PassedHasVerdict, IdInv, ClaimInv, None
<1>7. RunInv'
  BY DEF RunInv
<1>8. QED
  BY <1>1, <1>2, <1>3, <1>4, <1>5, <1>6, <1>7

\* ClaimRetries preserves StoreInv.
LEMMA ClaimRetriesStep ==
    ASSUME StoreInv, NEW s \in Starts, ClaimRetries(s)
    PROVE  StoreInv'
<1> USE StoreAssumption DEF StoreAssumption, StoreInv, TypeOK, Clients, Label, ClaimRetries, Goto, Forget, Read, Expecting, caller, verdicts, tasks
<1> DEFINE e == [expect[s] EXCEPT !.rev = record.rev]
<1>0. e \in Expectation /\ e.tsr = expect[s].tsr /\ expect' = [expect EXCEPT ![s] = e]
  BY RecordFields DEF Expectation
<1> HIDE DEF e
<1>1. TypeOK'
  BY <1>0
<1>2. SeenInv'
  BY RecordFields DEF SeenInv
<1>3. IdInv'
  BY DEF IdInv, None
<1>4. ClaimInv'
  <2>1. \A t \in Starts : expect'[t].tsr = expect[t].tsr
    BY <1>0
  <2>2. QED
    BY <2>1 DEF ClaimInv, Exists
<1>5. LeaseInv'
  BY RecordFields DEF LeaseInv, LeaseNamesLastWriter, IdInv, ClaimInv, None
<1>6. VerdictInv'
  BY RecordFields DEF VerdictInv, VerdictIsFresh, PassedHasVerdict, IdInv, ClaimInv, None
<1>7. RunInv'
  BY DEF RunInv
<1>8. QED
  BY <1>1, <1>2, <1>3, <1>4, <1>5, <1>6, <1>7

\* LoadForTask preserves StoreInv.
LEMMA LoadForTaskStep ==
    ASSUME StoreInv, NEW s \in Starts, LoadForTask(s)
    PROVE  StoreInv'
<1> USE StoreAssumption DEF StoreAssumption, StoreInv, TypeOK, Clients, Label, LoadForTask, Goto, Forget, Read, Expecting, caller, verdicts, tasks
<1>1. TypeOK'
  BY RecordFields, AbsentType DEF Expectation, NoExpectation, None
<1>2. SeenInv'
  BY RecordFields DEF SeenInv
<1>3. IdInv'
  BY DEF IdInv, None
<1>4. ClaimInv'
  BY RecordFields DEF ClaimInv, IdInv, Exists, None, NoExpectation
<1>5. LeaseInv'
  BY RecordFields DEF LeaseInv, LeaseNamesLastWriter, IdInv, ClaimInv, None
<1>6. VerdictInv'
  BY RecordFields DEF VerdictInv, VerdictIsFresh, PassedHasVerdict, IdInv, ClaimInv, None
<1>7. RunInv'
  BY DEF RunInv
<1>8. QED
  BY <1>1, <1>2, <1>3, <1>4, <1>5, <1>6, <1>7

\* MutationLost preserves StoreInv.
LEMMA MutationLostStep ==
    ASSUME StoreInv, NEW s \in Starts, MutationLost(s)
    PROVE  StoreInv'
<1> USE StoreAssumption DEF StoreAssumption, StoreInv, TypeOK, Clients, Label, MutationLost, Goto, Forget, Read, Expecting, caller, verdicts, tasks
<1>1. TypeOK'
  BY RecordFields, AbsentType DEF Expectation, NoExpectation, None
<1>2. SeenInv'
  BY RecordFields DEF SeenInv
<1>3. IdInv'
  BY DEF IdInv, None
<1>4. ClaimInv'
  BY RecordFields DEF ClaimInv, IdInv, Exists, None, NoExpectation
<1>5. LeaseInv'
  BY RecordFields DEF LeaseInv, LeaseNamesLastWriter, IdInv, ClaimInv, None
<1>6. VerdictInv'
  BY RecordFields DEF VerdictInv, VerdictIsFresh, PassedHasVerdict, IdInv, ClaimInv, None
<1>7. RunInv'
  BY DEF RunInv
<1>8. QED
  BY <1>1, <1>2, <1>3, <1>4, <1>5, <1>6, <1>7

\* MutationRetries preserves StoreInv.
LEMMA MutationRetriesStep ==
    ASSUME StoreInv, NEW s \in Starts, MutationRetries(s)
    PROVE  StoreInv'
<1> USE StoreAssumption DEF StoreAssumption, StoreInv, TypeOK, Clients, Label, MutationRetries, Goto, Forget, Read, Expecting, caller, verdicts, tasks
<1>1. TypeOK'
  BY RecordFields, AbsentType DEF Expectation, NoExpectation, None
<1>2. SeenInv'
  BY RecordFields DEF SeenInv
<1>3. IdInv'
  BY DEF IdInv, None
<1>4. ClaimInv'
  BY RecordFields DEF ClaimInv, IdInv, Exists, None, NoExpectation
<1>5. LeaseInv'
  BY RecordFields DEF LeaseInv, LeaseNamesLastWriter, IdInv, ClaimInv, None
<1>6. VerdictInv'
  BY RecordFields DEF VerdictInv, VerdictIsFresh, PassedHasVerdict, IdInv, ClaimInv, None
<1>7. RunInv'
  BY DEF RunInv
<1>8. QED
  BY <1>1, <1>2, <1>3, <1>4, <1>5, <1>6, <1>7

\* Crash preserves StoreInv.
LEMMA CrashStep ==
    ASSUME StoreInv, NEW s \in Starts, Crash(s)
    PROVE  StoreInv'
<1> USE StoreAssumption DEF StoreAssumption, StoreInv, TypeOK, Clients, Label, Crash, Goto, Forget, Read, Expecting, caller, verdicts, tasks
<1>1. TypeOK'
  BY RecordFields, AbsentType DEF Expectation, NoExpectation, None
<1>2. SeenInv'
  BY RecordFields DEF SeenInv
<1>3. IdInv'
  BY DEF IdInv, None
<1>4. ClaimInv'
  BY RecordFields DEF ClaimInv, IdInv, Exists, None, NoExpectation
<1>5. LeaseInv'
  <2>1. \A t \in Starts \ {s} : lease'[t] = lease[t] /\ pc'[t] = pc[t]
    OBVIOUS
  <2>2. lease'[s] = 0 /\ pc'[s] = "done"
    OBVIOUS
  <2>3. record.tsr \in Nat
    BY RecordFields
  <2>4. QED
    BY <2>1, <2>2, <2>3 DEF LeaseInv, LeaseNamesLastWriter
<1>6. VerdictInv'
  BY RecordFields DEF VerdictInv, VerdictIsFresh, PassedHasVerdict, IdInv, ClaimInv, None
<1>7. RunInv'
  BY DEF RunInv
<1>8. QED
  BY <1>1, <1>2, <1>3, <1>4, <1>5, <1>6, <1>7

\* Load preserves StoreInv.
LEMMA LoadStep ==
    ASSUME StoreInv, NEW c \in Writers \cup Controllers, Load(c)
    PROVE  StoreInv'
<1> USE StoreAssumption DEF StoreAssumption, StoreInv, TypeOK, Clients, Label, Load, Goto, Forget, Read, Expecting, caller, verdicts, tasks
<1>1. TypeOK'
  BY RecordFields, AbsentType DEF Expectation, NoExpectation, None
<1>2. SeenInv'
  BY RecordFields DEF SeenInv
<1>3. IdInv'
  BY DEF IdInv, None
<1>4. ClaimInv'
  BY RecordFields DEF ClaimInv, IdInv, Exists, None, NoExpectation
<1>5. LeaseInv'
  BY RecordFields DEF LeaseInv, LeaseNamesLastWriter, IdInv, ClaimInv, None
<1>6. VerdictInv'
  BY RecordFields DEF VerdictInv, VerdictIsFresh, PassedHasVerdict, IdInv, ClaimInv, None
<1>7. RunInv'
  BY DEF RunInv
<1>8. QED
  BY <1>1, <1>2, <1>3, <1>4, <1>5, <1>6, <1>7

\* ControlConflicts preserves StoreInv.
LEMMA ControlConflictsStep ==
    ASSUME StoreInv, NEW c \in Controllers, ControlConflicts(c)
    PROVE  StoreInv'
<1> USE StoreAssumption DEF StoreAssumption, StoreInv, TypeOK, Clients, Label, ControlConflicts, Goto, Forget, Read, Expecting, caller, verdicts, tasks
<1>1. TypeOK'
  BY RecordFields, AbsentType DEF Expectation, NoExpectation, None
<1>2. SeenInv'
  BY RecordFields DEF SeenInv
<1>3. IdInv'
  BY DEF IdInv, None
<1>4. ClaimInv'
  BY RecordFields DEF ClaimInv, IdInv, Exists, None, NoExpectation
<1>5. LeaseInv'
  BY RecordFields DEF LeaseInv, LeaseNamesLastWriter, IdInv, ClaimInv, None
<1>6. VerdictInv'
  BY RecordFields DEF VerdictInv, VerdictIsFresh, PassedHasVerdict, IdInv, ClaimInv, None
<1>7. RunInv'
  BY DEF RunInv
<1>8. QED
  BY <1>1, <1>2, <1>3, <1>4, <1>5, <1>6, <1>7

-----------------------------------------------------------------------------
(* Commands of writers and controllers *)

\* A command that leaves the task state alone, as its caller sees it.
KeepsTasks(c) ==
    /\ record' \in Workflow(Event)
    /\ record'.rev = record.rev + 1
    /\ record'.tsr = record.tsr
    /\ record'.stage = record.stage
    /\ record'.dev = record.dev
    /\ record'.review = record.review
    /\ record'.verdict = record.verdict
    /\ pc' \in [Clients -> Label]
    /\ pc'[c] # "loaded"
    /\ \A d \in Clients \ {c} : pc'[d] = pc[d]
    /\ Forget(c)
    /\ UNCHANGED <<minted, expect, runOf, id, tasks, verdicts>>

\* How a command writes the record it found: next, changed in nothing a
\* task's lease is about.
WriteOf(next) ==
    /\ next \in Workflow(Event)
    /\ ~TaskStateChanged(record, next)
    /\ next.tsr = record.tsr
    /\ record' = Commit(record, next, FALSE)

\* Such a write leaves the task state alone, and stores the run it is given.
LEMMA WriteOfFields ==
    ASSUME record \in Workflow(Event), NEW next, WriteOf(next)
    PROVE  /\ record' \in Workflow(Event)
           /\ record'.rev = record.rev + 1
           /\ record'.tsr = record.tsr
           /\ record'.stage = record.stage
           /\ record'.dev = record.dev
           /\ record'.review = record.review
           /\ record'.verdict = record.verdict
           /\ record'.run = next.run
           /\ record'.used = next.used
           /\ record'.halted = next.halted
           /\ record'.running = next.running
<1>1. /\ record.stage = next.stage /\ record.dev = next.dev /\ record.review = next.review
      /\ record.verdict = next.verdict
  BY DEF WriteOf, TaskStateChanged
<1>2. next \in Workflow(Event) /\ next.tsr = record.tsr /\ record' = Commit(record, next, FALSE)
      /\ ~TaskStateChanged(record, next)
  BY DEF WriteOf
<1>3. QED
  BY <1>1, <1>2, CommitFields

\* Such a command disturbs no invariant about tasks.
LEMMA KeepsTasksStep ==
    ASSUME StoreInv, NEW c \in Writers \cup Controllers, KeepsTasks(c),
           runs' \in Nat, grants' \in [1..MaxRuns -> Nat], RunInv'
    PROVE  StoreInv'
<1> USE StoreAssumption DEF StoreAssumption, StoreInv, TypeOK, Clients, KeepsTasks, Forget, tasks, verdicts
<1>1. TypeOK'
  BY AbsentType
<1>2. SeenInv'
  <2> SUFFICES ASSUME NEW d \in Clients, pc'[d] = "loaded"
               PROVE  seen'[d].rev <= record'.rev /\ seen'[d].rev # record'.rev
    BY DEF SeenInv
  <2>1. d # c /\ seen'[d] = seen[d] /\ pc[d] = "loaded"
    OBVIOUS
  <2>2. seen[d].rev <= record.rev /\ seen[d].rev \in Nat /\ record.rev \in Nat
    BY <2>1, RecordFields DEF SeenInv
  <2>3. QED
    BY <2>1, <2>2
<1>3. IdInv'
  BY DEF IdInv
<1>4. ClaimInv'
  BY SMTT(20), RecordFields DEF ClaimInv, Exists
<1>5. LeaseInv'
  BY DEF LeaseInv, LeaseNamesLastWriter
<1>6. VerdictInv'
  BY DEF VerdictInv, VerdictIsFresh, PassedHasVerdict
<1>7. QED
  BY <1>1, <1>2, <1>3, <1>4, <1>5, <1>6

\* CommitMetadata preserves StoreInv.
LEMMA CommitMetadataStep ==
    ASSUME StoreInv, NEW w \in Writers, CommitMetadata(w)
    PROVE  StoreInv'
<1> USE StoreAssumption DEF StoreAssumption, StoreInv, TypeOK
<1>1. CASE ~Fresh(w)
  <2> USE <1>1 DEF CommitMetadata, Goto, caller
  <2>1. record' = record
    OBVIOUS
  <2>2. TypeOK'
    BY <2>1, AbsentType DEF Forget, Label, tasks, verdicts, Clients
  <2>3. SeenInv' /\ IdInv' /\ ClaimInv' /\ LeaseInv' /\ VerdictInv' /\ RunInv'
    BY <2>1 DEF SeenInv, IdInv, ClaimInv, Exists, LeaseInv, LeaseNamesLastWriter, VerdictInv,
                VerdictIsFresh, PassedHasVerdict, RunInv, Forget, tasks, verdicts, Clients
  <2>4. QED
    BY <2>2, <2>3
<1>2. CASE Fresh(w)
  <2>1. w \in Clients /\ seen[w] = record
    BY <1>2 DEF SeenInv, Fresh, CommitMetadata, Clients
  <2>2. PICK running \in {FALSE, record.running} :
           Write([record EXCEPT !.events = record.events \cup {w}, !.running = running], FALSE)
    BY <1>2, <2>1 DEF CommitMetadata
  <2> DEFINE next == [record EXCEPT !.events = record.events \cup {w}, !.running = running]
  <2>3. /\ WriteOf(next)
        /\ next.run = record.run /\ next.used = record.used /\ next.halted = record.halted
        /\ next.running = running
    BY <2>2, RecordFields DEF Write, WriteOf, Workflow, TaskStateChanged, Event
  <2> HIDE DEF next
  <2>4. /\ record'.run = next.run
        /\ record'.used = next.used
        /\ record'.halted = next.halted
        /\ record'.running = next.running
    BY <2>3, WriteOfFields
  <2>5. KeepsTasks(w)
    BY <2>3, WriteOfFields DEF KeepsTasks, CommitMetadata, Goto, Label, Clients, caller
  <2>6. runs' \in Nat /\ grants' \in [1..MaxRuns -> Nat]
    BY DEF CommitMetadata, caller
  <2>7. RunInv'
    BY <2>2, <2>3, <2>4, RecordFields DEF CommitMetadata, RunInv, caller
  <2>8. QED
    BY <2>5, <2>6, <2>7, KeepsTasksStep
<1>3. QED
  BY <1>1, <1>2

\* AuthorizeRun preserves StoreInv.
LEMMA AuthorizeRunStep ==
    ASSUME StoreInv, NEW c \in Controllers, AuthorizeRun(c)
    PROVE  StoreInv'
<1> USE StoreAssumption DEF StoreAssumption, StoreInv, TypeOK
<1> DEFINE next == Authorized(record, runs + 1)
<1>2. /\ WriteOf(next)
      /\ next.run = runs + 1 /\ next.used = FALSE /\ next.halted = FALSE
  <2>1. record' = Commit(record, next, FALSE)
    BY DEF AuthorizeRun, Write
  <2>2. /\ next \in Workflow(Event)
        /\ next.run = runs + 1 /\ next.used = FALSE /\ next.halted = FALSE
    <3> DEFINE r == runs + 1
    <3>1. r \in Nat
      OBVIOUS
    <3>2. next = [record EXCEPT !.run = r, !.used = FALSE, !.halted = FALSE, !.running = TRUE]
      BY DEF Authorized
    <3> HIDE DEF r, next
    <3>3. next \in Workflow(Event)
      BY <3>1, <3>2 DEF Workflow
    <3>4. next.run = r /\ next.used = FALSE /\ next.halted = FALSE
      BY <3>2 DEF Workflow
    <3>5. QED
      BY <3>3, <3>4 DEF r
  <2>3. ~TaskStateChanged(record, next) /\ next.tsr = record.tsr
    BY DEF Authorized, Workflow, TaskStateChanged
  <2>4. QED
    BY <2>1, <2>2, <2>3 DEF WriteOf
<1> HIDE DEF next
<1>3. /\ record'.run = next.run
      /\ record'.used = next.used
      /\ record'.halted = next.halted
      /\ record'.running = next.running
  BY <1>2, WriteOfFields
<1>4. KeepsTasks(c)
  BY <1>2, WriteOfFields DEF KeepsTasks, AuthorizeRun, Goto, Label, Clients, Ready, caller
<1>5. runs' \in Nat /\ grants' \in [1..MaxRuns -> Nat]
  BY DEF AuthorizeRun, Ready, RunInv, caller
<1>6. RunInv'
  BY <1>2, <1>3, RecordFields DEF AuthorizeRun, Ready, RunInv, caller
<1>7. QED
  BY <1>4, <1>5, <1>6, KeepsTasksStep

\* ConsumeCooldown preserves StoreInv.
LEMMA ConsumeCooldownStep ==
    ASSUME StoreInv, NEW c \in Controllers, ConsumeCooldown(c)
    PROVE  StoreInv'
<1> USE StoreAssumption DEF StoreAssumption, StoreInv, TypeOK
<1>1. c \in Clients /\ Fresh(c) /\ seen[c] = record
  BY DEF SeenInv, Fresh, ConsumeCooldown, Ready, Clients
<1> DEFINE next == [record EXCEPT !.used = TRUE, !.running = TRUE]
<1>2. /\ WriteOf(next)
      /\ next.run = record.run /\ next.used /\ next.halted = record.halted
  BY <1>1, RecordFields DEF ConsumeCooldown, Write, WriteOf, Workflow, TaskStateChanged, Authorized, Preparation, Event
<1> HIDE DEF next
<1>3. /\ record'.run = next.run
      /\ record'.used = next.used
      /\ record'.halted = next.halted
      /\ record'.running = next.running
  BY <1>2, WriteOfFields
<1>4. KeepsTasks(c)
  BY <1>2, WriteOfFields DEF KeepsTasks, ConsumeCooldown, Goto, Label, Clients, Ready, caller
<1>5. runs' \in Nat /\ grants' \in [1..MaxRuns -> Nat]
  <2>1. runs' = runs /\ grants' = [grants EXCEPT ![record.run] = grants[record.run] + 1]
    BY <1>1 DEF ConsumeCooldown, caller
  <2>2. record.run \in 1..MaxRuns
    BY <1>1, RecordFields DEF ConsumeCooldown, RunInv, None
  <2>3. QED
    BY <2>1, <2>2
<1>6. RunInv'
  BY <1>2, <1>3, <1>1, RecordFields DEF ConsumeCooldown, Ready, RunInv, caller
<1>7. QED
  BY <1>4, <1>5, <1>6, KeepsTasksStep

\* Fuse preserves StoreInv.
LEMMA FuseStep ==
    ASSUME StoreInv, NEW c \in Controllers, Fuse(c)
    PROVE  StoreInv'
<1> USE StoreAssumption DEF StoreAssumption, StoreInv, TypeOK
<1>1. c \in Clients /\ Fresh(c) /\ seen[c] = record
  BY DEF SeenInv, Fresh, Fuse, Ready, Clients
<1> DEFINE next == [record EXCEPT !.halted = record.halted \/ record.used, !.running = FALSE]
<1>2. /\ WriteOf(next)
      /\ next.run = record.run /\ next.used = record.used /\ ~next.running
  BY ZenonT(40), <1>1, RecordFields DEF Fuse, Write, WriteOf, Workflow, TaskStateChanged, Authorized, Preparation, Event
<1> HIDE DEF next
<1>3. /\ record'.run = next.run
      /\ record'.used = next.used
      /\ record'.halted = next.halted
      /\ record'.running = next.running
  BY <1>2, WriteOfFields
<1>4. KeepsTasks(c)
  BY <1>2, WriteOfFields DEF KeepsTasks, Fuse, Goto, Label, Clients, Ready, caller
<1>5. runs' \in Nat /\ grants' \in [1..MaxRuns -> Nat]
  BY <1>1 DEF Fuse, Ready, RunInv, caller
<1>6. RunInv'
  BY <1>2, <1>3, <1>1, RecordFields DEF Fuse, Ready, RunInv, caller
<1>7. QED
  BY <1>4, <1>5, <1>6, KeepsTasksStep

\* Prepare preserves StoreInv.
LEMMA PrepareStep ==
    ASSUME StoreInv, NEW c \in Controllers, Prepare(c)
    PROVE  StoreInv'
<1> USE StoreAssumption DEF StoreAssumption, StoreInv, TypeOK
<1>1. PICK status \in Preparation \ {"none"} :
         Write([record EXCEPT !.prep = status, !.prepTsr = record.tsr], FALSE)
  BY DEF Prepare
<1> DEFINE next == [record EXCEPT !.prep = status, !.prepTsr = record.tsr]
<1>2. /\ WriteOf(next)
      /\ next.run = record.run /\ next.used = record.used /\ next.halted = record.halted
      /\ next.running = record.running
  BY <1>1, RecordFields DEF Prepare, Write, WriteOf, Workflow, TaskStateChanged, Authorized, Preparation, Event
<1> HIDE DEF next
<1>3. /\ record'.run = next.run
      /\ record'.used = next.used
      /\ record'.halted = next.halted
      /\ record'.running = next.running
  BY <1>2, WriteOfFields
<1>4. KeepsTasks(c)
  BY <1>2, WriteOfFields DEF KeepsTasks, Prepare, Goto, Label, Clients, Ready, caller
<1>5. runs' \in Nat /\ grants' \in [1..MaxRuns -> Nat]
  BY <1>1 DEF Prepare, Ready, RunInv, caller
<1>6. RunInv'
  BY <1>2, <1>3, <1>1, RecordFields DEF Prepare, Ready, RunInv, caller
<1>7. QED
  BY <1>4, <1>5, <1>6, KeepsTasksStep

-----------------------------------------------------------------------------
(* Stops *)

\* A forced advance of the record, or the first write of it.
LEMMA ForcedFields ==
    ASSUME record \in Workflow(Event), NEW next \in Workflow(Event),
           record' = Commit(record, next, TRUE),
           \/ Exists(record) /\ next.tsr = record.tsr
           \/ ~Exists(record) /\ next.tsr = record.tsr + 1
    PROVE  /\ record' \in Workflow(Event)
           /\ record'.rev = record.rev + 1
           /\ record'.tsr = record.tsr + 1
           /\ record'.stage = next.stage
           /\ record'.dev = next.dev
           /\ record'.review = next.review
           /\ record'.verdict = next.verdict
           /\ record'.run = next.run
           /\ record'.used = next.used
           /\ record'.halted = next.halted
           /\ record'.running = next.running
<1>1. /\ record' \in Workflow(Event)
      /\ record'.rev = record.rev + 1
      /\ Exists(record) => record'.tsr = record.tsr + 1
      /\ record'.stage = next.stage
      /\ record'.dev = next.dev
      /\ record'.review = next.review
      /\ record'.verdict = next.verdict
  BY CommitFields
<1>2. /\ record'.run = next.run
      /\ record'.used = next.used
      /\ record'.halted = next.halted
      /\ record'.running = next.running
  BY CommitFields
<1>3. ~Exists(record) => record'.tsr = next.tsr
  BY DEF Commit, Workflow
<1>4. QED
  BY <1>1, <1>2, <1>3

\* Nobody's record is as new as one that was just written.
LEMMA SeenAfterWrite ==
    ASSUME TypeOK, SeenInv, record'.rev = record.rev + 1,
           \A c \in Clients : pc'[c] = "loaded" => pc[c] = "loaded" /\ seen'[c] = seen[c]
    PROVE  SeenInv'
<1> SUFFICES ASSUME NEW d \in Clients, pc'[d] = "loaded"
             PROVE  seen'[d].rev <= record'.rev /\ seen'[d].rev # record'.rev
  BY DEF SeenInv
<1>1. seen'[d] = seen[d] /\ seen[d].rev <= record.rev
  BY DEF SeenInv
<1>2. seen[d].rev \in Nat /\ record.rev \in Nat
  BY RecordFields DEF TypeOK
<1>3. QED
  BY <1>1, <1>2

\* StopTask preserves StoreInv.
LEMMA StopTaskStep ==
    ASSUME StoreInv, NEW s \in Starts, StopTask(s)
    PROVE  StoreInv'
<1> USE StoreAssumption DEF StoreAssumption, StoreInv, TypeOK
<1>1. id[s] # None /\ id[s] = lastClaim /\ Exists(record)
  BY RecordFields DEF StopTask, Owns, CurrentTask, Later, ClaimInv
<1> DEFINE next == Stopped(record, KindOf[s])
<1>2. /\ next \in Workflow(Event)
      /\ next.tsr = record.tsr
      /\ next.dev = record.dev /\ next.review = record.review
      /\ next.run = record.run
      /\ next.used = record.used
      /\ next.halted = record.halted
      /\ next.running = record.running
  BY DEF Stopped, Workflow, Stage
<1>3. /\ KindOf[s] = "dev" => next.stage = "developing" /\ next.verdict = record.verdict
      /\ KindOf[s] # "dev" => next.stage = "review-ready" /\ next.verdict = "none"
  BY DEF Stopped, Workflow
<1>4. record' = Commit(record, next, TRUE)
  BY DEF StopTask, Write
<1> HIDE DEF next
<1>5. /\ record' \in Workflow(Event)
      /\ record'.rev = record.rev + 1
      /\ record'.tsr = record.tsr + 1
      /\ record'.stage = next.stage
      /\ record'.dev = record.dev
      /\ record'.review = record.review
      /\ record'.verdict = next.verdict
  BY <1>1, <1>2, <1>4, ForcedFields
<1>6. /\ record'.run = record.run
      /\ record'.used = record.used
      /\ record'.halted = record.halted
      /\ record'.running = record.running
  BY <1>1, <1>2, <1>4, ForcedFields
<1> USE DEF StopTask, caller
<1>7. TypeOK'
  BY <1>5 DEF None
<1>8. SeenInv'
  BY <1>5, SeenAfterWrite
<1>9. IdInv'
  BY DEF IdInv
<1>10. ClaimInv'
  <2>1. KindOf[s] = "dev" => record.dev = lastClaim
    BY <1>1 DEF ClaimInv
  <2>2. Exists(record') /\ record.tsr \in Nat
    BY <1>5, RecordFields DEF Exists
  <2>3. \A t \in Starts : expect[t].tsr \in Nat
    BY DEF Expectation
  <2>4. \A t \in Starts : pc[t] \in {"frozen", "minted"} =>
             expect[t].tsr <= record'.tsr /\ expect[t].tsr # record'.tsr
    BY <1>5, <2>2, <2>3 DEF ClaimInv
  <2>5. QED
    BY <1>1, <1>3, <1>5, <2>1, <2>2, <2>4, RecordFields DEF ClaimInv
<1>11. LeaseInv'
  BY SMTT(20), <1>1, <1>5, RecordFields DEF LeaseInv, LeaseNamesLastWriter, ClaimInv
<1>12. VerdictInv'
  BY <1>3, <1>5 DEF VerdictInv, VerdictIsFresh, PassedHasVerdict, Kind, None
<1>13. RunInv'
  BY <1>6 DEF RunInv
<1>14. QED
  BY <1>7, <1>8, <1>9, <1>10, <1>11, <1>12, <1>13

\* StopPreparation preserves StoreInv.
LEMMA StopPreparationStep ==
    ASSUME StoreInv, NEW c \in Controllers, StopPreparation(c)
    PROVE  StoreInv'
<1> USE StoreAssumption DEF StoreAssumption, StoreInv, TypeOK
<1> DEFINE tsr == IF Exists(record) THEN record.tsr ELSE 1
           next == PreparationStopped(record)
<1>1. /\ tsr \in Nat
      /\ \/ Exists(record) /\ tsr = record.tsr
         \/ ~Exists(record) /\ tsr = record.tsr + 1
  BY RecordFields DEF ClaimInv
<1>2. next = [record EXCEPT !.interrupted = TRUE, !.running = FALSE, !.tsr = tsr]
  BY DEF PreparationStopped
<1>3. record' = Commit(record, next, TRUE)
  BY DEF StopPreparation, Write
<1> HIDE DEF tsr, next
<1>4. /\ next \in Workflow(Event)
      /\ next.tsr = tsr
      /\ next.stage = record.stage
      /\ next.dev = record.dev /\ next.review = record.review
      /\ next.verdict = record.verdict
  BY <1>1, <1>2 DEF Workflow
<1>4a. /\ next.run = record.run
       /\ next.used = record.used
       /\ next.halted = record.halted
       /\ next.running = FALSE
  BY <1>2 DEF Workflow
<1>4b. /\ record' \in Workflow(Event)
       /\ record'.rev = record.rev + 1
       /\ record'.tsr = record.tsr + 1
       /\ record'.stage = record.stage
       /\ record'.dev = record.dev
       /\ record'.review = record.review
       /\ record'.verdict = record.verdict
  BY <1>1, <1>3, <1>4, ForcedFields
<1>5. /\ record'.run = record.run
      /\ record'.used = record.used
      /\ record'.halted = record.halted
      /\ record'.running = next.running
  BY <1>1, <1>3, <1>4, <1>4a, ForcedFields
<1> USE DEF StopPreparation, Ready, Goto, Forget, caller, verdicts
<1>6. TypeOK'
  BY <1>4b, AbsentType DEF None, Clients, Label
<1>7. SeenInv'
  BY <1>4b, SeenAfterWrite DEF Clients
<1>8. IdInv'
  BY DEF IdInv, Clients
<1>9. ClaimInv'
  <2>1. \A t \in Starts : t \in Clients /\ t # c /\ pc'[t] = pc[t]
    BY DEF Clients
  <2>2. Exists(record') /\ record.tsr \in Nat
    BY <1>4b, RecordFields DEF Exists
  <2>3. \A t \in Starts : expect[t].tsr \in Nat
    BY DEF Expectation
  <2>4. \A t \in Starts : pc[t] \in {"frozen", "minted"} =>
             expect[t].tsr <= record'.tsr /\ expect[t].tsr # record'.tsr
    BY <1>4b, <2>2, <2>3 DEF ClaimInv
  <2>5. QED
    BY SMTT(20), <1>4b, <2>1, <2>2, <2>4, RecordFields DEF ClaimInv
<1>10. LeaseInv'
  <2>1. \A t \in Starts : t \in Clients /\ t # c /\ pc'[t] = pc[t]
    BY DEF Clients
  <2>2. ASSUME NEW t \in Starts
        PROVE  /\ lease'[t] = lease[t]
               /\ lease[t] <= record'.tsr
               /\ lease[t] # record'.tsr
               /\ lease[t] < record'.tsr
    <3>1. record.tsr \in Nat /\ record'.tsr = record.tsr + 1
      BY <1>4b, RecordFields
    <3>2. lease' = lease /\ lease[t] \in Nat /\ lease[t] <= record.tsr
      BY DEF LeaseInv
    <3>3. QED
      BY <3>1, <3>2
  <2>3. revoked' \in SUBSET (0..lastClaim) /\ lastClaim' = lastClaim
    BY DEF LeaseInv
  <2>4. QED
    BY <2>1, <2>2, <2>3 DEF LeaseInv, LeaseNamesLastWriter
<1>11. VerdictInv'
  BY <1>4b DEF VerdictInv, VerdictIsFresh, PassedHasVerdict
<1>12. RunInv'
  BY <1>4a, <1>5 DEF RunInv
<1>13. QED
  BY <1>6, <1>7, <1>8, <1>9, <1>10, <1>11, <1>12

-----------------------------------------------------------------------------
(* Claims and the writes of tasks *)

\* ClaimCommits preserves StoreInv.
LEMMA ClaimCommitsStep ==
    ASSUME StoreInv, NEW s \in Starts, ClaimCommits(s)
    PROVE  StoreInv'
<1> USE StoreAssumption DEF StoreAssumption, StoreInv, TypeOK
<1>1. Exists(record) /\ s \in Clients /\ pc[s] = "minted" /\ id[s] # None /\ id[s] > lastClaim
  BY DEF ClaimCommits, ExpectationHolds, ClaimInv, IdInv, Clients
<1> DEFINE next == Claimed(record, KindOf[s], id[s])
<1>2. /\ next \in Workflow(Event)
      /\ next.tsr = record.tsr
      /\ next.verdict = record.verdict
      /\ KindOf[s] = "dev" => next.stage = "developing" /\ next.dev = id[s] /\ next.review = record.review
      /\ KindOf[s] # "dev" => next.stage = "reviewing" /\ next.review = id[s] /\ next.dev = record.dev
  BY DEF Claimed, Workflow, Stage, Preparation
<1>3. /\ next.run = record.run
      /\ next.used = record.used
      /\ next.halted = record.halted
      /\ next.running = record.running
  BY DEF Claimed, Workflow
<1>4. record' = Commit(record, next, TRUE)
  BY DEF ClaimCommits, Write
<1> HIDE DEF next
<1>5. /\ record' \in Workflow(Event)
      /\ record'.rev = record.rev + 1
      /\ record'.tsr = record.tsr + 1
      /\ record'.stage = next.stage
      /\ record'.dev = next.dev
      /\ record'.review = next.review
      /\ record'.verdict = next.verdict
  BY <1>1, <1>2, <1>4, ForcedFields
<1>6. /\ record'.run = record.run
      /\ record'.used = record.used
      /\ record'.halted = record.halted
      /\ record'.running = record.running
  BY <1>1, <1>2, <1>3, <1>4, ForcedFields
<1>7. /\ lastClaim' = id[s] /\ lastWriter' = id[s] /\ revoked' = revoked \cup {lastClaim}
      /\ lease' = [lease EXCEPT ![s] = record.tsr + 1]
      /\ pc' = [pc EXCEPT ![s] = "owner"]
      /\ expect' = [expect EXCEPT ![s] = NoExpectation]
      /\ UNCHANGED <<minted, runs, seen, runOf, id, verdicts, grants>>
  BY DEF ClaimCommits, Goto, Expecting
<1>8. record.tsr \in Nat /\ lastClaim \in Nat /\ id[s] \in Nat /\ Exists(record')
  BY <1>5, RecordFields DEF Exists
<1>9. TypeOK'
  <2>1. NoExpectation \in Expectation
    BY DEF Expectation, NoExpectation, None
  <2>2. lease' \in [Starts -> Nat] /\ pc' \in [Clients -> Label]
    <3>1. record.tsr + 1 \in Nat /\ "owner" \in Label
      BY <1>8 DEF Label
    <3>2. lease' \in [Starts -> Nat]
      BY <1>7, <3>1
    <3>3. pc' \in [Clients -> Label]
      BY <1>7, <3>1
    <3>4. QED
      BY <3>2, <3>3
  <2>3. expect' \in [Starts -> Expectation]
    BY <1>7, <2>1
  <2>4. revoked' \in SUBSET Nat
    BY <1>7, <1>8
  <2>5. QED
    BY <1>5, <1>7, <1>8, <2>2, <2>3, <2>4 DEF verdicts
<1>10. SeenInv'
  BY <1>5, <1>7, SeenAfterWrite
<1>11. IdInv'
  BY <1>1, <1>7 DEF IdInv, Clients
<1>12. ClaimInv'
  <2>1. /\ record'.dev <= lastClaim'
        /\ record'.review <= lastClaim'
        /\ lastClaim' \in {record'.dev, record'.review}
        /\ record'.stage = "developing" => record'.dev = lastClaim'
        /\ record'.stage = "reviewing" => record'.review = lastClaim'
        /\ lastClaim' <= minted'
    <3>1. record.dev < id[s] /\ record.review < id[s] /\ id[s] <= minted
      BY <1>1, <1>8, RecordFields DEF ClaimInv, IdInv
    <3>2. CASE KindOf[s] = "dev"
      <4>1. record'.stage = "developing" /\ record'.dev = id[s] /\ record'.review = record.review
        BY <1>2, <1>5, <3>2
      <4>2. record.review \in Nat /\ lastClaim' = id[s] /\ minted' = minted
        BY <1>7, RecordFields
      <4>3. QED
        BY <1>8, <3>1, <4>1, <4>2
    <3>3. CASE KindOf[s] # "dev"
      <4>1. record'.stage = "reviewing" /\ record'.review = id[s] /\ record'.dev = record.dev
        BY <1>2, <1>5, <3>3
      <4>2. record.dev \in Nat /\ lastClaim' = id[s] /\ minted' = minted
        BY <1>7, RecordFields
      <4>3. QED
        BY <1>8, <3>1, <4>1, <4>2
    <3>4. QED
      BY <3>2, <3>3
  <2>2. ASSUME NEW t \in Starts
        PROVE  /\ id[t] # None /\ id[t] = record'.dev => KindOf[t] = "dev"
               /\ id[t] # None /\ id[t] = record'.review => KindOf[t] = "review"
    BY <1>1, <1>2, <1>5, <2>2 DEF ClaimInv, IdInv, Kind
  <2>3. ASSUME NEW t \in Starts, pc'[t] \in {"frozen", "minted"}
        PROVE  expect'[t].tsr <= record'.tsr /\ expect'[t].tsr # record'.tsr
    <3>1. t # s /\ t \in Clients /\ pc'[t] = pc[t] /\ expect'[t] = expect[t]
      BY <1>1, <1>7, <2>3 DEF Clients
    <3>2. expect[t].tsr <= record.tsr /\ expect[t].tsr \in Nat
      BY <2>3, <3>1 DEF ClaimInv, Expectation
    <3>3. QED
      BY <1>5, <1>8, <3>1, <3>2
  <2>4. QED
    BY <1>7, <1>8, <2>1, <2>2, <2>3 DEF ClaimInv
<1>13. LeaseInv'
  <2>1. revoked' \in SUBSET (0..lastClaim') /\ id[s] \notin revoked'
    BY <1>1, <1>7, <1>8 DEF LeaseInv
  <2>2. lease'[s] = record'.tsr /\ lease'[s] # 0 /\ lastWriter' = id[s]
    BY <1>5, <1>7, <1>8
  <2>3. ASSUME NEW t \in Starts, t # s
        PROVE  /\ lease'[t] = lease[t]
               /\ lease[t] <= record'.tsr
               /\ lease[t] # record'.tsr
               /\ lease[t] < record'.tsr
               /\ pc'[t] = pc[t]
    BY <1>1, <1>5, <1>7, <1>8, <2>3 DEF LeaseInv, Clients
  <2>4. \A t \in Starts : id[t] <= lastClaim => id[t] <= lastClaim'
    BY <1>1, <1>7, <1>8
  <2>5. pc'[s] = "owner"
    BY <1>1, <1>7
  <2>6. QED
    BY <1>1, <1>7, <1>8, <2>1, <2>2, <2>3, <2>4, <2>5 DEF LeaseInv, LeaseNamesLastWriter
<1>14. VerdictInv'
  BY <1>1, <1>2, <1>5, <1>7, <1>8 DEF VerdictInv, VerdictIsFresh, PassedHasVerdict, verdicts, Kind
<1>15. RunInv'
  BY <1>6, <1>7 DEF RunInv
<1>16. QED
  BY <1>9, <1>10, <1>11, <1>12, <1>13, <1>14, <1>15

\* The outcome of a task changes its stage and the verdict.
LEMMA OutcomeFields ==
    ASSUME record \in Workflow(Event), NEW kind,
           NEW outcome \in Outcomes(record, kind) \cup {record}
    PROVE  /\ outcome \in Workflow(Event)
           /\ outcome.tsr = record.tsr
           /\ outcome.dev = record.dev
           /\ outcome.review = record.review
           /\ outcome.run = record.run
           /\ outcome.used = record.used
           /\ outcome.halted = record.halted
           /\ outcome.running = record.running
<1>1. CASE outcome = record
  BY <1>1 DEF Workflow
<1>2. CASE outcome = DevFinished(record)
  <2>1. outcome \in Workflow(Event) /\ outcome.tsr = record.tsr
    BY <1>2 DEF DevFinished, Workflow, Stage
  <2>2. outcome.dev = record.dev /\ outcome.review = record.review
    BY <1>2 DEF DevFinished, Workflow
  <2>3. /\ outcome.run = record.run
        /\ outcome.used = record.used
        /\ outcome.halted = record.halted
        /\ outcome.running = record.running
    BY <1>2 DEF DevFinished, Workflow
  <2>4. QED
    BY <2>1, <2>2, <2>3
<1>3. CASE outcome = DevInterrupted(record)
  <2>1. outcome \in Workflow(Event) /\ outcome.tsr = record.tsr
    BY <1>3 DEF DevInterrupted, Workflow, Stage
  <2>2. outcome.dev = record.dev /\ outcome.review = record.review
    BY <1>3 DEF DevInterrupted, Workflow
  <2>3. /\ outcome.run = record.run
        /\ outcome.used = record.used
        /\ outcome.halted = record.halted
        /\ outcome.running = record.running
    BY <1>3 DEF DevInterrupted, Workflow
  <2>4. QED
    BY <2>1, <2>2, <2>3
<1>4. CASE outcome = ReviewFailed(record)
  <2>1. outcome \in Workflow(Event) /\ outcome.tsr = record.tsr
    BY <1>4 DEF ReviewFailed, Workflow, Stage
  <2>2. outcome.dev = record.dev /\ outcome.review = record.review
    BY <1>4 DEF ReviewFailed, Workflow
  <2>3. /\ outcome.run = record.run
        /\ outcome.used = record.used
        /\ outcome.halted = record.halted
        /\ outcome.running = record.running
    BY <1>4 DEF ReviewFailed, Workflow
  <2>4. QED
    BY <2>1, <2>2, <2>3
<1>5. CASE outcome = ReviewUnparsed(record)
  <2>1. outcome \in Workflow(Event) /\ outcome.tsr = record.tsr
    BY <1>5 DEF ReviewUnparsed, Workflow, Stage
  <2>2. outcome.dev = record.dev /\ outcome.review = record.review
    BY <1>5 DEF ReviewUnparsed, Workflow
  <2>3. /\ outcome.run = record.run
        /\ outcome.used = record.used
        /\ outcome.halted = record.halted
        /\ outcome.running = record.running
    BY <1>5 DEF ReviewUnparsed, Workflow
  <2>4. QED
    BY <2>1, <2>2, <2>3
<1>6. CASE outcome = ReviewRejects(record)
  <2>1. outcome \in Workflow(Event) /\ outcome.tsr = record.tsr
    BY <1>6 DEF ReviewRejects, Workflow, Stage
  <2>2. outcome.dev = record.dev /\ outcome.review = record.review
    BY <1>6 DEF ReviewRejects, Workflow
  <2>3. /\ outcome.run = record.run
        /\ outcome.used = record.used
        /\ outcome.halted = record.halted
        /\ outcome.running = record.running
    BY <1>6 DEF ReviewRejects, Workflow
  <2>4. QED
    BY <2>1, <2>2, <2>3
<1>7. CASE outcome = ReviewPasses(record)
  <2>1. outcome \in Workflow(Event) /\ outcome.tsr = record.tsr
    BY <1>7 DEF ReviewPasses, Workflow, Stage
  <2>2. outcome.dev = record.dev /\ outcome.review = record.review
    BY <1>7 DEF ReviewPasses, Workflow
  <2>3. /\ outcome.run = record.run
        /\ outcome.used = record.used
        /\ outcome.halted = record.halted
        /\ outcome.running = record.running
    BY <1>7 DEF ReviewPasses, Workflow
  <2>4. QED
    BY <2>1, <2>2, <2>3
<1>8. QED
  BY <1>1, <1>2, <1>3, <1>4, <1>5, <1>6, <1>7 DEF Outcomes

\* MutationCommits preserves StoreInv.
LEMMA MutationCommitsStep ==
    ASSUME StoreInv, NEW s \in Starts, MutationCommits(s)
    PROVE  StoreInv'
<1> USE StoreAssumption DEF StoreAssumption, StoreInv, TypeOK
<1>1. /\ s \in Clients /\ pc[s] = "loaded" /\ seen[s] = record
      /\ id[s] # None /\ id[s] = CurrentTask(record) /\ record.tsr = lease[s]
  BY DEF MutationCommits, HoldsLease, Owns, Fresh, SeenInv, Clients
<1>2. id[s] = lastClaim /\ Exists(record) /\ lease[s] # 0
  BY <1>1 DEF CurrentTask, Later, ClaimInv, LeaseInv, Exists
<1>3. PICK outcome \in Outcomes(record, KindOf[s]) \cup {record}, advance \in BOOLEAN :
         /\ Write([outcome EXCEPT !.events = @ \cup {s}], advance)
         /\ lastWriter' = IF record'.tsr = record.tsr THEN lastWriter ELSE id[s]
         /\ judge' = IF outcome.verdict = "none" THEN None
                     ELSE IF KindOf[s] = "review" /\ outcome \notin {record, ReviewFailed(record)}
                     THEN id[s]
                     ELSE judge
         /\ delivered' = IF outcome = DevFinished(record) /\ KindOf[s] = "dev"
                         THEN id[s] ELSE delivered
  BY <1>1 DEF MutationCommits
<1> DEFINE next == [outcome EXCEPT !.events = outcome.events \cup {s}]
<1>4. /\ outcome \in Workflow(Event)
      /\ outcome.tsr = record.tsr
      /\ outcome.dev = record.dev
      /\ outcome.review = record.review
  BY <1>3, OutcomeFields
<1>5. /\ outcome.run = record.run
      /\ outcome.used = record.used
      /\ outcome.halted = record.halted
      /\ outcome.running = record.running
  BY <1>3, OutcomeFields
<1>6. /\ next \in Workflow(Event)
      /\ next.tsr = record.tsr
      /\ next.stage = outcome.stage
      /\ next.dev = record.dev
      /\ next.review = record.review
      /\ next.verdict = outcome.verdict
  BY <1>4 DEF Workflow, Event
<1>7. /\ next.run = record.run
      /\ next.used = record.used
      /\ next.halted = record.halted
      /\ next.running = record.running
  BY <1>4, <1>5 DEF Workflow
<1>8. record' = Commit(record, next, advance)
  BY <1>3 DEF Write
<1> HIDE DEF next
<1>9. /\ record' \in Workflow(Event)
      /\ record'.rev = record.rev + 1
      /\ record'.tsr \in {record.tsr, record.tsr + 1}
      /\ record'.stage = outcome.stage
      /\ record'.dev = record.dev
      /\ record'.review = record.review
      /\ record'.verdict = outcome.verdict
  BY <1>6, <1>8, CommitFields
<1>10. /\ record'.run = record.run
       /\ record'.used = record.used
       /\ record'.halted = record.halted
       /\ record'.running = record.running
  BY <1>6, <1>7, <1>8, CommitFields
<1>11. /\ lease' = [lease EXCEPT ![s] = record'.tsr]
       /\ pc' = [pc EXCEPT ![s] = "owner"]
       /\ seen' = [seen EXCEPT ![s] = Absent]
       /\ UNCHANGED <<minted, runs, expect, runOf, id, lastClaim, revoked, grants>>
  BY DEF MutationCommits, Goto, Forget, caller
<1>12. /\ record.tsr \in Nat /\ record'.tsr \in Nat /\ record.tsr <= record'.tsr
       /\ Exists(record')
  BY SMTT(20), <1>9, RecordFields DEF Exists
<1>13. TypeOK'
  <2>1. lastWriter' \in Nat /\ judge' \in Nat /\ delivered' \in Nat
    BY <1>3 DEF None
  <2>2. QED
    BY <1>9, <1>11, <1>12, <2>1, AbsentType DEF Label
<1>14. SeenInv'
  BY <1>1, <1>9, <1>11, SeenAfterWrite
<1>15. IdInv'
  BY <1>1, <1>11 DEF IdInv, Clients
<1>16. outcome.stage # record.stage =>
           /\ KindOf[s] = "dev" => outcome.stage \in {"review-ready", "developing"}
           /\ KindOf[s] # "dev" => outcome.stage \in {"review-ready", "passed"}
  BY ZenonT(40), <1>3 DEF Outcomes, DevFinished, DevInterrupted, ReviewFailed, ReviewUnparsed, ReviewRejects,
              ReviewPasses, Workflow
<1>17. KindOf[s] = "dev" => record.dev = lastClaim
  BY <1>1, <1>2 DEF ClaimInv
<1>18. ClaimInv'
  <2>1. /\ record'.stage = "developing" => record'.dev = lastClaim'
        /\ record'.stage = "reviewing" => record'.review = lastClaim'
    BY <1>9, <1>11, <1>16, <1>17 DEF ClaimInv
  <2>2. ASSUME NEW t \in Starts, pc'[t] \in {"frozen", "minted"}
        PROVE  /\ expect[t].tsr <= record'.tsr
               /\ expect[t].tsr = record'.tsr /\ pc'[t] = "minted" => id[t] > lastClaim
    <3>1. t # s /\ t \in Clients /\ pc'[t] = pc[t]
      BY <1>1, <1>11, <2>2 DEF Clients
    <3>2. expect[t].tsr <= record.tsr /\ expect[t].tsr \in Nat
      BY <2>2, <3>1 DEF ClaimInv, Expectation
    <3>3. expect[t].tsr = record'.tsr => expect[t].tsr = record.tsr
      BY <1>9, <1>12, <3>2
    <3>4. QED
      BY <1>12, <3>1, <3>2, <3>3 DEF ClaimInv
  <2>3. QED
    BY <1>9, <1>11, <1>12, <2>1, <2>2 DEF ClaimInv
<1>19. LeaseInv'
  <2>1. id[s] \notin revoked
    BY <1>1, <1>2, <1>12 DEF LeaseInv
  <2>2. lease'[s] = record'.tsr /\ lease'[s] # 0 /\ lastWriter' = id[s]
    <3>1. lastWriter = id[s]
      BY <1>1, <1>2 DEF LeaseInv, LeaseNamesLastWriter
    <3>2. QED
      BY <1>1, <1>2, <1>3, <1>9, <1>11, <1>12, <3>1
  <2>3. ASSUME NEW t \in Starts, t # s
        PROVE  /\ lease'[t] = lease[t]
               /\ pc'[t] = pc[t]
               /\ lease[t] <= record'.tsr
               /\ lease[t] = record'.tsr => lease[t] = record.tsr
               /\ lease[t] < record.tsr => lease[t] < record'.tsr
    BY <1>9, <1>11, <1>12, <2>3 DEF LeaseInv, Clients
  <2>4. ASSUME NEW t \in Starts, t # s, lease[t] # 0, lease[t] = record'.tsr
        PROVE  lastWriter' = id[t]
    <3>1. lease[t] = record.tsr /\ record'.tsr = record.tsr
      BY <2>3, <2>4
    <3>2. QED
      BY <1>3, <2>4, <3>1 DEF LeaseInv, LeaseNamesLastWriter
  <2>5. pc'[s] = "owner"
    BY <1>1, <1>11
  <2>6. LeaseNamesLastWriter'
    BY <1>11, <2>2, <2>3, <2>4 DEF LeaseNamesLastWriter
  <2>7. ASSUME NEW t \in Starts
        PROVE  /\ lease'[t] # 0 => id[t] # None /\ id[t] <= lastClaim
               /\ lease'[t] <= record'.tsr
               /\ pc'[t] \in {"owner", "loaded"} => lease'[t] # 0
               /\ pc'[t] \in {"idle", "frozen", "minted"} => lease'[t] = 0
               /\ lease'[t] # 0 /\ id[t] \in revoked => lease'[t] < record'.tsr
    <3>1. CASE t = s
      BY <1>1, <1>2, <1>12, <2>1, <2>2, <2>5, <3>1
    <3>2. CASE t # s
      BY <1>12, <2>3, <3>2 DEF LeaseInv
    <3>3. QED
      BY <3>1, <3>2
  <2>8. QED
    BY <1>11, <2>6, <2>7 DEF LeaseInv
<1>20. VerdictInv'
  <2>1. CASE outcome = record
    <3>1. judge' = IF record.verdict = "none" THEN None ELSE judge
      BY <1>3, <2>1
    <3>2. delivered' \in {delivered, id[s]} /\ (delivered' # delivered => record.verdict = "none" /\ KindOf[s] = "dev")
      BY <1>3, <2>1 DEF DevFinished, Workflow
    <3>3. record.verdict # "none" => delivered' = delivered /\ judge' = judge
      BY <3>1, <3>2
    <3>4. QED
      BY <1>2, <1>9, <1>11, <2>1, <3>1, <3>2, <3>3 DEF VerdictInv, VerdictIsFresh, PassedHasVerdict, None, IdInv
  <2>2. CASE KindOf[s] = "dev" /\ outcome = DevFinished(record)
    <3>1. outcome.stage = "review-ready" /\ outcome.verdict = "none"
      BY <2>2 DEF DevFinished, Workflow
    <3>2. judge' = None /\ delivered' = id[s]
      BY <1>3, <2>2, <3>1
    <3>3. QED
      BY <1>2, <1>9, <1>11, <2>2, <3>1, <3>2 DEF VerdictInv, VerdictIsFresh, PassedHasVerdict, None, IdInv
  <2>3. CASE KindOf[s] = "dev" /\ outcome = DevInterrupted(record)
    <3>1. outcome.stage = "developing" /\ outcome.verdict = record.verdict /\ outcome # DevFinished(record)
      BY ZenonT(40), <2>3 DEF DevInterrupted, DevFinished, Workflow
    <3>2. delivered' = delivered /\ judge' = IF record.verdict = "none" THEN None ELSE judge
      BY <1>3, <2>3, <3>1
    <3>3. QED
      BY <1>9, <1>11, <3>1, <3>2 DEF VerdictInv, VerdictIsFresh, PassedHasVerdict, None
  <2>4. CASE KindOf[s] = "review" /\ outcome = ReviewFailed(record)
    <3>1. outcome.stage = "review-ready" /\ outcome.verdict = record.verdict
      BY <2>4 DEF ReviewFailed, Workflow
    <3>2. delivered' = delivered /\ judge' = IF record.verdict = "none" THEN None ELSE judge
      BY <1>3, <2>4, <3>1
    <3>3. QED
      BY <1>9, <1>11, <3>1, <3>2 DEF VerdictInv, VerdictIsFresh, PassedHasVerdict, None
  <2>5. CASE KindOf[s] = "review" /\ outcome = ReviewUnparsed(record)
    <3>1. outcome.stage = "review-ready" /\ outcome.verdict = "none"
      BY <2>5 DEF ReviewUnparsed, Workflow
    <3>2. delivered' = delivered /\ judge' = None
      BY <1>3, <2>5, <3>1
    <3>3. QED
      BY <1>9, <1>11, <3>1, <3>2 DEF VerdictInv, VerdictIsFresh, PassedHasVerdict, None
  <2>6. CASE /\ KindOf[s] = "review"
             /\ outcome \in {ReviewRejects(record), ReviewPasses(record)}
             /\ outcome \notin {record, ReviewFailed(record)}
    <3>1. /\ outcome.verdict # "none"
          /\ outcome.stage = "passed" => outcome.verdict = "passed"
      BY <2>6 DEF ReviewRejects, ReviewPasses, Workflow
    <3>2. delivered' = delivered /\ judge' = id[s]
      BY <1>3, <2>6, <3>1
    <3>3. delivered # lastClaim
      BY <1>1, <1>2, <2>6 DEF VerdictInv
    <3>4. QED
      BY <1>2, <1>9, <1>11, <3>1, <3>2, <3>3 DEF VerdictInv, VerdictIsFresh, PassedHasVerdict
  <2>7. QED
    BY <1>3, <2>1, <2>2, <2>3, <2>4, <2>5, <2>6 DEF Outcomes, Kind
<1>21. RunInv'
  BY <1>10, <1>11 DEF RunInv
<1>22. QED
  BY <1>13, <1>14, <1>15, <1>18, <1>19, <1>20, <1>21

-----------------------------------------------------------------------------
(* The theorems *)

\* StoreInv is inductive.
LEMMA StoreInvStep == StoreInv /\ [Next]_vars => StoreInv'
<1> SUFFICES ASSUME StoreInv, [Next]_vars PROVE StoreInv'
  OBVIOUS
<1>1. CASE UNCHANGED vars
  BY <1>1 DEF vars, StoreInv, TypeOK, SeenInv, IdInv, ClaimInv, Exists, LeaseInv, LeaseNamesLastWriter,
              VerdictInv, VerdictIsFresh, PassedHasVerdict, RunInv
<1>2. ASSUME NEW s \in Starts, Freeze(s) PROVE StoreInv'
  BY <1>2, FreezeStep
<1>3. ASSUME NEW s \in Starts, Mint(s) PROVE StoreInv'
  BY <1>3, MintStep
<1>4. ASSUME NEW s \in Starts, Claim(s) PROVE StoreInv'
  BY <1>4, ClaimRefusedStep, ClaimRetriesStep, ClaimCommitsStep DEF Claim
<1>5. ASSUME NEW s \in Starts, Mutate(s) PROVE StoreInv'
  BY <1>5, LoadForTaskStep, MutationLostStep, MutationRetriesStep, MutationCommitsStep DEF Mutate
<1>6. ASSUME NEW s \in Starts, StopTask(s) PROVE StoreInv'
  BY <1>6, StopTaskStep
<1>7. ASSUME NEW s \in Starts, Crash(s) PROVE StoreInv'
  BY <1>7, CrashStep
<1>8. ASSUME NEW c \in Writers \cup Controllers, Load(c) PROVE StoreInv'
  BY <1>8, LoadStep
<1>9. ASSUME NEW w \in Writers, CommitMetadata(w) PROVE StoreInv'
  BY <1>9, CommitMetadataStep
<1>10. ASSUME NEW c \in Controllers, Control(c) PROVE StoreInv'
  BY <1>10, ControlConflictsStep, AuthorizeRunStep, ConsumeCooldownStep, FuseStep,
     StopPreparationStep, PrepareStep DEF Control
<1>11. QED
  BY <1>1, <1>2, <1>3, <1>4, <1>5, <1>6, <1>7, <1>8, <1>9, <1>10 DEF Next

\* Every reachable state of the store satisfies StoreInv.
THEOREM StoreInvariant == Spec => []StoreInv
<1>1. Init => StoreInv
  BY InitStoreInv
<1>2. StoreInv /\ [Next]_vars => StoreInv'
  BY StoreInvStep
<1>3. QED
  BY <1>1, <1>2, PTL DEF Spec

\* TypeOK: a command of workflow-persistence.ts only writes records.
THEOREM StoreTypes == Spec => []TypeOK
<1>1. StoreInv => TypeOK
  BY DEF StoreInv
<1>2. QED
  BY <1>1, StoreInvariant, PTL

\* LeaseNamesLastWriter: the lease that conditionalCommit accepts is that of
\* the task that made the last lifecycle change.
THEOREM LeaseIsExclusive == Spec => []LeaseNamesLastWriter
<1>1. StoreInv => LeaseNamesLastWriter
  BY DEF StoreInv, LeaseInv
<1>2. QED
  BY <1>1, StoreInvariant, PTL

\* CurrentIsLastClaim: currentWorkflowTaskRef answers with the last task that
\* claimed, whatever stage the record is in.
THEOREM CurrentTaskIsLastClaim == Spec => []CurrentIsLastClaim
<1>1. StoreInv => CurrentIsLastClaim
  <2> SUFFICES ASSUME StoreInv PROVE CurrentIsLastClaim
    OBVIOUS
  <2>1. record.dev \in Nat /\ record.review \in Nat /\ lastClaim \in Nat
    BY RecordFields DEF StoreInv, TypeOK
  <2>2. QED
    BY <2>1 DEF StoreInv, ClaimInv, CurrentIsLastClaim, CurrentTask, Later
<1>2. QED
  BY <1>1, StoreInvariant, PTL

\* RevokedNeverCommits: after stopWorkflowTask or a successor's claim, no
\* mutateWorkflowForTask of the task commits.
THEOREM RevokedLeaseIsDead == Spec => RevokedNeverCommits
<1>1. StoreInv => \A s \in Starts : id[s] \in revoked => ~MutationCommits(s)
  <2> SUFFICES ASSUME StoreInv, NEW s \in Starts, id[s] \in revoked, MutationCommits(s)
               PROVE  FALSE
    OBVIOUS
  <2>1. lease[s] = record.tsr /\ lease[s] # 0
    BY DEF MutationCommits, HoldsLease, StoreInv, LeaseInv
  <2>2. lease[s] < record.tsr /\ record.tsr \in Nat
    BY <2>1, RecordFields DEF StoreInv, TypeOK, LeaseInv
  <2>3. QED
    BY <2>1, <2>2
<1>2. StoreInv /\ [Next]_vars =>
        [\A s \in Starts : id[s] \in revoked => ~MutationCommits(s)]_vars
  BY <1>1
<1>3. QED
  BY <1>2, StoreInvariant, PTL DEF Spec, RevokedNeverCommits

\* VerdictIsFresh and PassedHasVerdict: a reviewResult is about the newest
\* development that finished, and "passed" is what the last task decided.
THEOREM VerdictsHold == Spec => [](VerdictIsFresh /\ PassedHasVerdict)
<1>1. StoreInv => VerdictIsFresh /\ PassedHasVerdict
  BY DEF StoreInv, VerdictInv
<1>2. QED
  BY <1>1, StoreInvariant, PTL

\* OneCooldownPerRun: consumeRecoveryCooldown grants a run one cooldown.
THEOREM OneCooldown == Spec => []OneCooldownPerRun
<1>1. StoreInv => OneCooldownPerRun
  BY DEF StoreInv, RunInv, OneCooldownPerRun
<1>2. QED
  BY <1>1, StoreInvariant, PTL

-----------------------------------------------------------------------------
(* What a step may do to the timeline and to a halted run *)

\* What no step of the store may do.
HaltKept ==
    record.halted /\ record'.run = record.run => record'.halted /\ ~record'.running

RunKept ==
    /\ record'.run = record.run
    /\ record'.halted = record.halted
    /\ record'.running = record.running

\* A run that is kept stays halted.
LEMMA RunKeptHalts ==
    ASSUME StoreInv, RunKept
    PROVE  HaltKept
  BY DEF StoreInv, RunInv, RunKept, HaltKept

\* Every step keeps the events of the record, and a halted run halted.
LEMMA KeptStep == StoreInv /\ [Next]_vars => record.events \subseteq record'.events /\ HaltKept
<1> SUFFICES ASSUME StoreInv, [Next]_vars
             PROVE  record.events \subseteq record'.events /\ HaltKept
  OBVIOUS
<1> DEFINE Goal == record.events \subseteq record'.events /\ HaltKept
<1> USE StoreAssumption DEF StoreAssumption
<1>0. record \in Workflow(Event)
  BY DEF StoreInv, TypeOK
<1>1. CASE record' = record
  BY <1>1, RunKeptHalts DEF RunKept
<1>2. ASSUME NEW s \in Starts, ClaimCommits(s) PROVE Goal
  <2> DEFINE next == Claimed(record, KindOf[s], id[s])
  <2>1. id[s] \in Nat /\ KindOf[s] \in Kind
    BY DEF StoreInv, TypeOK
  <2>2. next \in Workflow(Event) /\ next.tsr = record.tsr /\ next.events = record.events
    BY <1>0, <2>1 DEF Claimed, Workflow, Stage, Preparation
  <2>3. next.run = record.run /\ next.halted = record.halted /\ next.running = record.running
    BY <1>0 DEF Claimed, Workflow
  <2>4. record' = Commit(record, next, TRUE)
    BY <1>2 DEF ClaimCommits, Write
  <2> HIDE DEF next
  <2>5. record'.events = record.events /\ RunKept
    BY ZenonT(40), <1>0, <2>2, <2>3, <2>4, CommitFields DEF RunKept
  <2>6. QED
    BY <2>5, RunKeptHalts
<1>3. ASSUME NEW s \in Starts, MutationCommits(s) PROVE Goal
  <2>1. seen[s] = record
    BY <1>3 DEF MutationCommits, Fresh, StoreInv, SeenInv, Clients
  <2>2. PICK outcome \in Outcomes(record, KindOf[s]) \cup {record}, advance \in BOOLEAN :
           Write([outcome EXCEPT !.events = @ \cup {s}], advance)
    BY <1>3, <2>1 DEF MutationCommits
  <2> DEFINE next == [outcome EXCEPT !.events = outcome.events \cup {s}]
  <2>3. /\ outcome \in Workflow(Event) /\ outcome.tsr = record.tsr
        /\ outcome.run = record.run
        /\ outcome.halted = record.halted
        /\ outcome.running = record.running
    BY <1>0, <2>2, OutcomeFields
  <2>4. outcome.events = record.events
    BY ZenonT(40), <1>0, <2>2 DEF Outcomes, DevFinished, DevInterrupted, ReviewFailed, ReviewUnparsed,
                      ReviewRejects, ReviewPasses, Workflow
  <2>5. /\ next \in Workflow(Event) /\ next.tsr = outcome.tsr
        /\ next.events = outcome.events \cup {s}
        /\ next.run = outcome.run
        /\ next.halted = outcome.halted
        /\ next.running = outcome.running
    BY <2>3 DEF Workflow, Event
  <2>6. record' = Commit(record, next, advance)
    BY <2>2 DEF Write
  <2> HIDE DEF next
  <2>7. record'.events = next.events /\ record'.run = next.run
        /\ record'.halted = next.halted /\ record'.running = next.running
    <3>1. next \in Workflow(Event) /\ next.tsr = record.tsr
      BY <2>3, <2>5
    <3>2. record'.events = next.events /\ record'.run = next.run
      BY <1>0, <2>6, <3>1, CommitFields
    <3>3. record'.halted = next.halted /\ record'.running = next.running
      BY <1>0, <2>6, <3>1, CommitFields
    <3>4. QED
      BY <3>2, <3>3
  <2>8. RunKept /\ record.events \subseteq record'.events
    BY <2>3, <2>4, <2>5, <2>7 DEF RunKept
  <2>9. QED
    BY <2>8, RunKeptHalts
<1>4. ASSUME NEW s \in Starts, StopTask(s) PROVE Goal
  <2> DEFINE next == Stopped(record, KindOf[s])
  <2>1. next \in Workflow(Event) /\ next.tsr = record.tsr /\ next.events = record.events
    BY <1>0 DEF Stopped, Workflow, Stage
  <2>2. next.run = record.run /\ next.halted = record.halted /\ next.running = record.running
    BY <1>0 DEF Stopped, Workflow
  <2>3. record' = Commit(record, next, TRUE)
    BY <1>4 DEF StopTask, Write
  <2> HIDE DEF next
  <2>4. record'.events = record.events /\ RunKept
    BY ZenonT(40), <1>0, <2>1, <2>2, <2>3, CommitFields DEF RunKept
  <2>5. QED
    BY <2>4, RunKeptHalts
<1>5. ASSUME NEW w \in Writers, CommitMetadata(w), Fresh(w) PROVE Goal
  <2>1. seen[w] = record
    BY <1>5 DEF CommitMetadata, Fresh, StoreInv, SeenInv, Clients
  <2>2. PICK running \in {FALSE, record.running} :
           Write([record EXCEPT !.events = record.events \cup {w}, !.running = running], FALSE)
    BY <1>5, <2>1 DEF CommitMetadata
  <2> DEFINE next == [record EXCEPT !.events = record.events \cup {w}, !.running = running]
  <2>3. /\ next \in Workflow(Event) /\ next.tsr = record.tsr
        /\ next.events = record.events \cup {w}
        /\ next.run = record.run
        /\ next.halted = record.halted
        /\ next.running = running
    BY <1>0, <2>2, RecordFields DEF Workflow, Event
  <2>4. record' = Commit(record, next, FALSE)
    BY <2>2 DEF Write
  <2> HIDE DEF next
  <2>5. record'.events = next.events
    BY <1>0, <2>3, <2>4, CommitFields
  <2>6. record'.halted = next.halted /\ record'.running = next.running
    BY <1>0, <2>3, <2>4, CommitFields
  <2>7. HaltKept
    BY <2>2, <2>3, <2>6 DEF HaltKept, StoreInv, RunInv
  <2>8. QED
    BY <2>3, <2>5, <2>7
<1>6. ASSUME NEW c \in Controllers, AuthorizeRun(c) PROVE Goal
  <2> DEFINE r == runs + 1
             next == Authorized(record, r)
  <2>1. r \in Nat /\ r # record.run
    BY <1>0, RecordFields DEF StoreInv, TypeOK, RunInv
  <2>2. record' = Commit(record, next, FALSE)
    BY <1>6 DEF AuthorizeRun, Write
  <2> HIDE DEF r
  <2>3. /\ next \in Workflow(Event) /\ next.tsr = record.tsr
        /\ next.events = record.events /\ next.run = r
    BY <1>0, <2>1 DEF Authorized, Workflow
  <2> HIDE DEF next
  <2>4. record'.events = record.events /\ record'.run = r
    BY <1>0, <2>2, <2>3, CommitFields
  <2>5. QED
    BY <2>1, <2>4 DEF HaltKept
<1>7. ASSUME NEW c \in Controllers, ConsumeCooldown(c) PROVE Goal
  <2>1. ~record.halted
    BY <1>7 DEF ConsumeCooldown, Ready, Fresh, StoreInv, SeenInv, Clients
  <2> DEFINE next == [record EXCEPT !.used = TRUE, !.running = TRUE]
  <2>2. next \in Workflow(Event) /\ next.tsr = record.tsr /\ next.events = record.events
    BY <1>0 DEF Workflow
  <2>3. record' = Commit(record, next, FALSE)
    BY <1>7 DEF ConsumeCooldown, Write
  <2> HIDE DEF next
  <2>4. record'.events = record.events
    BY <1>0, <2>2, <2>3, CommitFields
  <2>5. QED
    BY <2>1, <2>4 DEF HaltKept
<1>8. ASSUME NEW c \in Controllers, Fuse(c) PROVE Goal
  <2>1. seen[c] = record
    BY <1>8 DEF Fuse, Ready, Fresh, StoreInv, SeenInv, Clients
  <2> DEFINE halted == record.halted \/ record.used
             next == [record EXCEPT !.halted = halted, !.running = FALSE]
  <2>2. halted \in BOOLEAN /\ (record.halted => halted)
    BY <1>0, RecordFields
  <2>3. record' = Commit(record, next, FALSE)
    BY <1>8, <2>1 DEF Fuse, Write
  <2> HIDE DEF halted
  <2>4. /\ next \in Workflow(Event) /\ next.tsr = record.tsr /\ next.events = record.events
        /\ next.halted = halted /\ next.running = FALSE
    BY <1>0, <2>2 DEF Workflow
  <2> HIDE DEF next
  <2>5. record'.events = record.events
    BY <1>0, <2>3, <2>4, CommitFields
  <2>6. record'.halted = next.halted /\ record'.running = next.running
    BY <1>0, <2>3, <2>4, CommitFields
  <2>7. QED
    BY <2>2, <2>4, <2>5, <2>6 DEF HaltKept
<1>9. ASSUME NEW c \in Controllers, StopPreparation(c) PROVE Goal
  <2> DEFINE tsr == IF Exists(record) THEN record.tsr ELSE 1
             next == PreparationStopped(record)
  <2>1. /\ tsr \in Nat
        /\ \/ Exists(record) /\ tsr = record.tsr
           \/ ~Exists(record) /\ tsr = record.tsr + 1
    BY <1>0, RecordFields DEF StoreInv, ClaimInv
  <2>2. next = [record EXCEPT !.interrupted = TRUE, !.running = FALSE, !.tsr = tsr]
    BY DEF PreparationStopped
  <2>3. record' = Commit(record, next, TRUE)
    BY <1>9 DEF StopPreparation, Write
  <2> HIDE DEF tsr, next
  <2>4. /\ next \in Workflow(Event) /\ next.tsr = tsr /\ next.events = record.events
        /\ next.halted = record.halted /\ next.running = FALSE
    BY <1>0, <2>1, <2>2 DEF Workflow
  <2>5. record'.events = record.events
    BY <1>0, <2>1, <2>3, <2>4, CommitFields
  <2>6. record'.halted = next.halted /\ record'.running = next.running
    BY <1>0, <2>1, <2>3, <2>4, ForcedFields
  <2>7. QED
    BY <2>4, <2>5, <2>6 DEF HaltKept
<1>10. ASSUME NEW c \in Controllers, Prepare(c) PROVE Goal
  <2>1. PICK status \in Preparation \ {"none"} :
           Write([record EXCEPT !.prep = status, !.prepTsr = record.tsr], FALSE)
    BY <1>10 DEF Prepare
  <2> DEFINE next == [record EXCEPT !.prep = status, !.prepTsr = record.tsr]
  <2>2. /\ next \in Workflow(Event) /\ next.tsr = record.tsr /\ next.events = record.events
    BY <1>0, <2>1, RecordFields DEF Workflow, Preparation
  <2>3. next.run = record.run /\ next.halted = record.halted /\ next.running = record.running
    BY <1>0 DEF Workflow
  <2>4. record' = Commit(record, next, FALSE)
    BY <2>1 DEF Write
  <2> HIDE DEF next
  <2>5. record'.events = record.events /\ RunKept
    BY ZenonT(40), <1>0, <2>2, <2>3, <2>4, CommitFields DEF RunKept
  <2>6. QED
    BY <2>5, RunKeptHalts
<1>11. QED
  <2>1. ASSUME NEW s \in Starts, Freeze(s) \/ Mint(s) \/ Claim(s) \/ Mutate(s) \/ StopTask(s) \/ Crash(s)
        PROVE  Goal
    BY <1>1, <1>2, <1>3, <1>4, <2>1
       DEF Freeze, Mint, Claim, ClaimRefused, ClaimRetries, Mutate, LoadForTask, MutationLost,
           MutationRetries, Crash
  <2>2. ASSUME NEW c \in Writers \cup Controllers, Load(c) PROVE Goal
    BY <1>1, <2>2 DEF Load
  <2>3. ASSUME NEW w \in Writers, CommitMetadata(w) PROVE Goal
    BY <1>1, <1>5, <2>3 DEF CommitMetadata
  <2>4. ASSUME NEW c \in Controllers, Control(c) PROVE Goal
    BY <1>1, <1>6, <1>7, <1>8, <1>9, <1>10, <2>4 DEF Control, ControlConflicts
  <2>5. CASE UNCHANGED vars
    BY <1>1, <2>5 DEF vars
  <2>6. QED
    BY <2>1, <2>2, <2>3, <2>4, <2>5 DEF Next

\* EventsKept: the revision check of conditionalCommit loses no event.
THEOREM TimelineKept == Spec => EventsKept
<1>1. StoreInv /\ [Next]_vars => [record.events \subseteq record'.events]_vars
  BY KeptStep
<1>2. QED
  BY <1>1, StoreInvariant, PTL DEF Spec, EventsKept

\* HaltIsFinal: applyRecoveryControl never lets a halted run go on.
THEOREM HaltedRunStaysHalted == Spec => HaltIsFinal
<1>1. StoreInv /\ [Next]_vars =>
        [record.halted /\ record'.run = record.run => record'.halted /\ ~record'.running]_vars
  BY KeptStep DEF HaltKept
<1>2. QED
  BY <1>1, StoreInvariant, PTL DEF Spec, HaltIsFinal

=============================================================================
