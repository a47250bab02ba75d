------------------------ MODULE TaskLifecycleProofs ------------------------
(***************************************************************************)
(* Theorems about TaskLifecycle: however many requests, controllers and    *)
(* hosts there are, a host runs one agent of the workflow at most, and the *)
(* end of a host job proves the end of its agent.  The argument follows    *)
(* where a task is in its code: an agent lives only while settle waits for *)
(* it, a task that waits has an open host job, and the registry hands out  *)
(* one job of the workflow at a time.                                      *)
(*                                                                         *)
(* Below it, across hosts: one task works for the workflow, the one the    *)
(* record names, and what a review reads is its own.                       *)
(***************************************************************************)
EXTENDS TaskLifecycle, FiniteSetTheorems, TLAPS

AliveIn(c) == agent[c] \in {"alive", "killed"}

\* The part of the state the argument is about.
Shape ==
    /\ pc \in [Calls -> Label]
    /\ live \in [Calls -> {"none", "open", "closed"}]
    /\ job \in [Calls -> {"none", "active", "settled"}]
    /\ agent \in [Calls -> {"none", "alive", "killed", "exited"}]

\* Before the launch there is no agent, and no job before it is reserved.
NoAgentYet(c) ==
    /\ pc[c] \in {"idle", "loaded", "reserved", "hosted", "claimed", "cleared"} => agent[c] = "none"
    /\ pc[c] \in {"idle", "loaded", "reserved"} => job[c] = "none"
    /\ pc[c] \in {"idle", "loaded"} => live[c] = "none"

\* A task that can still be launched, or is running, has an open job.
HasJob(c) ==
    /\ pc[c] \in {"hosted", "claimed", "cleared"} /\ live[c] = "open" => job[c] = "active"
    /\ pc[c] \in {"running", "fallback", "relaunch"} =>
           live[c] = "open" /\ job[c] = "active" /\ agent[c] # "none"

LivesWhileRunning(c) == AliveIn(c) => pc[c] = "running"

\* What the death of a host leaves.
Gone(c) == pc[c] = "done" /\ live[c] = "none" /\ job[c] = "none"

Lives(c) ==
    IF Home(c) \in up
    THEN NoAgentYet(c) /\ HasJob(c) /\ LivesWhileRunning(c)
    ELSE Gone(c)

OneJob == \A c, t \in Calls :
    Home(c) = Home(t) /\ job[c] = "active" /\ job[t] = "active" => c = t

TaskInv == Shape /\ (\A c \in Calls : Lives(c)) /\ OneJob

\* Nothing a task's agent depends on changes for it in this step.
Same(c) == pc'[c] = pc[c] /\ live'[c] = live[c] /\ job'[c] = job[c] /\ agent'[c] = agent[c]

-----------------------------------------------------------------------------

\* A step of one task that leaves the hosts alone keeps the invariant when
\* it keeps the task's own part of it.
LEMMA OneTaskStep ==
    ASSUME TaskInv, NEW c \in Calls, up' = up, Shape',
           \A t \in Calls \ {c} : Same(t),
           Lives(c)',
           job'[c] = "active" => job[c] = "active" \/ ~HostBusy(c)
    PROVE TaskInv'
<1>1. ASSUME NEW t \in Calls PROVE Lives(t)'
  <2>1. CASE t = c
    BY <2>1
  <2>2. CASE t # c
    BY <2>2 DEF TaskInv, Lives, Same, NoAgentYet, HasJob, LivesWhileRunning, AliveIn, Gone, Home
  <2>3. QED
    BY <2>1, <2>2
<1>2. OneJob'
  <2>1. SUFFICES ASSUME NEW a \in Calls, NEW b \in Calls, Home(a) = Home(b),
                        job'[a] = "active", job'[b] = "active", a # b
                 PROVE FALSE
    BY DEF OneJob, Home
  <2>2. \A t \in Calls \ {c} : job'[t] = job[t]
    BY DEF Same
  <2>3. CASE a # c /\ b # c
    BY <2>1, <2>2, <2>3 DEF TaskInv, OneJob
  <2>4. CASE a = c
    BY <2>1, <2>2, <2>4 DEF TaskInv, OneJob, HostBusy
  <2>5. CASE b = c
    BY <2>1, <2>2, <2>5 DEF TaskInv, OneJob, HostBusy
  <2>6. QED
    BY <2>3, <2>4, <2>5
<1>3. QED
  BY <1>1, <1>2 DEF TaskInv

-----------------------------------------------------------------------------

USE DEF Shape, Same, Lives, NoAgentYet, HasJob, LivesWhileRunning, AliveIn, Gone,
        Goto, At, FinishTask, Leave, Label

\* Requests, up to the claim.
LEMMA RequestStep ==
    ASSUME TaskInv, NEW c \in Calls, Admission(c) \/ Preparing(c) \/ Claim(c)
    PROVE TaskInv'
<1>0. Home(c)' = Home(c)
  BY DEF Home
<1>1. CASE Load(c)
  BY <1>0, <1>1, OneTaskStep DEF TaskInv, Load, supervised
<1>2. CASE Turned(c)
  BY <1>0, <1>2, OneTaskStep DEF TaskInv, Turned, supervised
<1>3. CASE ReserveGate(c)
  BY <1>0, <1>3, OneTaskStep DEF TaskInv, ReserveGate
<1>4. CASE StartDevelop(c)
  BY <1>0, <1>4, OneTaskStep DEF TaskInv, StartDevelop
<1>5. CASE PrepareFails(c)
  BY <1>0, <1>5, OneTaskStep DEF TaskInv, PrepareFails
<1>6. CASE SnapshotThrows(c)
  BY <1>0, <1>6, OneTaskStep DEF TaskInv, SnapshotThrows, supervised
<1>7. CASE ReserveHost(c)
  BY <1>0, <1>7, OneTaskStep DEF TaskInv, ReserveHost
<1>8. CASE ClaimLost(c)
  BY <1>0, <1>8, OneTaskStep DEF TaskInv, ClaimLost
<1>9. CASE ClaimWon(c)
  BY <1>0, <1>9, OneTaskStep DEF TaskInv, ClaimWon, supervised
<1>10. CASE RecoveryThrows(c)
  BY <1>0, <1>10, OneTaskStep DEF TaskInv, RecoveryThrows, supervised
<1>11. QED
  BY <1>1, <1>2, <1>3, <1>4, <1>5, <1>6, <1>7, <1>8, <1>9, <1>10
     DEF Admission, Preparing, Claim

\* From the claim to the end of the task.
LEMMA SuperviseStep ==
    ASSUME TaskInv, NEW c \in Calls, Supervise(c)
    PROVE TaskInv'
<1>0. Home(c)' = Home(c)
  BY DEF Home
<1>1. CASE ClearResult(c)
  BY <1>0, <1>1, OneTaskStep DEF TaskInv, ClearResult, Ends, supervised
<1>2. CASE Launch(c)
  <2>1. pc[c] \in {"claimed", "cleared"} /\ Home(c) \in up
    BY <1>2 DEF Launch, ReadyToLaunch
  <2>2. CASE Launchable(c) /\ Starts(c)
    BY <1>0, <1>2, <2>1, <2>2, OneTaskStep DEF TaskInv, Launch, Launchable, Starts, Ends, supervised
  <2>3. CASE ~Launchable(c) /\ Leave(c) /\ UNCHANGED <<result, agent>>
    BY <1>0, <1>2, <2>1, <2>3, OneTaskStep DEF TaskInv, Launch, supervised
  <2>4. QED
    BY <1>2, <2>2, <2>3 DEF Launch
<1>3. CASE Settle(c)
  BY <1>0, <1>3, OneTaskStep DEF TaskInv, Settle, Ends, supervised
<1>4. CASE SettleFails(c)
  BY <1>0, <1>4, OneTaskStep DEF TaskInv, SettleFails
<1>5. CASE ClearStaleSession(c)
  <2>1. CASE Goto(c, "relaunch")
    BY <1>0, <1>5, <2>1, OneTaskStep DEF TaskInv, ClearStaleSession, supervised
  <2>2. CASE Goto(c, "exiting")
    BY <1>0, <1>5, <2>2, OneTaskStep DEF TaskInv, ClearStaleSession, supervised
  <2>3. QED
    BY <1>5, <2>1, <2>2 DEF ClearStaleSession, Ends
<1>6. CASE Relaunch(c)
  BY <1>0, <1>6, OneTaskStep DEF TaskInv, Relaunch, Starts, Ends, supervised
<1>7. CASE Report(c)
  BY <1>0, <1>7, OneTaskStep DEF TaskInv, Report, supervised
<1>8. CASE Close(c)
  BY <1>0, <1>8, OneTaskStep DEF TaskInv, Close
<1>9. QED
  BY <1>1, <1>2, <1>3, <1>4, <1>5, <1>6, <1>7, <1>8 DEF Supervise

\* To cancel a task kills the agent it has, and ends it when it has none.
LEMMA CancelStep ==
    ASSUME TaskInv, NEW c \in Calls, Cancel(c), up' = up, pc' = pc
    PROVE TaskInv'
<1>0. Home(c)' = Home(c)
  BY DEF Home
<1>1. Home(c) \in up /\ live[c] = "open"
  BY DEF TaskInv, Cancel
<1>2. CASE agent[c] = "none"
  BY <1>0, <1>1, <1>2, OneTaskStep DEF TaskInv, Cancel
<1>3. CASE agent[c] # "none"
  BY <1>0, <1>1, <1>3, OneTaskStep DEF TaskInv, Cancel
<1>4. QED
  BY <1>2, <1>3

\* Steps that leave tasks, jobs and agents as they are.
LEMMA QuietStep ==
    ASSUME TaskInv, UNCHANGED <<up, pc, live, job, agent>>
    PROVE TaskInv'
BY DEF TaskInv, OneJob, Home

LEMMA AgentStep ==
    ASSUME TaskInv, NEW c \in Calls, Agent(c)
    PROVE TaskInv'
<1>0. Home(c)' = Home(c)
  BY DEF Home
<1>1. CASE AgentWrites(c)
  BY <1>1, QuietStep DEF AgentWrites, supervised
<1>2. CASE AgentExits(c)
  BY <1>0, <1>2, OneTaskStep DEF TaskInv, AgentExits, supervised
<1>3. QED
  BY <1>1, <1>2 DEF Agent

LEMMA StopStep ==
    ASSUME TaskInv, NEW c \in Calls,
           \/ StopLocal(c) \/ CommitStop(c) \/ HostCancel(c) \/ Timeout(c)
           \/ \E k \in Controllers : StopRemote(k, c)
    PROVE TaskInv'
<1>1. CASE StopLocal(c) \/ HostCancel(c) \/ Timeout(c)
  BY <1>1, CancelStep DEF StopLocal, HostCancel, Timeout
<1>2. CASE CommitStop(c)
  BY <1>2, QuietStep DEF CommitStop, supervised
<1>3. CASE \E k \in Controllers : StopRemote(k, c)
  <2>1. up' = up /\ pc' = pc
    BY <1>3 DEF StopRemote
  <2>2. Cancel(c) \/ UNCHANGED <<supervised, agent>>
    BY <1>3 DEF StopRemote
  <2>3. QED
    BY <2>1, <2>2, CancelStep, QuietStep DEF supervised
<1>4. QED
  BY <1>1, <1>2, <1>3

LEMMA HostDiesStep ==
    ASSUME TaskInv, NEW h \in Hosts, HostDies(h)
    PROVE TaskInv'
<1>1. Shape'
  BY DEF TaskInv, HostDies
<1>2. ASSUME NEW c \in Calls PROVE Lives(c)'
  <2>1. CASE Home(c) = h
    BY <2>1 DEF TaskInv, HostDies, Home
  <2>2. CASE Home(c) # h
    BY <2>2 DEF TaskInv, HostDies, Home
  <2>3. QED
    BY <2>1, <2>2
<1>3. OneJob'
  BY DEF TaskInv, HostDies, OneJob, Home
<1>4. QED
  BY <1>1, <1>2, <1>3 DEF TaskInv

-----------------------------------------------------------------------------

\* Where a task is tells whether its agent can live; every step keeps it.
THEOREM TaskInvariant == Spec => []TaskInv
<1>1. Init => TaskInv
  <2>1. \A c \in Calls : Home(c) \in Hosts
    BY TaskAssumption DEF TaskAssumption, Home
  <2>2. QED
    BY <2>1 DEF Init, TaskInv, OneJob
<1>2. TaskInv /\ [Next]_vars => TaskInv'
  <2>1. SUFFICES ASSUME TaskInv, [Next]_vars PROVE TaskInv'
    OBVIOUS
  <2>2. CASE UNCHANGED vars
    BY <2>1, <2>2, QuietStep DEF vars
  <2>3. ASSUME NEW c \in Calls, Admission(c) \/ Preparing(c) \/ Claim(c) PROVE TaskInv'
    BY <2>1, <2>3, RequestStep
  <2>4. ASSUME NEW c \in Calls, Supervise(c) PROVE TaskInv'
    BY <2>1, <2>4, SuperviseStep
  <2>5. ASSUME NEW c \in Calls, Agent(c) PROVE TaskInv'
    BY <2>1, <2>5, AgentStep
  <2>6. ASSUME NEW c \in Calls,
               \/ StopLocal(c) \/ CommitStop(c) \/ HostCancel(c) \/ Timeout(c)
               \/ \E k \in Controllers : StopRemote(k, c)
        PROVE TaskInv'
    BY <2>1, <2>6, StopStep
  <2>7. ASSUME NEW h \in Hosts, HostDies(h) PROVE TaskInv'
    BY <2>1, <2>7, HostDiesStep
  <2>8. QED
    BY <2>1, <2>2, <2>3, <2>4, <2>5, <2>6, <2>7 DEF Next
<1>3. QED
  BY <1>1, <1>2, PTL DEF Spec

\* On one host two agents of a workflow never live at the same time: each
\* has an open job, and the registry holds one such job at most.
THEOREM OneAgent == Spec => []OneAgentPerHost
<1>1. TaskInv => OneAgentPerHost
  <2>1. SUFFICES ASSUME TaskInv, NEW h \in up
                 PROVE Cardinality({c \in Calls : Home(c) = h /\ AliveIn(c)}) <= 1
    BY DEF OneAgentPerHost
  <2> DEFINE S == {c \in Calls : Home(c) = h /\ AliveIn(c)}
  <2>2. \A c, t \in S : c = t
    BY <2>1 DEF TaskInv, OneJob
  <2>3. CASE S = {}
    BY <2>3, FS_EmptySet
  <2>4. CASE S # {}
    <3>1. PICK c \in S : TRUE
      BY <2>4
    <3>2. S = {c}
      BY <2>2, <3>1
    <3>3. Cardinality({c}) = 1
      BY FS_Singleton
    <3>4. QED
      BY <3>2, <3>3
  <2>5. QED
    BY <2>3, <2>4
<1>2. QED
  BY <1>1, TaskInvariant, PTL

\* The gate takes a job that ended for proof that its agent is gone, and it
\* is one.
THEOREM EndedJobIsProof == Spec => []EndedJobMeansDeadAgent
<1>1. TaskInv => EndedJobMeansDeadAgent
  BY DEF TaskInv, EndedJobMeansDeadAgent
<1>2. QED
  BY <1>1, TaskInvariant, PTL

HIDE DEF Shape, Same, Lives, NoAgentYet, HasJob, LivesWhileRunning, AliveIn, Gone,
         Goto, At, FinishTask, Leave, Label

-----------------------------------------------------------------------------
(* What the commands of a task make of the record *)

\* The outcomes of a run change the task state or nothing.
LEMMA OutcomeFacts ==
    ASSUME record \in Workflow({}), NEW c \in Calls, NEW next \in OutcomesOf(c)
    PROVE  /\ next \in Workflow({})
           /\ next.tsr = record.tsr /\ next.dev = record.dev /\ next.review = record.review
           /\ ~TaskStateChanged(record, next) => next = record
<1>1. next \in {DevFinished(record), DevInterrupted(record), ReviewPasses(record),
                ReviewRejects(record), ReviewUnparsed(record), ReviewFailed(record)}
  BY DEF OutcomesOf
<1>2. CASE next = DevFinished(record)
  BY <1>2 DEF DevFinished, Workflow, Stage, TaskStateChanged
<1>3. CASE next = DevInterrupted(record)
  BY <1>3 DEF DevInterrupted, Workflow, Stage, TaskStateChanged
<1>4. CASE next = ReviewPasses(record)
  BY <1>4 DEF ReviewPasses, Workflow, Stage, TaskStateChanged
<1>5. CASE next = ReviewRejects(record)
  BY <1>5 DEF ReviewRejects, Workflow, Stage, TaskStateChanged
<1>6. CASE next = ReviewUnparsed(record)
  BY <1>6 DEF ReviewUnparsed, Workflow, Stage, TaskStateChanged
<1>7. CASE next = ReviewFailed(record)
  BY <1>7 DEF ReviewFailed, Workflow, Stage, TaskStateChanged
<1>8. QED
  BY <1>1, <1>2, <1>3, <1>4, <1>5, <1>6, <1>7

LEMMA ClaimedFacts ==
    ASSUME record \in Workflow({}), NEW kind \in Kind, NEW i \in Nat,
           NEW next, next = Claimed(record, kind, i)
    PROVE  /\ next \in Workflow({}) /\ next.tsr = record.tsr
           /\ kind = "dev" => /\ next.stage = "developing" /\ ~next.interrupted
                              /\ next.dev = i /\ next.review = record.review
           /\ kind # "dev" => /\ next.stage = "reviewing"
                              /\ next.review = i /\ next.dev = record.dev
<1>1. CASE kind = "dev"
  BY <1>1 DEF Claimed, Workflow, Stage, Preparation
<1>2. CASE kind # "dev"
  BY <1>2 DEF Claimed, Workflow, Stage, Preparation
<1>3. QED
  BY <1>1, <1>2

LEMMA StoppedFacts ==
    ASSUME record \in Workflow({}), NEW kind \in Kind, NEW next, next = Stopped(record, kind)
    PROVE  /\ next \in Workflow({}) /\ next.tsr = record.tsr
           /\ next.dev = record.dev /\ next.review = record.review
BY DEF Stopped, Workflow, Stage

\* A commit keeps what it is given and advances taskStateRevision when it has to.
LEMMA CommitsFacts ==
    ASSUME record \in Workflow({}), record.rev = 1, NEW next \in Workflow({}),
           NEW advance \in BOOLEAN, Commits(next, advance), next.tsr = record.tsr
    PROVE  /\ record' \in Workflow({}) /\ record'.rev = 1
           /\ record'.stage = next.stage /\ record'.dev = next.dev
           /\ record'.review = next.review /\ record'.interrupted = next.interrupted
           /\ advance \/ TaskStateChanged(record, next) => record'.tsr = record.tsr + 1
           /\ record'.tsr \in {record.tsr, record.tsr + 1}
           /\ ~advance /\ next = record => record' = record
<1>1. PICK tsr \in Nat : /\ tsr = IF advance \/ TaskStateChanged(record, next)
                                 THEN record.tsr + 1 ELSE record.tsr
  BY DEF Workflow
<1>2. Commit(record, next, advance) = [next EXCEPT !.rev = record.rev + 1, !.tsr = tsr]
  BY <1>1 DEF Commit, Exists
<1>3. record' = [[next EXCEPT !.rev = record.rev + 1, !.tsr = tsr] EXCEPT !.rev = record.rev]
  BY <1>2 DEF Commits
<1>4. /\ record' \in Workflow({}) /\ record'.rev = 1 /\ record'.tsr = tsr
      /\ record'.stage = next.stage /\ record'.dev = next.dev
      /\ record'.review = next.review /\ record'.interrupted = next.interrupted
  BY <1>1, <1>3 DEF Workflow
<1>5. ASSUME ~advance, next = record
      PROVE  record' = record
  <2>1. tsr = record.tsr
    BY <1>1, <1>5 DEF TaskStateChanged
  <2>2. QED
    BY <1>3, <1>5, <2>1 DEF Workflow
<1>6. tsr \in {record.tsr, record.tsr + 1}
  BY <1>1
<1>7. QED
  BY <1>1, <1>4, <1>5, <1>6

LEMMA KindFacts ==
    ASSUME NEW c \in Calls
    PROVE  KindOf(c) \in Kind
BY DEF KindOf, Kind

-----------------------------------------------------------------------------
(* Types *)

Typed == TypeOK /\ record.rev = 1

\* The record moves on: what has the same taskStateRevision is the same record.
MovesOn ==
    /\ record' \in Workflow({}) /\ record'.rev = 1
    /\ record'.tsr \in {record.tsr, record.tsr + 1}
    /\ record'.tsr = record.tsr => record' = record

NamesTheSame == record'.dev = record.dev /\ record'.review = record.review

LEMMA ClaimWonRecord ==
    ASSUME Typed, NEW c \in Calls, ClaimWon(c)
    PROVE  /\ MovesOn /\ record'.tsr = record.tsr + 1
           /\ KindOf(c) = "dev" => /\ record'.stage = "developing" /\ ~record'.interrupted
                                   /\ record'.dev = id[c] /\ record'.review = record.review
           /\ KindOf(c) # "dev" => /\ record'.stage = "reviewing"
                                   /\ record'.review = id[c] /\ record'.dev = record.dev
<1>1. id[c] \in Nat /\ record \in Workflow({}) /\ record.rev = 1 /\ record.tsr \in Nat
  BY DEF Typed, TypeOK, Workflow
<1>2. PICK next : next = Claimed(record, KindOf(c), id[c])
  OBVIOUS
<1>3. Commits(next, TRUE)
  BY <1>2 DEF ClaimWon
<1>4. /\ next \in Workflow({}) /\ next.tsr = record.tsr
      /\ KindOf(c) = "dev" => /\ next.stage = "developing" /\ ~next.interrupted
                              /\ next.dev = id[c] /\ next.review = record.review
      /\ KindOf(c) # "dev" => /\ next.stage = "reviewing"
                              /\ next.review = id[c] /\ next.dev = record.dev
  BY <1>1, <1>2, ClaimedFacts, KindFacts
<1>5. /\ record' \in Workflow({}) /\ record'.rev = 1 /\ record'.tsr = record.tsr + 1
      /\ record'.stage = next.stage /\ record'.dev = next.dev
      /\ record'.review = next.review /\ record'.interrupted = next.interrupted
  BY <1>1, <1>3, <1>4, CommitsFacts
<1>6. QED
  BY <1>1, <1>4, <1>5 DEF MovesOn

LEMMA CommitStopRecord ==
    ASSUME Typed, NEW c \in Calls, CommitStop(c)
    PROVE  /\ MovesOn /\ NamesTheSame
           /\ record' = record \/ Owns(record, id[c])
<1>1. record \in Workflow({}) /\ record.rev = 1 /\ record.tsr \in Nat
  BY DEF Typed, TypeOK, Workflow
<1>2. CASE record' = record
  BY <1>1, <1>2 DEF MovesOn, NamesTheSame
<1>3. CASE Owns(record, id[c]) /\ Commits(Stopped(record, KindOf(c)), TRUE)
  <2>1. PICK next : next = Stopped(record, KindOf(c))
    OBVIOUS
  <2>2. /\ next \in Workflow({}) /\ next.tsr = record.tsr /\ Commits(next, TRUE)
        /\ next.dev = record.dev /\ next.review = record.review
    BY <1>1, <1>3, <2>1, StoppedFacts, KindFacts
  <2>3. /\ record' \in Workflow({}) /\ record'.rev = 1 /\ record'.tsr = record.tsr + 1
        /\ record'.dev = next.dev /\ record'.review = next.review
    BY <1>1, <2>2, CommitsFacts
  <2>4. QED
    BY <1>1, <1>3, <2>2, <2>3 DEF MovesOn, NamesTheSame
<1>4. QED
  BY <1>2, <1>3 DEF CommitStop

\* A write through a lease.
LEMMA MutatesRecord ==
    ASSUME Typed, NEW c \in Calls, NEW next \in Workflow({}), NEW advance \in BOOLEAN,
           Mutates(c, next, advance), next.tsr = record.tsr,
           next.dev = record.dev, next.review = record.review,
           advance \/ TaskStateChanged(record, next) \/ next = record
    PROVE  /\ MovesOn /\ NamesTheSame
           /\ UNCHANGED <<record, lease>>
              \/ /\ HoldsLease(c)
                 /\ lease' = [lease EXCEPT ![c] = record'.tsr]
                 /\ record'.stage = next.stage /\ record'.interrupted = next.interrupted
<1>1. record \in Workflow({}) /\ record.rev = 1 /\ record.tsr \in Nat
  BY DEF Typed, TypeOK, Workflow
<1>2. CASE HoldsLease(c)
  <2>1. Commits(next, advance) /\ lease' = [lease EXCEPT ![c] = record'.tsr]
    BY <1>2 DEF Mutates
  <2>2. QED
    BY <1>1, <1>2, <2>1, CommitsFacts DEF MovesOn, NamesTheSame
<1>3. CASE ~HoldsLease(c)
  BY <1>1, <1>3 DEF Mutates, MovesOn, NamesTheSame
<1>4. QED
  BY <1>2, <1>3

LEMMA ReportRecord ==
    ASSUME Typed, NEW c \in Calls, Report(c)
    PROVE  /\ MovesOn /\ NamesTheSame
           /\ UNCHANGED <<record, lease>>
              \/ /\ HoldsLease(c)
                 /\ lease' = [lease EXCEPT ![c] = record'.tsr]
<1>1. record \in Workflow({}) /\ record.rev = 1 /\ record.tsr \in Nat
  BY DEF Typed, TypeOK, Workflow
<1>2. CASE UNCHANGED <<record, lease>>
  <2>1. record' = record /\ lease' = lease
    BY <1>2
  <2>2. QED
    BY <1>1, <2>1 DEF MovesOn, NamesTheSame
<1>3. CASE \E next \in OutcomesOf(c) : Mutates(c, next, FALSE)
  <2>1. PICK next \in OutcomesOf(c) : Mutates(c, next, FALSE)
    BY <1>3
  <2>2. /\ next \in Workflow({})
        /\ next.tsr = record.tsr /\ next.dev = record.dev /\ next.review = record.review
        /\ TaskStateChanged(record, next) \/ next = record
    BY <1>1, OutcomeFacts
  <2>3. QED
    BY <2>1, <2>2, MutatesRecord
<1>4. QED
  BY <1>2, <1>3 DEF Report

LEMMA ClearStaleSessionRecord ==
    ASSUME Typed, NEW c \in Calls, ClearStaleSession(c)
    PROVE  /\ MovesOn /\ NamesTheSame
           /\ UNCHANGED <<record, lease>>
              \/ /\ HoldsLease(c) /\ lease' = [lease EXCEPT ![c] = record'.tsr]
                 /\ record'.stage = record.stage /\ record'.interrupted = record.interrupted
<1>1. record \in Workflow({}) /\ record.rev = 1 /\ record.tsr \in Nat
  BY DEF Typed, TypeOK, Workflow
<1>2. CASE UNCHANGED <<record, lease>>
  <2>1. record' = record /\ lease' = lease
    BY <1>2
  <2>2. QED
    BY <1>1, <2>1 DEF MovesOn, NamesTheSame
<1>3. CASE Mutates(c, record, TRUE)
  BY <1>1, <1>3, MutatesRecord
<1>4. QED
  BY <1>2, <1>3 DEF ClearStaleSession

LEMMA PreparedFacts == Prepared \in Workflow({}) /\ Prepared.rev = 1
BY DEF Prepared, Absent, Workflow, Stage, Preparation, None

LEMMA TypedInit == Init => Typed
BY PreparedFacts DEF Init, Typed, TypeOK, Label, None

\* Everything but the record.
RestTyped ==
    /\ file \in Nat
    /\ up \in SUBSET Hosts
    /\ pc \in [Calls -> Label]
    /\ seen \in [Calls -> Workflow({})]
    /\ id \in [Calls -> Nat]
    /\ live \in [Calls -> {"none", "open", "closed"}]
    /\ aborted \in [Calls -> BOOLEAN]
    /\ job \in [Calls -> {"none", "active", "settled"}]
    /\ agent \in [Calls -> {"none", "alive", "killed", "exited"}]
    /\ exact \in [Calls -> BOOLEAN]
    /\ result \in [Calls -> {"none", "ok", "bad"}]
    /\ lease \in [Calls -> Nat]
    /\ stop \in [Calls -> Controllers \cup {Nobody, Handled}]

LEMMA LeaveTyped ==
    ASSUME Typed, NEW c \in Calls, Leave(c)
    PROVE  /\ pc' \in [Calls -> Label] /\ seen' \in [Calls -> Workflow({})]
           /\ exact' \in [Calls -> BOOLEAN] /\ lease' \in [Calls -> Nat]
BY PreparedFacts DEF Typed, TypeOK, Leave, Goto, Forget, Label

LEMMA FinishTyped ==
    ASSUME Typed, NEW c \in Calls, FinishTask(c)
    PROVE  /\ live' \in [Calls -> {"none", "open", "closed"}]
           /\ aborted' \in [Calls -> BOOLEAN]
           /\ job' \in [Calls -> {"none", "active", "settled"}]
BY DEF Typed, TypeOK, FinishTask

LEMMA CancelTyped ==
    ASSUME Typed, NEW c \in Calls, Cancel(c)
    PROVE  /\ live' \in [Calls -> {"none", "open", "closed"}]
           /\ aborted' \in [Calls -> BOOLEAN]
           /\ job' \in [Calls -> {"none", "active", "settled"}]
           /\ agent' \in [Calls -> {"none", "alive", "killed", "exited"}]
<1>1. CASE agent[c] = "none"
  BY <1>1, FinishTyped DEF Typed, TypeOK, Cancel
<1>2. CASE agent[c] # "none"
  BY <1>2 DEF Typed, TypeOK, Cancel
<1>3. QED
  BY <1>1, <1>2

LEMMA EndsTyped ==
    ASSUME Typed, NEW c \in Calls, NEW r \in {"ok", "bad"}, Ends(c, r)
    PROVE  /\ pc' \in [Calls -> Label] /\ exact' \in [Calls -> BOOLEAN]
           /\ result' \in [Calls -> {"none", "ok", "bad"}]
BY DEF Typed, TypeOK, Ends, Goto, Label

LEMMA StartsTyped ==
    ASSUME Typed, NEW c \in Calls, Starts(c)
    PROVE  /\ pc' \in [Calls -> Label] /\ exact' \in [Calls -> BOOLEAN]
           /\ result' \in [Calls -> {"none", "ok", "bad"}]
           /\ agent' \in [Calls -> {"none", "alive", "killed", "exited"}]
<1>1. CASE Ends(c, "bad") /\ UNCHANGED agent
  BY <1>1, EndsTyped DEF Typed, TypeOK
<1>2. CASE /\ agent' = [agent EXCEPT ![c] = "alive"]
           /\ Goto(c, "running")
           /\ UNCHANGED <<result, exact>>
  BY <1>2 DEF Typed, TypeOK, Goto, Label
<1>3. QED
  BY <1>1, <1>2 DEF Starts

LEMMA RestTypedStep ==
    ASSUME Typed, NEW c \in Calls, IsFiniteSet({t \in Calls : id[t] # None}), record' \in Workflow({}),
           Admission(c) \/ Preparing(c) \/ Claim(c) \/ Supervise(c) \/ Agent(c)
    PROVE  RestTyped'
<1> USE DEF Typed, TypeOK, RestTyped, Goto, supervised, request
<1>0. /\ record.tsr \in Nat /\ record'.tsr \in Nat /\ Prepared \in Workflow({})
      /\ \A l \in Label : [pc EXCEPT ![c] = l] \in [Calls -> Label]
  BY PreparedFacts DEF Workflow
<1>1. CASE Admission(c)
  <2>1. Cardinality({t \in Calls : id[t] # None}) + 1 \in Nat
    BY FS_CardinalityType
  <2>2. CASE Load(c)
    BY <1>0, <2>2 DEF Load, Label
  <2>3. CASE Turned(c)
    BY <2>3, LeaveTyped DEF Turned
  <2>4. CASE ReserveGate(c)
    BY <1>0, <2>1, <2>4 DEF ReserveGate, Mint, Label
  <2>5. CASE StartDevelop(c) /\ Leave(c) /\ UNCHANGED job
    BY <2>1, <2>5, LeaveTyped DEF StartDevelop, Mint
  <2>6. CASE StartDevelop(c) /\ Goto(c, "hosted") /\ UNCHANGED <<seen, exact, lease>>
    BY <1>0, <2>1, <2>6 DEF StartDevelop, Mint, Label
  <2>7. QED
    BY <1>1, <2>2, <2>3, <2>4, <2>5, <2>6 DEF Admission, StartDevelop
<1>2. CASE Preparing(c)
  <2>1. CASE PrepareFails(c)
    BY <2>1, LeaveTyped, FinishTyped DEF PrepareFails
  <2>2. CASE SnapshotThrows(c)
    BY <2>2, LeaveTyped DEF SnapshotThrows
  <2>3. CASE ReserveHost(c) /\ FinishTask(c) /\ Leave(c)
    BY <2>3, LeaveTyped, FinishTyped DEF ReserveHost
  <2>4. CASE /\ UNCHANGED <<record, file, up, id, agent, result, stop>>
             /\ job' = [job EXCEPT ![c] = "active"]
             /\ Goto(c, "hosted")
             /\ UNCHANGED <<live, aborted, seen, exact, lease>>
    BY <1>0, <2>4 DEF Label
  <2>5. QED
    BY <1>2, <2>1, <2>2, <2>3, <2>4 DEF Preparing, ReserveHost
<1>3. CASE Claim(c)
  <2>1. CASE ClaimLost(c)
    BY <2>1, LeaveTyped, FinishTyped DEF ClaimLost
  <2>2. CASE ClaimWon(c)
    BY <1>0, <2>2 DEF ClaimWon, Forget, Label
  <2>3. CASE RecoveryThrows(c)
    BY <2>3, LeaveTyped DEF RecoveryThrows
  <2>4. QED
    BY <1>3, <2>1, <2>2, <2>3 DEF Claim
<1>4. CASE Supervise(c)
  <2>1. CASE ClearResult(c)
    <3>1. CASE Ends(c, "bad") /\ UNCHANGED file
      BY <2>1, <3>1, EndsTyped DEF ClearResult
    <3>2. CASE file' = None /\ Goto(c, "cleared") /\ UNCHANGED <<result, exact>>
      BY <1>0, <2>1, <3>2 DEF ClearResult, Label, None
    <3>3. QED
      BY <2>1, <3>1, <3>2 DEF ClearResult
  <2>2. CASE Launch(c)
    <3>1. CASE Starts(c) /\ UNCHANGED <<seen, lease>>
      BY <2>2, <3>1, StartsTyped DEF Launch
    <3>2. CASE Leave(c) /\ UNCHANGED <<result, agent>>
      BY <2>2, <3>2, LeaveTyped DEF Launch
    <3>3. QED
      BY <2>2, <3>1, <3>2 DEF Launch
  <2>3. CASE Settle(c)
    <3>1. CASE Ends(c, "ok") \/ Ends(c, "bad")
      BY <2>3, <3>1, EndsTyped DEF Settle
    <3>2. CASE exact' = [exact EXCEPT ![c] = FALSE] /\ Goto(c, "fallback") /\ UNCHANGED result
      BY <1>0, <2>3, <3>2 DEF Settle, Label
    <3>3. QED
      BY <2>3, <3>1, <3>2 DEF Settle
  <2>4. CASE SettleFails(c) \/ Close(c)
    BY <2>4, LeaveTyped, FinishTyped DEF SettleFails, Close
  <2>5. CASE Relaunch(c)
    <3>1. CASE Starts(c)
      BY <2>5, <3>1, StartsTyped DEF Relaunch
    <3>2. CASE Ends(c, "bad") /\ UNCHANGED agent
      BY <2>5, <3>2, EndsTyped DEF Relaunch
    <3>3. QED
      BY <2>5, <3>1, <3>2 DEF Relaunch
  <2>6. CASE ClearStaleSession(c)
    <3>1. lease' \in [Calls -> Nat]
      BY <1>0, <2>6, ClearStaleSessionRecord
    <3>2. CASE Ends(c, "bad")
      BY <2>6, <3>1, <3>2, EndsTyped DEF ClearStaleSession
    <3>3. CASE Goto(c, "relaunch") /\ UNCHANGED <<result, exact>>
      BY <1>0, <2>6, <3>1, <3>3 DEF ClearStaleSession, Label
    <3>4. QED
      BY <2>6, <3>2, <3>3 DEF ClearStaleSession
  <2>7. CASE Report(c)
    <3>1. lease' \in [Calls -> Nat]
      BY <1>0, <2>7, ReportRecord
    <3>2. QED
      BY <1>0, <2>7, <3>1 DEF Report, Label
  <2>8. QED
    BY <1>4, <2>1, <2>2, <2>3, <2>4, <2>5, <2>6, <2>7 DEF Supervise
<1>5. CASE Agent(c)
  BY <1>5 DEF Agent, AgentWrites, AgentExits
<1>6. QED
  BY <1>1, <1>2, <1>3, <1>4, <1>5

LEMMA RestTypedStop ==
    ASSUME Typed, NEW c \in Calls,
           \/ StopLocal(c) \/ CommitStop(c) \/ HostCancel(c) \/ Timeout(c)
           \/ \E k \in Controllers : StopRemote(k, c)
    PROVE  RestTyped'
<1> USE DEF Typed, TypeOK, RestTyped, supervised, request
<1>1. CASE StopLocal(c) \/ HostCancel(c) \/ Timeout(c)
  <2>1. CtrlOf[c] \in Controllers
    BY TaskAssumption DEF TaskAssumption
  <2>2. QED
    BY <1>1, <2>1, CancelTyped DEF StopLocal, HostCancel, Timeout
<1>2. CASE CommitStop(c)
  BY <1>2 DEF CommitStop
<1>3. CASE \E k \in Controllers : StopRemote(k, c)
  <2>1. PICK k \in Controllers : StopRemote(k, c)
    BY <1>3
  <2>2. Cancel(c) \/ UNCHANGED <<supervised, agent>>
    BY <2>1 DEF StopRemote
  <2>3. stop' \in [Calls -> Controllers \cup {Nobody, Handled}]
    BY <2>1 DEF StopRemote
  <2>4. CASE Cancel(c)
    BY <2>1, <2>3, <2>4, CancelTyped DEF StopRemote
  <2>5. CASE UNCHANGED <<supervised, agent>>
    BY <2>1, <2>3, <2>5 DEF StopRemote
  <2>6. QED
    BY <2>2, <2>4, <2>5
<1>4. QED
  BY <1>1, <1>2, <1>3

LEMMA RestTypedHostDies ==
    ASSUME Typed, NEW h \in Hosts, HostDies(h)
    PROVE  RestTyped'
BY PreparedFacts DEF Typed, TypeOK, RestTyped, HostDies, Label

-----------------------------------------------------------------------------
(* One task of the workflow works *)

\* Between its claim and the last look at its agent.
Early == {"claimed", "cleared", "running", "fallback", "relaunch"}
Minted == {c \in Calls : id[c] # None}
Wanted(c) == live[c] = "open" /\ ~aborted[c]

\* The agent of a busy task works, or may still be launched.
Busy(c) == agent[c] = "alive" \/ (pc[c] \in Early /\ Wanted(c))

\* What may become busy is on its way to the claim.
Waiting(c) == pc[c] \in {"reserved", "hosted"}

\* The record says that this task is at work.
IsCurrent(c) ==
    /\ id[c] # None
    /\ IF KindOf(c) = "dev"
       THEN record.stage = "developing" /\ record.dev = id[c] /\ ~record.interrupted
       ELSE record.stage = "reviewing" /\ record.review = id[c]

\* Ids are minted once, and the record names minted ones.
Ids ==
    /\ IsFiniteSet(Minted)
    /\ \A c \in Minted : id[c] <= Cardinality(Minted)
    /\ \A c, t \in Minted : id[c] = id[t] => c = t
    /\ record.dev <= Cardinality(Minted) /\ record.review <= Cardinality(Minted)

Own(c) ==
    /\ pc[c] \in {"idle", "loaded"} => id[c] = None
    /\ pc[c] \notin {"idle", "loaded", "done"} => id[c] # None
    /\ pc[c] \notin {"idle", "loaded", "reserved", "done"} => job[c] # "none"
    /\ aborted[c] => agent[c] \notin {"none", "alive"}
    /\ Busy(c) => IsCurrent(c)
    /\ Busy(c) /\ Home(c) \in up => lease[c] = record.tsr
    /\ stop[c] # Nobody => /\ ~Busy(c) /\ ~(Waiting(c) /\ Wanted(c))
                           /\ pc[c] \notin {"idle", "loaded"}
    /\ \/ pc[c] \in {"idle", "loaded", "reserved", "hosted"}
       \/ job[c] = "none" /\ Home(c) \in up
       => id[c] = None \/ id[c] \notin {record.dev, record.review}
    /\ pc[c] = "loaded" \/ Waiting(c) =>
           /\ seen[c].tsr <= record.tsr
           /\ seen[c].tsr = record.tsr => seen[c] = record

\* Who waits with a record that is still the one it loaded waits alone.
Alone == \A c, t \in Calls : Waiting(c) /\ seen[c].tsr = record.tsr => ~Busy(t)

WorkInv == Typed /\ TaskInv /\ Ids /\ (\A c \in Calls : Own(c)) /\ Alone

\* Nothing the invariant says of a call changes for it in this step.
Still(c) ==
    /\ pc'[c] = pc[c] /\ seen'[c] = seen[c] /\ live'[c] = live[c] /\ aborted'[c] = aborted[c]
    /\ job'[c] = job[c] /\ agent'[c] = agent[c] /\ lease'[c] = lease[c] /\ stop'[c] = stop[c]

\* A busy task on a host that lives has its job.
LEMMA BusyHasJob ==
    ASSUME TaskInv, NEW c \in Calls, Busy(c)
    PROVE  /\ Home(c) \in up => job[c] = "active"
           /\ Home(c) \notin up => agent[c] = "alive"
           /\ pc[c] \notin {"idle", "loaded", "reserved", "hosted"}
BY DEF TaskInv, Shape, Lives, HasJob, LivesWhileRunning, NoAgentYet, AliveIn, Gone,
       Busy, Early, Wanted, Label

\* The record says who is at work, so it is one task.
LEMMA CurrentOwns ==
    ASSUME Typed, NEW c \in Calls, IsCurrent(c)
    PROVE  /\ Owns(record, id[c]) /\ Expected(record) = id[c]
           /\ id[c] \in {record.dev, record.review} /\ id[c] # None
           /\ ~(record.stage = "developing" /\ record.interrupted)
BY DEF Typed, TypeOK, Workflow, IsCurrent, Owns, CurrentTask, Expected

LEMMA OneBusy ==
    ASSUME WorkInv, NEW c \in Calls, NEW t \in Calls, Busy(c), Owns(record, id[t])
    PROVE  c = t
<1>1. IsCurrent(c) /\ Own(c)
  BY DEF WorkInv, Own
<1>2. Owns(record, id[c])
  BY <1>1, CurrentOwns DEF WorkInv
<1>3. QED
  BY <1>2 DEF WorkInv, Ids, Minted, Owns

\* A step of one task that writes the record as its owner, or not at all,
\* keeps the invariant when it keeps the task's own part of it.
LEMMA OwnerStep ==
    ASSUME WorkInv, Typed', TaskInv', NEW c \in Calls, up' = up, id' = id,
           MovesOn, NamesTheSame, record' = record \/ Owns(record, id[c]),
           \A t \in Calls \ {c} : Still(t),
           Own(c)', Busy(c)' => Busy(c),
           Waiting(c)' => Waiting(c) /\ seen'[c] = seen[c]
    PROVE  WorkInv'
<1>0. record.tsr \in Nat /\ (record' = record \/ record'.tsr = record.tsr + 1)
  BY DEF WorkInv, Typed, TypeOK, Workflow, MovesOn
<1>1. Ids'
  BY DEF WorkInv, Ids, Minted, NamesTheSame
<1>2. ASSUME NEW t \in Calls PROVE Busy(t)' => Busy(t)
  <2>1. CASE t # c
    BY <2>1 DEF Still, Busy, Wanted
  <2>2. QED
    BY <2>1
<1>3. ASSUME NEW t \in Calls, NEW a \in Calls, Waiting(t)', seen'[t].tsr = record'.tsr, Busy(a)'
      PROVE  FALSE
  <2>1. Waiting(t) /\ seen'[t] = seen[t] /\ Busy(a)
    BY <1>2, <1>3 DEF Still, Waiting
  <2>2. seen[t].tsr <= record.tsr /\ seen[t].tsr \in Nat
    BY <2>1 DEF WorkInv, Own, Typed, TypeOK, Workflow
  <2>3. record' = record
    BY <1>0, <1>3, <2>1, <2>2
  <2>4. QED
    BY <1>3, <2>1, <2>3 DEF WorkInv, Alone
<1>4. ASSUME NEW t \in Calls, t # c PROVE Own(t)'
  <2>1. Own(t) /\ Still(t) /\ Home(t)' = Home(t)
    BY <1>4 DEF WorkInv, Home
  <2>2. CASE record' = record
    BY <2>1, <2>2 DEF Own, Still, Busy, Wanted, Waiting, IsCurrent, KindOf
  <2>3. CASE record'.tsr = record.tsr + 1
    <3>1. ~Busy(t)
      BY <1>0, <1>4, <2>3, OneBusy
    <3>2. seen[t].tsr \in Nat
      BY DEF WorkInv, Typed, TypeOK, Workflow
    <3>3. QED
      BY <1>0, <2>1, <2>3, <3>1, <3>2 DEF Own, Still, Busy, Wanted, Waiting, NamesTheSame
  <2>4. QED
    BY <1>0, <2>2, <2>3
<1>5. QED
  BY <1>1, <1>3, <1>4 DEF WorkInv, Alone

\* With the record as it is.
LEMMA QuietOwnerStep ==
    ASSUME WorkInv, TaskInv', RestTyped', NEW c \in Calls, record' = record, up' = up, id' = id,
           \A t \in Calls \ {c} : Still(t),
           Own(c)', Busy(c)' => Busy(c),
           Waiting(c)' => Waiting(c) /\ seen'[c] = seen[c]
    PROVE  WorkInv'
<1>1. MovesOn /\ NamesTheSame /\ Typed'
  BY DEF WorkInv, Typed, TypeOK, RestTyped, Workflow, MovesOn, NamesTheSame
<1>2. QED
  BY <1>1, OwnerStep

\* What an action leaves alone of the other calls.
LEMMA OtherCalls ==
    ASSUME WorkInv, NEW c \in Calls,
           \/ Admission(c) \/ Preparing(c) \/ Claim(c) \/ Agent(c) \/ StopLocal(c)
           \/ CommitStop(c) \/ HostCancel(c) \/ Timeout(c)
           \/ ClearResult(c) \/ Launch(c) \/ Settle(c) \/ SettleFails(c)
           \/ Relaunch(c) \/ Close(c)
    PROVE  \A t \in Calls \ {c} : Still(t)
<1> USE DEF WorkInv, Typed, TypeOK, Still, Goto, Forget, supervised, request
<1>1. CASE Admission(c)
  BY <1>1 DEF Admission, Load, Turned, ReserveGate, StartDevelop, Leave
<1>2. CASE Preparing(c)
  BY <1>2 DEF Preparing, PrepareFails, SnapshotThrows, ReserveHost, FinishTask, Leave
<1>3. CASE Claim(c)
  <2>1. CASE ClaimLost(c)
    BY <2>1 DEF ClaimLost, FinishTask, Leave
  <2>2. CASE ClaimWon(c)
    BY <2>2 DEF ClaimWon
  <2>3. CASE RecoveryThrows(c)
    BY <2>3 DEF RecoveryThrows, Leave
  <2>4. QED
    BY <1>3, <2>1, <2>2, <2>3 DEF Claim
<1>4. CASE Agent(c)
  BY <1>4 DEF Agent, AgentWrites, AgentExits
<1>5. CASE StopLocal(c) \/ HostCancel(c) \/ Timeout(c)
  BY <1>5 DEF StopLocal, HostCancel, Timeout, Cancel, FinishTask
<1>6. CASE CommitStop(c)
  BY <1>6 DEF CommitStop
<1>7. CASE ClearResult(c) \/ Launch(c) \/ Relaunch(c)
  BY <1>7 DEF ClearResult, Launch, Relaunch, Starts, Ends, Leave
<1>8. CASE Settle(c) \/ SettleFails(c) \/ Close(c)
  BY <1>8 DEF Settle, SettleFails, Close, Ends, FinishTask, Leave
<1>9. QED
  BY <1>1, <1>2, <1>3, <1>4, <1>5, <1>6, <1>7, <1>8

\* A call that goes on without a claim, or that ends, does not get busy.
LEMMA RequestOwn ==
    ASSUME WorkInv, NEW c \in Calls,
           \/ Load(c) \/ Turned(c) \/ Preparing(c) \/ ClaimLost(c) \/ RecoveryThrows(c)
           \/ SettleFails(c) \/ Close(c)
    PROVE  /\ Own(c)'
           /\ Busy(c)' => Busy(c)
           /\ Waiting(c)' => Waiting(c) /\ seen'[c] = seen[c]
           /\ record' = record /\ up' = up /\ id' = id
<1> USE DEF Busy, Wanted, Waiting, Early, Goto, At, supervised, request
<1>0. /\ Own(c) /\ Lives(c) /\ Home(c)' = Home(c) /\ record.tsr \in Nat
      /\ pc \in [Calls -> Label] /\ seen \in [Calls -> Workflow({})] /\ live \in [Calls -> {"none", "open", "closed"}]
      /\ aborted \in [Calls -> BOOLEAN] /\ job \in [Calls -> {"none", "active", "settled"}]
      /\ exact \in [Calls -> BOOLEAN] /\ lease \in [Calls -> Nat]
  BY DEF WorkInv, TaskInv, Home, Typed, TypeOK, Workflow
<1>1. CASE Load(c)
  BY <1>0, <1>1 DEF Load, Own, IsCurrent, KindOf
<1>2. CASE Turned(c)
  BY <1>0, <1>2 DEF Turned, Leave, Forget, Own, IsCurrent, KindOf, Lives, NoAgentYet
<1>3. CASE PrepareFails(c)
  BY <1>0, <1>3 DEF PrepareFails, FinishTask, Leave, Forget, Own, IsCurrent, KindOf, Lives, NoAgentYet
<1>4. CASE SnapshotThrows(c)
  BY <1>0, <1>4 DEF SnapshotThrows, Leave, Forget, Own, IsCurrent, KindOf, Lives, NoAgentYet
<1>5. CASE ReserveHost(c)
  BY <1>0, <1>5 DEF ReserveHost, FinishTask, Leave, Forget, Own, IsCurrent, KindOf, Lives, NoAgentYet
<1>6. CASE ClaimLost(c)
  BY <1>0, <1>6 DEF ClaimLost, FinishTask, Leave, Forget, Own, IsCurrent, KindOf, Lives, NoAgentYet
<1>7. CASE RecoveryThrows(c)
  BY <1>0, <1>7 DEF RecoveryThrows, Leave, Forget, Own, IsCurrent, KindOf, Lives, NoAgentYet
<1>8. CASE SettleFails(c)
  BY <1>0, <1>8 DEF SettleFails, FinishTask, Leave, Forget, Own, IsCurrent, KindOf
<1>9. CASE Close(c)
  BY <1>0, <1>9 DEF Close, FinishTask, Leave, Forget, Own, IsCurrent, KindOf, Lives, LivesWhileRunning, AliveIn
<1>10. QED
  BY <1>1, <1>2, <1>3, <1>4, <1>5, <1>6, <1>7, <1>8, <1>9 DEF Preparing

\* An agent is started for a task that is busy already.
LEMMA SuperviseOwn ==
    ASSUME WorkInv, NEW c \in Calls,
           ClearResult(c) \/ Launch(c) \/ Settle(c) \/ Relaunch(c) \/ Agent(c)
    PROVE  /\ Own(c)'
           /\ Busy(c)' => Busy(c)
           /\ Waiting(c)' => Waiting(c) /\ seen'[c] = seen[c]
           /\ record' = record /\ up' = up /\ id' = id
<1> USE DEF Busy, Wanted, Waiting, Early, Goto, At, supervised, request, Own, IsCurrent, KindOf
<1>0. /\ Own(c) /\ Lives(c) /\ Home(c)' = Home(c)
      /\ pc \in [Calls -> Label] /\ seen \in [Calls -> Workflow({})] /\ live \in [Calls -> {"none", "open", "closed"}]
      /\ aborted \in [Calls -> BOOLEAN] /\ job \in [Calls -> {"none", "active", "settled"}]
      /\ exact \in [Calls -> BOOLEAN] /\ lease \in [Calls -> Nat]
      /\ agent \in [Calls -> {"none", "alive", "killed", "exited"}]
      /\ result \in [Calls -> {"none", "ok", "bad"}]
  BY DEF WorkInv, TaskInv, Home, Typed, TypeOK
<1>1. CASE ClearResult(c)
  BY <1>0, <1>1 DEF ClearResult, Ends
<1>2. CASE Launch(c)
  <2>1. pc[c] \in {"claimed", "cleared"} /\ Home(c) \in up
    BY <1>2 DEF Launch, ReadyToLaunch
  <2>2. agent[c] = "none" /\ ~aborted[c]
    BY <1>0, <2>1 DEF Lives, NoAgentYet
  <2>3. CASE live[c] = "open" /\ Starts(c) /\ UNCHANGED <<seen, lease>>
    BY <1>0, <1>2, <2>1, <2>2, <2>3 DEF Launch, Starts, Ends
  <2>4. CASE ~Launchable(c) /\ Leave(c) /\ UNCHANGED <<result, agent>>
    BY <1>0, <1>2, <2>1, <2>2, <2>4 DEF Launch, Leave, Forget
  <2>5. QED
    BY <1>2, <2>3, <2>4 DEF Launch, Launchable
<1>3. CASE Settle(c)
  BY <1>0, <1>3 DEF Settle, Ends
<1>4. CASE Relaunch(c)
  BY <1>0, <1>4 DEF Relaunch, Starts, Ends, Lives, HasJob
<1>5. CASE Agent(c)
  BY <1>0, <1>5 DEF Agent, AgentWrites, AgentExits
<1>6. QED
  BY <1>1, <1>2, <1>3, <1>4, <1>5

\* To cancel a task ends its work.
LEMMA CancelOwn ==
    ASSUME WorkInv, NEW c \in Calls, Cancel(c), UNCHANGED <<record, up, pc, request, lease>>,
           UNCHANGED stop \/ \E k \in Controllers : stop' = [stop EXCEPT ![c] = k]
    PROVE  Own(c)' /\ ~Busy(c)' /\ (Waiting(c)' => Waiting(c))
<1> USE DEF Busy, Wanted, Waiting, Early, request
<1>0. /\ Own(c) /\ Lives(c) /\ Home(c)' = Home(c)
      /\ live \in [Calls -> {"none", "open", "closed"}]
      /\ aborted \in [Calls -> BOOLEAN] /\ job \in [Calls -> {"none", "active", "settled"}]
      /\ agent \in [Calls -> {"none", "alive", "killed", "exited"}]
      /\ stop \in [Calls -> Controllers \cup {Nobody, Handled}]
  BY DEF WorkInv, TaskInv, Home, Typed, TypeOK
<1>1. CASE agent[c] = "none"
  BY <1>0, <1>1 DEF Cancel, FinishTask, Own, IsCurrent, KindOf, Lives, NoAgentYet, Gone
<1>2. CASE agent[c] # "none"
  BY <1>0, <1>2 DEF Cancel, Own, IsCurrent, KindOf, Lives, NoAgentYet, Gone
<1>3. QED
  BY <1>1, <1>2

\* Whom a stop finds at work it cancels; whom it does not is not at work.
LEMMA StopRemoteOwn ==
    ASSUME WorkInv, NEW k \in Controllers, NEW c \in Calls, StopRemote(k, c), ~Cancel(c)
    PROVE  /\ UNCHANGED <<supervised, agent>>
           /\ ~Busy(c) /\ ~(Waiting(c) /\ Wanted(c)) /\ pc[c] \notin {"idle", "loaded"}
<1>0. /\ Own(c) /\ Lives(c) /\ HostOf[k] \in up /\ TaskInv
      /\ pc \in [Calls -> Label]
  BY DEF StopRemote, WorkInv, TaskInv, Typed, TypeOK
<1>1. CASE c \in SeenRunning(k, record)
  <2>0. Ownership(k, record) \notin {"interrupted", "unknown"}
    BY <1>1 DEF Ownership
  <2>1. live[c] # "open" /\ UNCHANGED <<supervised, agent>>
    BY <1>1, <2>0 DEF StopRemote
  <2>2. Home(c) \in up /\ id[c] # None
    BY <1>0, <1>1 DEF SeenRunning, Named, Home
  <2>3. QED
    BY <1>0, <2>1, <2>2
       DEF Own, Lives, LivesWhileRunning, HasJob, AliveIn, Busy, Wanted, Waiting, Label
<1>2. CASE c \notin SeenRunning(k, record)
  <2>1. /\ id[c] # None /\ id[c] = Expected(record) /\ UNCHANGED <<supervised, agent>>
        /\ \/ Ownership(k, record) = "interrupted"
           \/ ConfirmedStopped(c)
    BY <1>2 DEF StopRemote
  <2>2. id[c] \in {record.dev, record.review}
    BY <2>1 DEF Expected
  <2>3. pc[c] \notin {"idle", "loaded", "reserved", "hosted"}
    BY <1>0, <2>1, <2>2 DEF Own
  <2>4. ASSUME Busy(c) PROVE FALSE
    <3>1. /\ Home(c) \in up => job[c] = "active"
          /\ Home(c) \notin up => agent[c] = "alive"
      BY <1>0, <2>4, BusyHasJob
    <3>2. Ownership(k, record) = "interrupted"
      BY <2>1, <3>1 DEF ConfirmedStopped
    <3>3. ~(record.stage = "developing" /\ record.interrupted)
      BY <1>0, <2>4, CurrentOwns DEF Own, WorkInv
    <3>4. SeenEnded(k, record)
      BY <3>2, <3>3 DEF Ownership
    <3>5. PICK t \in Named(record) : /\ id[t] = Expected(record) /\ Home(t) = HostOf[k]
                                     /\ job[t] = "settled"
      BY <3>4 DEF SeenEnded
    <3>6. t = c
      BY <2>1, <3>5 DEF WorkInv, Ids, Minted, Named
    <3>7. QED
      BY <1>0, <3>1, <3>5, <3>6
  <2>5. QED
    BY <2>1, <2>3, <2>4 DEF Waiting
<1>3. QED
  BY <1>1, <1>2

LEMMA StopOwn ==
    ASSUME WorkInv, NEW c \in Calls,
           StopLocal(c) \/ HostCancel(c) \/ Timeout(c) \/ \E k \in Controllers : StopRemote(k, c)
    PROVE  /\ Own(c)' /\ ~Busy(c)' /\ (Waiting(c)' => Waiting(c))
           /\ UNCHANGED <<record, up, id, pc, seen>>
           /\ \A t \in Calls \ {c} : Still(t)
<1>1. CASE StopLocal(c) \/ HostCancel(c) \/ Timeout(c)
  <2>1. CtrlOf[c] \in Controllers
    BY TaskAssumption DEF TaskAssumption
  <2>2. QED
    BY <1>1, <2>1, CancelOwn, OtherCalls DEF StopLocal, HostCancel, Timeout, request
<1>2. CASE \E k \in Controllers : StopRemote(k, c)
  <2>1. PICK k \in Controllers : StopRemote(k, c)
    BY <1>2
  <2>2. /\ UNCHANGED <<record, up, pc, request, lease>>
        /\ stop' = [stop EXCEPT ![c] = k]
    BY <2>1 DEF StopRemote
  <2>3. CASE Cancel(c)
    <3>1. \A t \in Calls \ {c} : Still(t)
      BY <2>2, <2>3 DEF Cancel, FinishTask, Still, request, WorkInv, Typed, TypeOK
    <3>2. QED
      BY <2>2, <2>3, <3>1, CancelOwn DEF request
  <2>4. CASE ~Cancel(c)
    <3>1. /\ UNCHANGED <<supervised, agent>>
          /\ ~Busy(c) /\ ~(Waiting(c) /\ Wanted(c)) /\ pc[c] \notin {"idle", "loaded"}
      BY <2>1, <2>4, StopRemoteOwn
    <3>2. \A t \in Calls \ {c} : Still(t)
      BY <2>2, <3>1 DEF Still, request, supervised, WorkInv, Typed, TypeOK
    <3>3. Own(c) /\ Home(c)' = Home(c)
      BY DEF WorkInv, Home
    <3>4. QED
      BY <2>2, <3>1, <3>2, <3>3
         DEF Own, Busy, Wanted, Waiting, IsCurrent, KindOf, request, supervised
  <2>5. QED
    BY <2>3, <2>4
<1>3. QED
  BY <1>1, <1>2

\* A stop is committed for a task that no longer works.
LEMMA CommitStopOwn ==
    ASSUME WorkInv, NEW c \in Calls, CommitStop(c)
    PROVE  WorkInv'
<1>1. stop[c] \in Controllers /\ stop[c] # Nobody
  BY TaskAssumption DEF TaskAssumption, CommitStop
<1>2. UNCHANGED <<file, up, pc, request, supervised, agent, result, lease>>
  BY DEF CommitStop
<1>3. ~Busy(c) /\ ~(Waiting(c) /\ Wanted(c)) /\ pc[c] \notin {"idle", "loaded"} /\ Own(c)
  BY <1>1 DEF WorkInv, Own
<1>4. MovesOn /\ NamesTheSame /\ (record' = record \/ Owns(record, id[c]))
  BY CommitStopRecord DEF WorkInv
<1>5. Typed' /\ TaskInv'
  BY <1>4, RestTypedStop, StopStep DEF WorkInv, Typed, TypeOK, RestTyped, MovesOn
<1>6. Own(c)' /\ ~Busy(c)'
  <2>1. seen[c].tsr \in Nat /\ record.tsr \in Nat /\ Home(c)' = Home(c)
    BY DEF WorkInv, Typed, TypeOK, Workflow, Home
  <2>2. QED
    BY <1>2, <1>3, <1>4, <2>1
       DEF Own, Busy, Wanted, Waiting, MovesOn, NamesTheSame, request, supervised
<1>7. \A t \in Calls \ {c} : Still(t)
  BY OtherCalls
<1>8. QED
  BY <1>2, <1>4, <1>5, <1>6, <1>7, OwnerStep DEF Waiting, request

\* A task that writes through its lease keeps a lease that holds.
LEMMA LeaseStep ==
    ASSUME WorkInv, NEW c \in Calls, ClearStaleSession(c) \/ Report(c)
    PROVE  WorkInv'
<1>1. /\ MovesOn /\ NamesTheSame
      /\ \/ UNCHANGED <<record, lease>>
         \/ HoldsLease(c) /\ lease' = [lease EXCEPT ![c] = record'.tsr]
  <2>1. Typed
    BY DEF WorkInv
  <2>2. CASE ClearStaleSession(c)
    BY <2>1, <2>2, ClearStaleSessionRecord
  <2>3. CASE Report(c)
    BY <2>1, <2>3, ReportRecord
  <2>4. QED
    BY <2>2, <2>3
<1>2. /\ UNCHANGED <<file, up, seen, id, supervised, agent, stop>>
      /\ \E l \in Label \ {"idle", "loaded", "reserved", "hosted"} : Goto(c, l)
      /\ Home(c) \in up /\ pc[c] \in {"fallback", "exiting"}
  BY DEF ClearStaleSession, Report, Ends, request, At, Label
<1>3. Typed' /\ TaskInv'
  <2>1. record' \in Workflow({}) /\ Supervise(c) /\ IsFiniteSet({t \in Calls : id[t] # None})
    BY <1>1 DEF MovesOn, Supervise, WorkInv, Ids, Minted
  <2>2. QED
    BY <1>1, <2>1, RestTypedStep, SuperviseStep DEF WorkInv, Typed, TypeOK, RestTyped, MovesOn
<1>4. record' = record \/ Owns(record, id[c])
  BY <1>1 DEF HoldsLease
<1>5. \A t \in Calls \ {c} : Still(t)
  BY <1>1, <1>2 DEF Still, Goto, supervised, WorkInv, Typed, TypeOK
<1>6. Own(c) /\ Lives(c) /\ pc \in [Calls -> Label] /\ lease \in [Calls -> Nat]
      /\ Home(c)' = Home(c)
  BY DEF WorkInv, TaskInv, Typed, TypeOK, Home
<1>7. pc'[c] \in Label \ {"idle", "loaded", "reserved", "hosted"}
  BY <1>2, <1>6 DEF Goto
<1>8. Busy(c)' => Busy(c) /\ IsCurrent(c)' /\ lease'[c] = record'.tsr
  <2>1. CASE Report(c)
    <3>1. pc'[c] = "closing" /\ agent[c] # "alive"
      BY <1>6, <2>1 DEF Report, Goto, At, Lives, LivesWhileRunning, AliveIn
    <3>2. QED
      BY <1>2, <3>1 DEF Busy, Early
  <2>2. CASE ClearStaleSession(c)
    <3>1. Busy(c)' => Busy(c)
      BY <1>2, <2>2 DEF Busy, Early, Wanted, ClearStaleSession, At, supervised
    <3>2. Busy(c) => IsCurrent(c) /\ lease[c] = record.tsr
      BY <1>2, <1>6 DEF Own
    <3>3. \/ UNCHANGED <<record, lease>>
          \/ /\ HoldsLease(c) /\ lease' = [lease EXCEPT ![c] = record'.tsr]
             /\ record'.stage = record.stage /\ record'.interrupted = record.interrupted
      BY <2>2, ClearStaleSessionRecord DEF WorkInv
    <3>4. IsCurrent(c) => IsCurrent(c)'
      BY <1>1, <1>2, <3>3 DEF IsCurrent, KindOf, NamesTheSame
    <3>5. QED
      BY <1>6, <3>1, <3>2, <3>3, <3>4
  <2>3. QED
    BY <2>1, <2>2
<1>9. Own(c)'
  BY <1>1, <1>2, <1>6, <1>7, <1>8 DEF Own, NamesTheSame, Waiting, supervised, Wanted
<1>10. QED
  BY <1>1, <1>2, <1>3, <1>4, <1>5, <1>7, <1>8, <1>9, OwnerStep DEF Waiting

\* Who wins the claim found nobody at work, and is at work.
LEMMA ClaimWonStep ==
    ASSUME WorkInv, NEW c \in Calls, ClaimWon(c)
    PROVE  WorkInv'
<1>1. /\ MovesOn /\ record'.tsr = record.tsr + 1
      /\ KindOf(c) = "dev" => /\ record'.stage = "developing" /\ ~record'.interrupted
                              /\ record'.dev = id[c] /\ record'.review = record.review
      /\ KindOf(c) # "dev" => /\ record'.stage = "reviewing"
                              /\ record'.review = id[c] /\ record'.dev = record.dev
  BY ClaimWonRecord DEF WorkInv
<1>2. /\ pc[c] = "hosted" /\ Home(c) \in up /\ seen[c].tsr = record.tsr
      /\ pc' = [pc EXCEPT ![c] = "claimed"] /\ lease' = [lease EXCEPT ![c] = record'.tsr]
      /\ UNCHANGED <<up, id, live, aborted, job, agent, stop>>
  BY DEF ClaimWon, At, ExpectationHolds, Goto, request, supervised
<1>3. Typed' /\ TaskInv'
  <2>1. record' \in Workflow({}) /\ Claim(c) /\ IsFiniteSet({t \in Calls : id[t] # None})
    BY <1>1 DEF MovesOn, Claim, WorkInv, Ids, Minted
  <2>2. QED
    BY <1>1, <2>1, RestTypedStep, RequestStep DEF WorkInv, Typed, TypeOK, RestTyped, MovesOn
<1>4. \A t \in Calls \ {c} : Still(t)
  BY OtherCalls DEF Claim
<1>5. \A t \in Calls : ~Busy(t)
  BY <1>2 DEF WorkInv, Alone, Waiting
<1>6. id[c] # None /\ c \in Minted
  BY <1>2 DEF WorkInv, Own, Minted
<1>7. Ids'
  BY <1>1, <1>2, <1>6 DEF WorkInv, Ids, Minted
<1>8. /\ record.tsr \in Nat /\ \A t \in Calls : seen[t].tsr \in Nat
      /\ pc \in [Calls -> Label] /\ lease \in [Calls -> Nat]
  BY DEF WorkInv, Typed, TypeOK, Workflow
<1>9. ASSUME NEW t \in Calls, t # c PROVE Own(t)'
  <2>1. Own(t) /\ Still(t) /\ Home(t)' = Home(t) /\ ~Busy(t) /\ ~Busy(t)'
    BY <1>4, <1>5, <1>9 DEF WorkInv, Home, Still, Busy, Wanted
  <2>2. /\ record'.dev \in {record.dev, id[c]} /\ record'.review \in {record.review, id[c]}
        /\ id[t] # None => id[t] # id[c]
    BY <1>1, <1>6, <1>9 DEF WorkInv, Ids, Minted
  <2>3. QED
    BY <1>1, <1>2, <1>8, <2>1, <2>2 DEF Own, Still, Wanted, Waiting
<1>10. Own(c)'
  <2>1. Own(c) /\ Home(c)' = Home(c) /\ job[c] # "none"
    BY <1>2 DEF WorkInv, Home, Own
  <2>2. IsCurrent(c)' /\ lease'[c] = record'.tsr /\ pc'[c] = "claimed"
    BY <1>1, <1>2, <1>6, <1>8 DEF IsCurrent, KindOf
  <2>3. stop[c] # Nobody => ~Wanted(c) /\ ~Busy(c)
    BY <1>2, <2>1 DEF Own, Waiting
  <2>4. Busy(c)' => Wanted(c)
    BY <1>2, <1>5 DEF Busy, Wanted
  <2>5. QED
    BY <1>2, <2>1, <2>2, <2>3, <2>4 DEF Own, Waiting, Wanted
<1>11. Alone'
  <2>1. SUFFICES ASSUME NEW t \in Calls, Waiting(t)', seen'[t].tsr = record'.tsr PROVE FALSE
    BY DEF Alone
  <2>2. t # c
    BY <1>2, <1>8, <2>1 DEF Waiting
  <2>3. seen[t].tsr = record.tsr + 1 /\ Waiting(t)
    BY <1>1, <1>4, <2>1, <2>2 DEF Still, Waiting
  <2>4. seen[t].tsr <= record.tsr
    BY <2>3 DEF WorkInv, Own
  <2>5. QED
    BY <1>8, <2>3, <2>4
<1>12. QED
  BY <1>3, <1>7, <1>9, <1>10, <1>11 DEF WorkInv

\* The gate lets nobody through while a task is at work.
LEMMA GateExcludes ==
    ASSUME WorkInv, NEW c \in Calls, NEW t \in Calls, Home(c) \in up, Busy(t)
    PROVE  ~LaunchAllowed(CtrlOf[c], record)
<1>1. /\ IsCurrent(t) /\ Typed /\ TaskInv
      /\ Home(t) \in up => job[t] = "active"
  BY BusyHasJob DEF WorkInv, Own
<1>2. /\ Expected(record) = id[t] /\ id[t] # None /\ id[t] \in {record.dev, record.review}
      /\ ~(record.stage = "developing" /\ record.interrupted)
  BY <1>1, CurrentOwns
<1>3. ~(SeenEnded(CtrlOf[c], record))
  <2>1. SUFFICES ASSUME NEW u \in Named(record), id[u] = id[t],
                        Home(u) = HostOf[CtrlOf[c]], job[u] = "settled"
                 PROVE  FALSE
    BY <1>2 DEF SeenEnded
  <2>2. u = t
    BY <1>2, <2>1 DEF WorkInv, Ids, Minted, Named
  <2>3. QED
    BY <1>1, <2>1, <2>2 DEF Home
<1>4. QED
  BY <1>2, <1>3 DEF LaunchAllowed, Ownership

\* A call past the gate has a new id, and is the only one that can claim.
LEMMA MintStep ==
    ASSUME WorkInv, NEW c \in Calls, ReserveGate(c) \/ StartDevelop(c)
    PROVE  WorkInv'
<1> DEFINE n == Cardinality(Minted)
<1>1. /\ pc[c] = "loaded" /\ Home(c) \in up /\ Own(c) /\ id[c] = None /\ c \notin Minted
      /\ Lives(c) /\ agent[c] = "none" /\ job[c] = "none" /\ ~aborted[c] /\ stop[c] = Nobody
      /\ LaunchAllowed(CtrlOf[c], seen[c])
  <2>1. pc[c] = "loaded" /\ Home(c) \in up /\ Own(c) /\ Lives(c)
    BY DEF ReserveGate, StartDevelop, At, WorkInv, TaskInv
  <2>2. id[c] = None /\ c \notin Minted /\ agent[c] = "none" /\ job[c] = "none"
    BY <2>1 DEF Own, Minted, Lives, NoAgentYet
  <2>3. ~aborted[c] /\ stop[c] = Nobody
    BY <2>1, <2>2 DEF Own
  <2>4. LaunchAllowed(CtrlOf[c], seen[c])
    BY DEF ReserveGate, StartDevelop
  <2>5. QED
    BY <2>1, <2>2, <2>3, <2>4
<1>2. /\ record' = record /\ up' = up /\ id' = [id EXCEPT ![c] = n + 1]
      /\ UNCHANGED <<aborted, agent, stop>>
      /\ pc' = [pc EXCEPT ![c] = "done"] \/ (seen' = seen /\ Waiting(c)')
      /\ pc'[c] = "hosted" => job'[c] # "none"
      /\ pc'[c] \in {"reserved", "hosted", "done"}
  BY DEF ReserveGate, StartDevelop, Mint, Minted, Goto, Leave, Waiting, WorkInv, Typed, TypeOK
<1>3. IsFiniteSet(Minted) /\ n \in Nat /\ \A t \in Minted : id[t] <= n /\ id[t] \in Nat
  BY FS_CardinalityType DEF WorkInv, Ids, Typed, TypeOK, Minted
<1>4. Typed' /\ TaskInv'
  <2>1. record' \in Workflow({}) /\ Admission(c) /\ IsFiniteSet({t \in Calls : id[t] # None})
    BY <1>2, <1>3 DEF WorkInv, Typed, TypeOK, Admission, Minted
  <2>2. QED
    BY <1>2, <2>1, RestTypedStep, RequestStep DEF WorkInv, Typed, TypeOK, RestTyped
<1>5. /\ id'[c] = n + 1 /\ \A t \in Calls \ {c} : id'[t] = id[t]
      /\ Minted' = Minted \cup {c} /\ Cardinality(Minted') = n + 1 /\ IsFiniteSet(Minted')
  <2>1. id'[c] = n + 1 /\ \A t \in Calls \ {c} : id'[t] = id[t]
    BY <1>2 DEF WorkInv, Typed, TypeOK
  <2>2. Minted' = Minted \cup {c}
    BY <1>3, <2>1 DEF Minted, None
  <2>3. IsFiniteSet(Minted \cup {c}) /\ Cardinality(Minted \cup {c}) = n + 1
    BY <1>1, <1>3, FS_AddElement
  <2>4. QED
    BY <2>1, <2>2, <2>3
<1>6. Ids'
  <2>1. record'.dev <= n + 1 /\ record'.review <= n + 1
    BY <1>2, <1>3 DEF WorkInv, Ids, Typed, TypeOK, Workflow
  <2>2. \A t \in Minted' : id'[t] <= n + 1
    <3>1. \A t \in Minted : t \in Calls \ {c}
      BY <1>1 DEF Minted
    <3>2. QED
      BY <1>3, <1>5, <3>1
  <2>3. \A t, u \in Minted' : id'[t] = id'[u] => t = u
    <3>1. \A t \in Minted : id'[t] # n + 1
      BY <1>1, <1>3, <1>5 DEF Minted
    <3>2. \A t, u \in Minted : id'[t] = id'[u] => t = u
      BY <1>1, <1>5 DEF WorkInv, Ids, Minted
    <3>3. QED
      BY <1>5, <3>1, <3>2
  <2>4. QED
    BY <1>5, <2>1, <2>2, <2>3 DEF Ids
<1>7. \A t \in Calls \ {c} : Still(t)
  BY OtherCalls DEF Admission
<1>8. ASSUME NEW t \in Calls, t # c PROVE Own(t)' /\ (Busy(t)' => Busy(t))
  <2>1. Own(t) /\ Still(t) /\ Home(t)' = Home(t) /\ id'[t] = id[t]
    BY <1>5, <1>7, <1>8 DEF WorkInv, Home
  <2>2. QED
    BY <1>2, <2>1 DEF Own, Still, Busy, Wanted, Waiting, IsCurrent, KindOf
<1>9. Own(c)' /\ ~Busy(c)'
  <2>1. ~Busy(c)'
    BY <1>1, <1>2 DEF Busy, Early
  <2>2. id'[c] # None /\ id'[c] \notin {record'.dev, record'.review}
    <3>1. record.dev <= n /\ record.review <= n /\ record.dev \in Nat /\ record.review \in Nat
      BY DEF WorkInv, Ids, Typed, TypeOK, Workflow
    <3>2. QED
      BY <1>2, <1>3, <1>5, <3>1 DEF None
  <2>3. Waiting(c)' => seen' = seen
    BY <1>2 DEF Waiting, WorkInv, Typed, TypeOK
  <2>4. QED
    BY <1>1, <1>2, <2>1, <2>2, <2>3 DEF Own, Waiting
<1>10. Alone'
  <2>1. SUFFICES ASSUME NEW t \in Calls, NEW a \in Calls, Waiting(t)',
                        seen'[t].tsr = record'.tsr, Busy(a)'
                 PROVE  FALSE
    BY DEF Alone
  <2>2. Busy(a)
    BY <1>8, <1>9, <2>1
  <2>3. CASE t # c
    BY <1>2, <1>7, <2>1, <2>2, <2>3 DEF WorkInv, Alone, Still, Waiting
  <2>4. CASE t = c
    <3>1. seen' = seen
      BY <1>2, <2>1, <2>4 DEF Waiting, WorkInv, Typed, TypeOK
    <3>2. seen[c] = record
      BY <1>1, <1>2, <2>1, <2>4, <3>1 DEF Own
    <3>3. QED
      BY <1>1, <2>2, <3>2, GateExcludes
  <2>5. QED
    BY <2>3, <2>4
<1>11. QED
  BY <1>4, <1>6, <1>8, <1>9, <1>10 DEF WorkInv

\* A host that dies takes its tasks with it, and leaves agents that work on.
LEMMA HostDiesWork ==
    ASSUME WorkInv, NEW h \in Hosts, HostDies(h)
    PROVE  WorkInv'
<1>1. /\ record' = record /\ id' = id /\ agent' = agent /\ stop' = stop /\ up' = up \ {h}
  BY DEF HostDies
<1>2. \A c \in Calls :
          /\ Home(c) = h => /\ pc'[c] = "done" /\ live'[c] = "none" /\ ~aborted'[c]
                            /\ Home(c) \notin up'
          /\ Home(c) # h => Still(c)
  BY DEF HostDies, Still, WorkInv, Typed, TypeOK
<1>3. Typed' /\ TaskInv'
  BY <1>1, RestTypedHostDies, HostDiesStep DEF WorkInv, Typed, TypeOK, RestTyped
<1>4. Ids'
  BY <1>1 DEF WorkInv, Ids, Minted
<1>5. ASSUME NEW c \in Calls PROVE (Busy(c)' => Busy(c)) /\ Own(c)'
  <2>1. Own(c) /\ Home(c)' = Home(c)
    BY DEF WorkInv, Home
  <2>2. CASE Home(c) = h
    BY <1>1, <1>2, <2>1, <2>2 DEF Own, Busy, Wanted, Waiting, IsCurrent, KindOf, Early
  <2>3. CASE Home(c) # h
    BY <1>1, <1>2, <2>1, <2>3 DEF Own, Busy, Wanted, Waiting, IsCurrent, KindOf, Still
  <2>4. QED
    BY <2>2, <2>3
<1>6. Alone'
  <2>1. \A t \in Calls : Waiting(t)' => Waiting(t) /\ seen'[t] = seen[t]
    BY <1>2 DEF Waiting, Still
  <2>2. QED
    BY <1>1, <1>5, <2>1 DEF WorkInv, Alone
<1>7. QED
  BY <1>3, <1>4, <1>5, <1>6 DEF WorkInv

LEMMA WorkInit == Init => WorkInv
<1>1. SUFFICES ASSUME Init PROVE WorkInv
  OBVIOUS
<1>2. Minted = {} /\ IsFiniteSet(Minted) /\ Cardinality(Minted) = 0
  BY <1>1, FS_EmptySet DEF Init, Minted
<1>3. Ids
  BY <1>1, <1>2 DEF Ids, Init, Prepared, Absent, None
<1>4. ASSUME NEW c \in Calls PROVE Own(c) /\ ~Waiting(c)
  BY <1>1 DEF Init, Own, Waiting, Wanted, Busy, Early, Prepared, Absent
<1>5. TaskInv
  <2>1. \A c \in Calls : Home(c) \in Hosts
    BY TaskAssumption DEF TaskAssumption, Home
  <2>2. QED
    BY <1>1, <2>1 DEF Init, TaskInv, OneJob, Shape, Lives, NoAgentYet, HasJob, LivesWhileRunning,
                      AliveIn, Label
<1>6. QED
  BY <1>1, <1>3, <1>4, <1>5, TypedInit DEF WorkInv, Alone

\* A step that changes nothing.
LEMMA WorkStutter ==
    ASSUME WorkInv, UNCHANGED vars
    PROVE  WorkInv'
<1>1. TaskInv'
  BY QuietStep DEF vars, WorkInv
<1>2. Typed' /\ Ids' /\ \A c \in Calls : Home(c)' = Home(c)
  BY DEF vars, WorkInv, Typed, TypeOK, Ids, Minted, Home
<1>3. \A c \in Calls : Own(c)'
  BY <1>2 DEF vars, WorkInv, Own, Busy, Wanted, Waiting, IsCurrent, KindOf
<1>4. Alone'
  BY DEF vars, WorkInv, Alone, Busy, Wanted, Waiting
<1>5. QED
  BY <1>1, <1>2, <1>3, <1>4 DEF WorkInv

\* Steps of a call that leave the record as it is, and do not mint.
LEMMA PlainStep ==
    ASSUME WorkInv, NEW c \in Calls,
           \/ Load(c) \/ Turned(c) \/ Preparing(c) \/ ClaimLost(c) \/ RecoveryThrows(c)
           \/ SettleFails(c) \/ Close(c)
           \/ ClearResult(c) \/ Launch(c) \/ Settle(c) \/ Relaunch(c) \/ Agent(c)
    PROVE  WorkInv'
<1>1. /\ Own(c)'
      /\ Busy(c)' => Busy(c)
      /\ Waiting(c)' => Waiting(c) /\ seen'[c] = seen[c]
      /\ record' = record /\ up' = up /\ id' = id
  BY RequestOwn, SuperviseOwn
<1>2. Admission(c) \/ Preparing(c) \/ Claim(c) \/ Supervise(c) \/ Agent(c)
  BY DEF Admission, Claim, Supervise
<1>3. \A t \in Calls \ {c} : Still(t)
  BY OtherCalls DEF Admission, Claim
<1>4. TaskInv'
  BY <1>2, RequestStep, SuperviseStep, AgentStep DEF WorkInv
<1>5. RestTyped'
  BY <1>1, <1>2, RestTypedStep DEF WorkInv, Ids, Minted, Typed, TypeOK
<1>6. QED
  BY <1>1, <1>3, <1>4, <1>5, QuietOwnerStep

LEMMA CancellingStep ==
    ASSUME WorkInv, NEW c \in Calls,
           StopLocal(c) \/ HostCancel(c) \/ Timeout(c) \/ \E k \in Controllers : StopRemote(k, c)
    PROVE  WorkInv'
<1>1. /\ Own(c)' /\ ~Busy(c)' /\ (Waiting(c)' => Waiting(c))
      /\ UNCHANGED <<record, up, id, pc, seen>>
      /\ \A t \in Calls \ {c} : Still(t)
  BY StopOwn
<1>2. TaskInv' /\ RestTyped'
  BY StopStep, RestTypedStop DEF WorkInv
<1>3. QED
  BY <1>1, <1>2, QuietOwnerStep

LEMMA WorkKept == WorkInv /\ [Next]_vars => WorkInv'
<1>1. SUFFICES ASSUME WorkInv, [Next]_vars PROVE WorkInv'
  OBVIOUS
<1>2. CASE UNCHANGED vars
  BY <1>1, <1>2, WorkStutter
<1>3. ASSUME NEW c \in Calls, Admission(c) \/ Preparing(c) \/ Claim(c) PROVE WorkInv'
  BY <1>1, <1>3, PlainStep, MintStep, ClaimWonStep DEF Admission, Claim
<1>4. ASSUME NEW c \in Calls, Supervise(c) \/ Agent(c) PROVE WorkInv'
  BY <1>1, <1>4, PlainStep, LeaseStep DEF Supervise
<1>5. ASSUME NEW c \in Calls,
             \/ StopLocal(c) \/ CommitStop(c) \/ HostCancel(c) \/ Timeout(c)
             \/ \E k \in Controllers : StopRemote(k, c)
      PROVE WorkInv'
  BY <1>1, <1>5, CancellingStep, CommitStopOwn
<1>6. ASSUME NEW h \in Hosts, HostDies(h) PROVE WorkInv'
  BY <1>1, <1>6, HostDiesWork
<1>7. QED
  BY <1>1, <1>2, <1>3, <1>4, <1>5, <1>6 DEF Next

\* Whoever is at work is who the record names, through a lease that holds.
THEOREM WorkInvariant == Spec => []WorkInv
<1>1. Init => WorkInv
  BY WorkInit
<1>2. WorkInv /\ [Next]_vars => WorkInv'
  BY WorkKept
<1>3. QED
  BY <1>1, <1>2, PTL DEF Spec

-----------------------------------------------------------------------------

\* Every variable keeps its type, whatever the record becomes.
THEOREM TaskTypes == Spec => []TypeOK
<1>1. WorkInv => TypeOK
  BY DEF WorkInv, Typed
<1>2. QED
  BY <1>1, WorkInvariant, PTL

\* No matter how many hosts there are and which of them died, one agent of
\* the workflow at most has not been told to stop: the record names it.
THEOREM OneWorking == Spec => []OneWorkingAgent
<1>1. WorkInv => OneWorkingAgent
  <2>1. SUFFICES ASSUME WorkInv PROVE Cardinality({c \in Calls : agent[c] = "alive"}) <= 1
    BY DEF OneWorkingAgent
  <2> DEFINE S == {c \in Calls : agent[c] = "alive"}
  <2>2. \A c, t \in S : c = t
    <3>1. SUFFICES ASSUME NEW c \in S, NEW t \in S PROVE c = t
      OBVIOUS
    <3>2. Busy(c) /\ Busy(t)
      BY DEF Busy
    <3>3. Owns(record, id[t])
      BY <2>1, <3>2, CurrentOwns DEF WorkInv, Own
    <3>4. QED
      BY <2>1, <3>2, <3>3, OneBusy
  <2>3. CASE S = {}
    BY <2>3, FS_EmptySet
  <2>4. CASE S # {}
    <3>1. PICK c \in S : TRUE
      BY <2>4
    <3>2. S = {c}
      BY <2>2, <3>1
    <3>3. Cardinality({c}) = 1
      BY FS_Singleton
    <3>4. QED
      BY <3>2, <3>3
  <2>5. QED
    BY <2>3, <2>4
<1>2. QED
  BY <1>1, WorkInvariant, PTL

\* An agent is started by the step of its own task that launches it.
LEMMA WhoStarts ==
    ASSUME WorkInv, [Next]_vars, NEW c \in Calls, agent[c] # "alive", agent'[c] = "alive"
    PROVE  Starts(c) /\ ((Launch(c) /\ Launchable(c)) \/ (Relaunch(c) /\ ~aborted[c]))
<1>0. agent \in [Calls -> {"none", "alive", "killed", "exited"}]
  BY DEF WorkInv, Typed, TypeOK
<1>1. agent' # agent
  OBVIOUS
<1>2. ASSUME NEW t \in Calls, StopLocal(t) \/ HostCancel(t) \/ Timeout(t)
                              \/ \E k \in Controllers : StopRemote(k, t)
      PROVE  FALSE
  <2>1. Cancel(t)
    BY <1>1, <1>2 DEF StopLocal, HostCancel, Timeout, StopRemote
  <2>2. QED
    BY <1>0, <2>1 DEF Cancel
<1>3. ASSUME NEW t \in Calls, Admission(t) \/ Preparing(t) \/ Claim(t)
      PROVE  FALSE
  <2>1. agent' = agent
    BY <1>3 DEF Admission, Load, Turned, ReserveGate, StartDevelop, Preparing, PrepareFails,
                SnapshotThrows, ReserveHost, Claim, ClaimLost, ClaimWon, RecoveryThrows
  <2>2. QED
    BY <1>1, <2>1
<1>4. ASSUME NEW t \in Calls, Supervise(t)
      PROVE  Starts(c) /\ ((Launch(c) /\ Launchable(c)) \/ (Relaunch(c) /\ ~aborted[c]))
  <2>1. /\ Starts(t) /\ agent' = [agent EXCEPT ![t] = "alive"]
        /\ (Launch(t) /\ Launchable(t)) \/ (Relaunch(t) /\ ~aborted[t])
    <3>1. CASE Launch(t)
      BY <1>1, <3>1 DEF Launch, Starts
    <3>2. CASE Relaunch(t)
      BY <1>1, <3>2 DEF Relaunch, Starts
    <3>3. CASE ClearResult(t) \/ Settle(t) \/ SettleFails(t) \/ ClearStaleSession(t) \/ Report(t) \/ Close(t)
      BY <1>1, <3>3
         DEF ClearResult, Settle, SettleFails, ClearStaleSession, Report, Close
    <3>4. QED
      BY <1>4, <3>1, <3>2, <3>3 DEF Supervise
  <2>2. t = c
    BY <1>0, <2>1
  <2>3. QED
    BY <2>1, <2>2
<1>5. ASSUME NEW t \in Calls, Agent(t) \/ CommitStop(t) PROVE FALSE
  BY <1>0, <1>1, <1>5 DEF Agent, AgentWrites, AgentExits, CommitStop
<1>6. ~UNCHANGED vars
  BY <1>1 DEF vars
<1>7. ASSUME NEW h \in Hosts, HostDies(h) PROVE FALSE
  BY <1>1, <1>7 DEF HostDies
<1>8. QED
  BY <1>2, <1>3, <1>4, <1>5, <1>6, <1>7 DEF Next

\* An agent is started for the task the record names, through a lease that
\* still holds.
THEOREM LaunchUnderLease == Spec => LaunchHoldsLease
<1>1. ASSUME WorkInv, [Next]_vars, NEW c \in Calls, agent[c] # "alive", agent'[c] = "alive"
      PROVE  HoldsLease(c)
  <2>1. (Launch(c) /\ Launchable(c)) \/ (Relaunch(c) /\ ~aborted[c])
    BY <1>1, WhoStarts
  <2>2. Own(c) /\ Lives(c) /\ Home(c) \in up
    BY <1>1, <2>1 DEF WorkInv, TaskInv, Launch, ReadyToLaunch, Relaunch, At
  <2>3. Busy(c)
    <3>1. CASE Launch(c) /\ Launchable(c)
      <4>1. pc[c] \in {"claimed", "cleared"}
        BY <3>1 DEF Launch, ReadyToLaunch, At
      <4>2. ~aborted[c]
        BY <2>2, <4>1 DEF Lives, NoAgentYet, Own
      <4>3. QED
        BY <3>1, <4>1, <4>2 DEF Launchable, Busy, Wanted, Early
    <3>2. CASE Relaunch(c) /\ ~aborted[c]
      BY <2>2, <3>2 DEF Lives, HasJob, Relaunch, At, Busy, Wanted, Early
    <3>3. QED
      BY <2>1, <3>1, <3>2
  <2>4. Owns(record, id[c]) /\ lease[c] = record.tsr
    BY <1>1, <2>2, <2>3, CurrentOwns DEF Own, WorkInv
  <2>5. QED
    BY <2>4 DEF HoldsLease
<1>2. WorkInv /\ [Next]_vars =>
          [\A c \in Calls : agent[c] # "alive" /\ agent'[c] = "alive" => HoldsLease(c)]_vars
  BY <1>1
<1>3. QED
  BY <1>2, WorkInvariant, PTL DEF Spec, LaunchHoldsLease

-----------------------------------------------------------------------------
(* The verdict of a review, when all controllers are on one host *)

\* Between the removal of the old result file and the end of its agent, and
\* while its job lasts, what a review finds there it has written.
Writing(c) == pc[c] \in {"cleared", "running", "fallback", "relaunch"} /\ job[c] = "active"
Read(c) == pc[c] = "exiting" /\ result[c] = "ok"

OwnFile(c) ==
    /\ Read(c) => job[c] = "active" /\ agent[c] # "none"
    /\ KindOf(c) = "review" /\ (Writing(c) \/ Read(c)) => file \in {None, id[c]}

FileInv == WorkInv /\ \A c \in Calls : OwnFile(c)

\* What a step leaves alone of a task it is not about.
FileSame(c) ==
    /\ pc'[c] = pc[c] /\ job'[c] = job[c] /\ agent'[c] = agent[c] /\ result'[c] = result[c]

LEMMA FileOther ==
    ASSUME WorkInv, NEW c \in Calls,
           \/ Admission(c) \/ Preparing(c) \/ Claim(c) \/ Supervise(c) \/ Agent(c)
           \/ StopLocal(c) \/ CommitStop(c) \/ HostCancel(c) \/ Timeout(c)
           \/ \E k \in Controllers : StopRemote(k, c)
    PROVE  \A t \in Calls \ {c} : FileSame(t)
<1> USE DEF FileSame, Goto, supervised, request
<1>0. /\ pc \in [Calls -> Label] /\ job \in [Calls -> {"none", "active", "settled"}]
      /\ agent \in [Calls -> {"none", "alive", "killed", "exited"}]
      /\ result \in [Calls -> {"none", "ok", "bad"}]
  BY DEF WorkInv, Typed, TypeOK
<1>1. CASE Admission(c) \/ Preparing(c) \/ Claim(c)
  BY <1>0, <1>1 DEF Admission, Load, Turned, ReserveGate, StartDevelop, Preparing, PrepareFails,
       SnapshotThrows, ReserveHost, Claim, ClaimLost, ClaimWon, RecoveryThrows, Leave, FinishTask
<1>2. CASE Supervise(c)
  <2>1. CASE ClearResult(c) \/ Launch(c) \/ Relaunch(c)
    BY <1>0, <2>1 DEF ClearResult, Launch, Relaunch, Starts, Ends, Leave
  <2>2. CASE Settle(c) \/ SettleFails(c) \/ Close(c)
    BY <1>0, <2>2 DEF Settle, SettleFails, Close, Ends, FinishTask, Leave
  <2>3. CASE ClearStaleSession(c) \/ Report(c)
    BY <1>0, <2>3 DEF ClearStaleSession, Report, Ends
  <2>4. QED
    BY <1>2, <2>1, <2>2, <2>3 DEF Supervise
<1>3. CASE Agent(c) \/ CommitStop(c)
  BY <1>0, <1>3 DEF Agent, AgentWrites, AgentExits, CommitStop
<1>4. CASE \/ StopLocal(c) \/ HostCancel(c) \/ Timeout(c)
           \/ \E k \in Controllers : StopRemote(k, c)
  <2>1. /\ Cancel(c) \/ UNCHANGED <<supervised, agent>>
        /\ pc' = pc /\ result' = result
    BY <1>4 DEF StopLocal, HostCancel, Timeout, StopRemote
  <2>2. QED
    BY <1>0, <2>1 DEF Cancel, FinishTask
<1>5. QED
  BY <1>1, <1>2, <1>3, <1>4

\* The file changes when a review claims it, and when its agent writes.
LEMMA FileOwn ==
    ASSUME WorkInv, NEW c \in Calls, OwnFile(c),
           \/ Admission(c) \/ Preparing(c) \/ Claim(c) \/ Supervise(c) \/ Agent(c)
           \/ StopLocal(c) \/ CommitStop(c) \/ HostCancel(c) \/ Timeout(c)
           \/ \E k \in Controllers : StopRemote(k, c)
    PROVE  /\ OwnFile(c)'
           /\ \/ file' \in {file, None}
              \/ file' = id[c] /\ AliveIn(c)
<1> USE DEF OwnFile, Writing, Read, Goto, At, supervised, request, KindOf
<1>0. /\ pc \in [Calls -> Label] /\ job \in [Calls -> {"none", "active", "settled"}]
      /\ agent \in [Calls -> {"none", "alive", "killed", "exited"}]
      /\ result \in [Calls -> {"none", "ok", "bad"}]
      /\ Lives(c) /\ id \in [Calls -> Nat] /\ live \in [Calls -> {"none", "open", "closed"}]
  BY DEF WorkInv, Typed, TypeOK, TaskInv
<1>1. CASE Load(c) \/ Turned(c) \/ SnapshotThrows(c) \/ RecoveryThrows(c)
  BY <1>0, <1>1 DEF Load, Turned, SnapshotThrows, RecoveryThrows, Leave
<1>2. CASE ReserveGate(c) \/ StartDevelop(c) \/ ClaimWon(c)
  BY <1>0, <1>2 DEF ReserveGate, StartDevelop, ClaimWon, Leave
<1>3. CASE PrepareFails(c) \/ ReserveHost(c) \/ ClaimLost(c) \/ SettleFails(c) \/ Close(c)
  BY <1>0, <1>3 DEF PrepareFails, ReserveHost, ClaimLost, SettleFails, Close, Leave
<1>4. CASE ClearResult(c)
  BY <1>0, <1>4 DEF ClearResult, Ends
<1>5. CASE Launch(c)
  <2>1. pc[c] = IF EntryOf[c] = "review" THEN "cleared" ELSE "claimed"
    BY <1>5 DEF Launch, ReadyToLaunch
  <2>2. QED
    BY <1>0, <1>5, <2>1 DEF Launch, Starts, Ends, Leave
<1>6. CASE Settle(c)
  BY <1>0, <1>6 DEF Settle, Ends, Lives, HasJob
<1>7. CASE ClearStaleSession(c) \/ Relaunch(c) \/ Report(c)
  BY <1>0, <1>7 DEF ClearStaleSession, Relaunch, Report, Starts, Ends
<1>8. CASE Agent(c)
  BY <1>0, <1>8 DEF Agent, AgentWrites, AgentExits, AliveIn
<1>9. CASE CommitStop(c)
  BY <1>0, <1>9 DEF CommitStop
<1>10. CASE \/ StopLocal(c) \/ HostCancel(c) \/ Timeout(c)
            \/ \E k \in Controllers : StopRemote(k, c)
  <2>1. /\ Cancel(c) \/ UNCHANGED <<supervised, agent>>
        /\ pc' = pc /\ result' = result /\ file' = file /\ id' = id
    BY <1>10 DEF StopLocal, HostCancel, Timeout, StopRemote
  <2>2. QED
    BY <1>0, <2>1 DEF Cancel, FinishTask
<1>11. QED
  BY <1>1, <1>2, <1>3, <1>4, <1>5, <1>6, <1>7, <1>8, <1>9, <1>10
     DEF Admission, Preparing, Claim, Supervise

\* An agent that writes has the host's one job, so no other review is under
\* way on its host.
LEMMA FileStep ==
    ASSUME \A c, t \in Calls : Home(c) = Home(t),
           FileInv, [Next]_vars, WorkInv'
    PROVE  \A c \in Calls : OwnFile(c)'
<1> USE DEF FileInv
<1>1. ASSUME NEW c \in Calls,
             \/ Admission(c) \/ Preparing(c) \/ Claim(c) \/ Supervise(c) \/ Agent(c)
             \/ StopLocal(c) \/ CommitStop(c) \/ HostCancel(c) \/ Timeout(c)
             \/ \E k \in Controllers : StopRemote(k, c),
             NEW t \in Calls
      PROVE  OwnFile(t)'
  <2>1. CASE t = c
    BY <1>1, <2>1, FileOwn
  <2>2. CASE t # c
    <3>1. FileSame(t) /\ OwnFile(t) /\ Lives(t) /\ Lives(c) /\ id'[t] = id[t]
      <4>1. FileSame(t) /\ OwnFile(t) /\ Lives(t) /\ Lives(c)
        BY <1>1, <2>2, FileOther DEF WorkInv, TaskInv
      <4>2. id' = id \/ id' = [id EXCEPT ![c] = Cardinality(Minted) + 1]
        BY <1>1 DEF Admission, Load, Turned, ReserveGate, StartDevelop, Preparing, PrepareFails,
             SnapshotThrows, ReserveHost, Claim, ClaimLost, ClaimWon, RecoveryThrows,
             Supervise, ClearResult, Launch, Settle, SettleFails, ClearStaleSession, Relaunch,
             Report, Close, Agent, AgentWrites, AgentExits, StopLocal, CommitStop, HostCancel,
             Timeout, StopRemote, Mint, Minted, request
      <4>3. QED
        BY <2>2, <4>1, <4>2 DEF WorkInv, Typed, TypeOK
    <3>2. file' \in {file, None} \/ (file' = id[c] /\ AliveIn(c))
      BY <1>1, FileOwn
    <3>3. CASE file' \in {file, None}
      BY <3>1, <3>3 DEF OwnFile, Writing, Read, FileSame, KindOf
    <3>4. CASE AliveIn(c)
      <4>1. Home(t) = Home(c)
        OBVIOUS
      <4>2. ~(Writing(t) \/ Read(t))
        <5>1. CASE Home(c) \in up
          <6>1. job[c] = "active"
            BY <3>1, <3>4, <5>1 DEF Lives, LivesWhileRunning, HasJob
          <6>2. job[t] # "active"
            BY <2>2, <4>1, <6>1 DEF WorkInv, TaskInv, OneJob
          <6>3. QED
            BY <3>1, <6>2 DEF Writing, Read, OwnFile
        <5>2. CASE Home(c) \notin up
          BY <3>1, <4>1, <5>2 DEF Lives, Gone, Writing, Read
        <5>3. QED
          BY <5>1, <5>2
      <4>3. QED
        BY <3>1, <4>2 DEF OwnFile, Writing, Read, FileSame, KindOf
    <3>5. QED
      BY <3>2, <3>3, <3>4
  <2>3. QED
    BY <2>1, <2>2
<1>2. ASSUME NEW h \in Hosts, HostDies(h), NEW t \in Calls PROVE OwnFile(t)'
  <2>1. /\ Home(t) = h => pc'[t] = "done"
        /\ Home(t) # h => FileSame(t)
        /\ file' = file /\ id' = id
    BY <1>2 DEF HostDies, FileSame, WorkInv, Typed, TypeOK
  <2>2. QED
    BY <2>1 DEF OwnFile, Writing, Read, FileSame, KindOf
<1>3. ASSUME UNCHANGED vars, NEW t \in Calls PROVE OwnFile(t)'
  BY <1>3 DEF vars, OwnFile, Writing, Read, KindOf
<1>4. QED
  BY <1>1, <1>2, <1>3 DEF Next

\* On one host, the file a review takes its verdict from was written in its
\* own run.
THEOREM VerdictIsOwn ==
    ASSUME \A c, t \in Calls : Home(c) = Home(t)
    PROVE  Spec => []VerdictFromOwnRun
<1>1. WorkInv /\ [Next]_vars => WorkInv'
  BY WorkKept
<1>2. Init => FileInv
  BY WorkInit DEF FileInv, Init, OwnFile, Writing, Read
<1>3. FileInv /\ [Next]_vars => FileInv'
  BY <1>1, FileStep DEF FileInv
<1>4. FileInv => VerdictFromOwnRun
  BY DEF FileInv, OwnFile, VerdictFromOwnRun, Read
<1>5. QED
  BY <1>2, <1>3, <1>4, PTL DEF Spec

-----------------------------------------------------------------------------
(* What keeps a gate closed *)

\* Of a task of a host that lives: it is open until its reservation unless it
\* was stopped; an active job without an open task was stopped before it had
\* an agent; and an open task whose code is over never had one.
Trace(c) ==
    /\ pc[c] = "reserved" => live[c] = "open" \/ stop[c] # Nobody
    /\ job[c] = "active" /\ live[c] # "open" => stop[c] # Nobody /\ agent[c] = "none"
    /\ pc[c] = "done" /\ live[c] = "open" => agent[c] = "none" /\ (c \in Unsettled \/ job[c] = "none")

Traced(c) == Home(c) \in up => Trace(c)

TraceInv == WorkInv /\ \A c \in Calls : Traced(c)

\* The step of a task, on a host that lives.
StepOf(c) ==
    \/ Admission(c) \/ Preparing(c) \/ Claim(c) \/ Supervise(c) \/ Agent(c)
    \/ StopLocal(c) \/ CommitStop(c) \/ HostCancel(c) \/ Timeout(c)
    \/ \E k \in Controllers : StopRemote(k, c)

\* What the step of another task leaves alone.
LEMMA TraceOther ==
    ASSUME WorkInv, NEW c \in Calls, StepOf(c), NEW t \in Calls \ {c}
    PROVE  /\ pc'[t] = pc[t] /\ job'[t] = job[t] /\ agent'[t] = agent[t]
           /\ live'[t] = live[t] /\ stop'[t] = stop[t] /\ up' = up
<1>0. /\ stop \in [Calls -> Controllers \cup {Nobody, Handled}]
      /\ live \in [Calls -> {"none", "open", "closed"}]
  BY DEF WorkInv, Typed, TypeOK
<1>1. FileSame(t)
  BY FileOther DEF StepOf
<1>2. live'[t] = live[t]
  <2>1. CASE Admission(c) \/ Preparing(c) \/ Claim(c)
    BY <1>0, <2>1 DEF Admission, Load, Turned, ReserveGate, StartDevelop, Preparing, PrepareFails,
         SnapshotThrows, ReserveHost, Claim, ClaimLost, ClaimWon, RecoveryThrows, Leave, FinishTask,
         supervised
  <2>2. CASE Supervise(c)
    BY <1>0, <2>2 DEF Supervise, ClearResult, Launch, Settle, SettleFails, ClearStaleSession,
         Relaunch, Report, Close, FinishTask, supervised
  <2>3. CASE Agent(c) \/ CommitStop(c)
    BY <1>0, <2>3 DEF Agent, AgentWrites, AgentExits, CommitStop, supervised
  <2>4. CASE \/ StopLocal(c) \/ HostCancel(c) \/ Timeout(c)
             \/ \E k \in Controllers : StopRemote(k, c)
    <3>1. Cancel(c) \/ UNCHANGED <<supervised, agent>>
      BY <2>4 DEF StopLocal, HostCancel, Timeout, StopRemote
    <3>2. QED
      BY <1>0, <3>1 DEF Cancel, FinishTask, supervised
  <2>5. QED
    BY <2>1, <2>2, <2>3, <2>4 DEF StepOf
<1>3. stop'[t] = stop[t] /\ up' = up
  <2>1. CASE Admission(c) \/ Preparing(c) \/ Claim(c)
    BY <2>1 DEF Admission, Load, Turned, ReserveGate, StartDevelop, Preparing, PrepareFails,
         SnapshotThrows, ReserveHost, Claim, ClaimLost, ClaimWon, RecoveryThrows
  <2>2. CASE Supervise(c)
    BY <2>2 DEF Supervise, ClearResult, Launch, Settle, SettleFails, ClearStaleSession,
         Relaunch, Report, Close
  <2>3. CASE Agent(c) \/ CommitStop(c)
    BY <1>0, <2>3 DEF Agent, AgentWrites, AgentExits, CommitStop
  <2>4. CASE \/ StopLocal(c) \/ HostCancel(c) \/ Timeout(c)
             \/ \E k \in Controllers : StopRemote(k, c)
    BY <1>0, <2>4 DEF StopLocal, HostCancel, Timeout, StopRemote
  <2>5. QED
    BY <2>1, <2>2, <2>3, <2>4 DEF StepOf
<1>4. QED
  BY <1>1, <1>2, <1>3 DEF FileSame

LEMMA TraceOwn ==
    ASSUME WorkInv, NEW c \in Calls, StepOf(c), Home(c) \in up, Trace(c)
    PROVE  Trace(c)'
<1> USE DEF Trace, Goto, At, supervised, request
<1>0. /\ pc \in [Calls -> Label] /\ job \in [Calls -> {"none", "active", "settled"}]
      /\ agent \in [Calls -> {"none", "alive", "killed", "exited"}]
      /\ live \in [Calls -> {"none", "open", "closed"}]
      /\ stop \in [Calls -> Controllers \cup {Nobody, Handled}]
      /\ NoAgentYet(c) /\ HasJob(c) /\ Nobody \notin Controllers /\ Nobody # Handled
  BY TaskAssumption DEF WorkInv, Typed, TypeOK, TaskInv, Lives, Nobody, Handled
<1>1. CASE Load(c) \/ Turned(c) \/ SnapshotThrows(c)
  BY <1>0, <1>1 DEF Load, Turned, SnapshotThrows, Leave, NoAgentYet
<1>2. CASE ReserveGate(c) \/ StartDevelop(c)
  BY <1>0, <1>2 DEF ReserveGate, StartDevelop, Leave, NoAgentYet
<1>3. CASE ClaimWon(c) \/ RecoveryThrows(c)
  BY <1>0, <1>3 DEF ClaimWon, RecoveryThrows, Leave, NoAgentYet
<1>4. CASE PrepareFails(c) \/ ClaimLost(c) \/ SettleFails(c) \/ Close(c)
  BY <1>0, <1>4 DEF PrepareFails, ClaimLost, SettleFails, Close, FinishTask, Leave, NoAgentYet
<1>5. CASE ReserveHost(c)
  BY <1>0, <1>5 DEF ReserveHost, FinishTask, Leave, NoAgentYet
<1>6. CASE ClearResult(c) \/ Settle(c) \/ ClearStaleSession(c) \/ Report(c)
  BY <1>0, <1>6 DEF ClearResult, Settle, ClearStaleSession, Report, Ends
<1>7. CASE Launch(c)
  <2>1. pc[c] = IF EntryOf[c] = "review" THEN "cleared" ELSE "claimed"
    BY <1>7 DEF Launch, ReadyToLaunch
  <2>2. QED
    BY <1>0, <1>7, <2>1 DEF Launch, Launchable, Starts, Ends, Leave
<1>8. CASE Relaunch(c)
  BY <1>0, <1>8 DEF Relaunch, Starts, Ends, HasJob
<1>9. CASE Agent(c)
  BY <1>0, <1>9 DEF Agent, AgentWrites, AgentExits
<1>10. CASE CommitStop(c)
  BY <1>0, <1>10 DEF CommitStop
<1>11. CASE \/ StopLocal(c) \/ HostCancel(c) \/ Timeout(c)
            \/ \E k \in Controllers : StopRemote(k, c)
  <2>1. /\ pc' = pc
        /\ \/ Cancel(c)
           \/ UNCHANGED <<supervised, agent>>
        /\ stop' = stop \/ (stop'[c] \in Controllers)
    BY <1>0, <1>11, TaskAssumption DEF StopLocal, HostCancel, Timeout, StopRemote
  <2>2. stop[c] # Nobody => stop'[c] # Nobody
    BY <1>0, <2>1
  <2>3. CASE UNCHANGED <<supervised, agent>>
    BY <1>0, <2>1, <2>2, <2>3
  <2>4. CASE Cancel(c)
    <3>1. CASE agent[c] = "none"
      <4>1. job'[c] # "active" /\ live'[c] = "closed" /\ agent' = agent
        BY <1>0, <2>4, <3>1 DEF Cancel, FinishTask
      <4>2. pc[c] = "reserved" => stop'[c] # Nobody
        <5>1. CASE pc[c] = "reserved"
          <6>1. job[c] = "none"
            BY <1>0, <5>1 DEF NoAgentYet
          <6>2. StopLocal(c) \/ \E k \in Controllers : StopRemote(k, c)
            BY <1>11, <3>1, <6>1 DEF HostCancel, Timeout
          <6>3. QED
            BY <1>0, <6>2, TaskAssumption DEF StopLocal, StopRemote
        <5>2. QED
          BY <5>1
      <4>3. QED
        BY <2>1, <4>1, <4>2
    <3>2. CASE agent[c] # "none"
      BY <1>0, <2>1, <2>2, <2>4, <3>2 DEF Cancel, NoAgentYet
    <3>3. QED
      BY <3>1, <3>2
  <2>5. QED
    BY <2>1, <2>3, <2>4
<1>12. QED
  BY <1>1, <1>2, <1>3, <1>4, <1>5, <1>6, <1>7, <1>8, <1>9, <1>10, <1>11
     DEF StepOf, Admission, Preparing, Claim, Supervise

LEMMA TraceStep ==
    ASSUME TraceInv, [Next]_vars
    PROVE  \A c \in Calls : Traced(c)'
<1> USE DEF TraceInv
<1>1. ASSUME NEW c \in Calls, StepOf(c), NEW t \in Calls
      PROVE  Traced(t)'
  <2>1. up' = up
    BY <1>1 DEF StepOf, Admission, Load, Turned, ReserveGate, StartDevelop, Preparing, PrepareFails,
         SnapshotThrows, ReserveHost, Claim, ClaimLost, ClaimWon, RecoveryThrows,
         Supervise, ClearResult, Launch, Settle, SettleFails, ClearStaleSession, Relaunch,
         Report, Close, Agent, AgentWrites, AgentExits, StopLocal, CommitStop, HostCancel,
         Timeout, StopRemote
  <2>2. CASE t = c
    BY <1>1, <2>1, <2>2, TraceOwn DEF Traced, Home
  <2>3. CASE t # c
    BY <1>1, <2>1, <2>3, TraceOther DEF Traced, Trace, Home
  <2>4. QED
    BY <2>2, <2>3
<1>2. ASSUME NEW h \in Hosts, HostDies(h), NEW t \in Calls PROVE Traced(t)'
  <2>1. CASE Home(t) = h
    BY <1>2, <2>1 DEF HostDies, Traced, Home
  <2>2. CASE Home(t) # h
    BY <1>2, <2>2 DEF HostDies, Traced, Trace, Home, WorkInv, Typed, TypeOK
  <2>3. QED
    BY <2>1, <2>2
<1>3. ASSUME UNCHANGED vars, NEW t \in Calls PROVE Traced(t)'
  BY <1>3 DEF vars, Traced, Trace, Home
<1>4. QED
  BY <1>1, <1>2, <1>3 DEF Next, StepOf

\* A task the record names on a host that lives has had its job.
LEMMA NamedHasJob ==
    ASSUME WorkInv, NEW c \in Named(record), Home(c) \in up
    PROVE  job[c] \in {"active", "settled"}
BY DEF Named, Own, WorkInv, Typed, TypeOK

\* As long as the host of the current task lives, its controllers can tell
\* what became of the task, and only a task that runs keeps the gate closed,
\* or one of the two leaks before the launch.
THEOREM GateAlwaysClosedForCause == Spec => []GateClosedForCause
<1>1. TraceInv => GateClosedForCause
  <2>1. SUFFICES ASSUME TraceInv, NEW c \in Calls, NEW k \in Controllers,
                        Owns(record, id[c]), HostOf[k] = Home(c), Home(c) \in up
                 PROVE  /\ Ownership(k, record) # "unknown"
                        /\ \A t \in SeenRunning(k, record) : pc[t] # "done" \/ Leaked(t)
    BY DEF GateClosedForCause
  <2>2. id[c] # None /\ id[c] \in {record.dev, record.review}
    BY <2>1 DEF Owns, CurrentTask, Later
  <2>3. c \in Named(record)
    BY <2>1, <2>2 DEF Named
  <2>4. job[c] \in {"active", "settled"}
    BY <2>1, <2>3, NamedHasJob DEF TraceInv
  <2>5. Ownership(k, record) # "unknown"
    <3>1. CASE job[c] = "active"
      <4>1. c \in SeenRunning(k, record)
        BY <2>1, <2>3, <3>1 DEF SeenRunning
      <4>2. QED
        BY <4>1 DEF Ownership
    <3>2. CASE job[c] = "settled" /\ Expected(record) = id[c]
      <4>1. SeenEnded(k, record)
        BY <2>1, <2>3, <3>2 DEF SeenEnded
      <4>2. QED
        BY <2>2, <3>2, <4>1 DEF Ownership
    <3>3. CASE Expected(record) # id[c]
      <4>1. Expected(record) = None
        BY <2>1, <3>3 DEF Expected, Owns, CurrentTask
      <4>2. QED
        BY <4>1 DEF Ownership
    <3>4. QED
      BY <2>4, <3>1, <3>2, <3>3
  <2>6. ASSUME NEW t \in SeenRunning(k, record), pc[t] = "done" PROVE Leaked(t)
    <3>1. t \in Calls /\ t \in Named(record) /\ Home(t) = HostOf[k]
          /\ (live[t] = "open" \/ job[t] = "active")
      BY <2>6 DEF SeenRunning, Named, Home
    <3>2. Home(t) \in up /\ Trace(t)
      BY <2>1, <3>1 DEF TraceInv, Traced
    <3>3. job[t] \in {"active", "settled"}
      BY <2>1, <3>1, <3>2, NamedHasJob DEF TraceInv
    <3>4. QED
      BY <2>6, <3>1, <3>2, <3>3 DEF Trace, Leaked
  <2>7. QED
    BY <2>5, <2>6
<1>2. Init => TraceInv
  BY WorkInit DEF TraceInv, Init, Traced, Trace
<1>3. TraceInv /\ [Next]_vars => TraceInv'
  BY WorkKept, TraceStep DEF TraceInv
<1>4. QED
  BY <1>1, <1>2, <1>3, PTL DEF Spec
=============================================================================
