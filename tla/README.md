# A TLA+ model of ClickVibe

ClickVibe turns a GitHub Issue into a merged pull request: it prepares a Git worktree,
runs a coding agent and a review agent in it, and publishes what they did. Several
plugin instances (*controllers*), of one or of several host processes, may work on the
same state directory. Nothing but files, locks and a job registry keeps them apart. This
directory holds TLA+ models of that machinery, the TLC configurations that check them on
small instances, and theorems that TLAPS proves for instances of any size.

Paths below are relative to `src/src/` unless they start with `docs/`.

## 1. Inventory

### 1.1 Components

| component | source | state it keeps | operations | what makes it correct |
|---|---|---|---|---|
| Link lock | `infra/link-lock.ts` | lock file with an owner's token, candidates, stale links; `pendingReleases` of a process | acquire, release, recover a dead owner's lock, finish a failed release | one holder; a dead owner's lock goes away (both with exceptions, §5) |
| Workflow record | `infra/workflow-persistence.ts`, `recovery-budget.ts`, `auto-run-recovery-control.ts` | one JSON record per Work Item: `revision`, `taskStateRevision`, stage, task ids, verdict, preparation, `autoRun`, events | claim, task mutation, stop, metadata patch, recovery control, preparation | no lost update; only the current task writes; the verdict is about the current code |
| Task supervisor, ownership gate, routes | `agent/task-supervisor.ts`, `infra/task-ownership.ts`, `workflow/develop-start.ts`, `resume.ts`, `review-flow.ts`, `task-api.ts` | live tasks, gates, host jobs, timers, agent processes | reserve, claim, launch, settle, fall back, time out, stop, finish | one agent in a worktree; every job ends; no launch after a stop |
| Worktree preparation | `agent/worktree.ts`, `infra/manual-preparation.ts` | the `preparation` part of the record | prepare, settle by hand | a Git command whose end is unknown is not repeated |
| Auto-run controller | `workflow/auto-run*.ts`, `infra/auto-run-scheduler.ts` | keys in flight and queued, wake and deadline timers, the run on the record | reconcile, start, pause, retry, fuse | a replaced run is silent; equal failures stop a run; a run ends |
| GitHub gateway | `github/gateway-*.ts`, `rest.ts` | cache with generations, flights, lanes, budgets, circuit, write leases | request, invalidate, admit, pace, lease, close | no answer older than the last invalidation; caps and budgets; one true terminal |
| GitHub writes, delivery | `github/writes.ts`, `workflow/delivery-*.ts`, `write-recovery.ts`, `create-pr.ts` | pending markers on the record | mark, dispatch, read back, recover | done once; what is recorded as done is there |
| Remote Git coordinator | `infra/remote-git*.ts` | a queue per scope, fetch flights, write attempts | fetch, push, delete, time out, close | one command per scope; a push of unknown outcome is read back, not repeated |
| Local Git snapshots | `infra/local-git-*.ts` | a generation and a sample per scope, flights | observe, invalidate, parse | no sample from before an invalidation; what could not be read is not "clean" |
| Merge and cleanup, synchronisation, restore | `workflow/merge*.ts`, `sync.ts`, `baseline-restore.ts` | cleanup steps on the record | merge, clean up, push, restore | merged as judged; the cleanup is resumable |
| Assessments | `infra/assessment-*.ts`, `workflow/assessment.ts` | one file under a link lock, sessions | submit, claim, run, publish, cancel | one agent, a proved report, one comment |
| Contracts | `infra/work-item-contract-store.ts` | captures and a pointer | observe, stage, publish | the pointer names a whole capture and never goes back |
| Authorization | `infra/develop-core.ts`, `workflow/dispatch.ts` | live authorizations | preview, issue, consume | single use, same input, same contract and task state |
| Upgrades | `infra/v02-upgrade*.ts`, `recovery-upgrade*.ts` | a journal, staged files, backups | plan, apply, resume, roll back | a crash at any step leaves a way on; nothing is lost |
| Logs and streams | `infra/task-log-store.ts`, `client/dev-stream.ts` | lines in memory and on disk, cursors | append, read, follow | the view shows every line once, in order |
| Derived state, identity, diagnostics, prompts, panel | `workflow/derive*.ts`, `infra/repository-identity.ts`, ... | none that others rest on | derive, format, show | not modelled (§6) |

`PROJECT.json` lists the same parts with their status and all their files.

### 1.2 How they interact

- Every command on a record runs inside two queues: an in-process queue per path, and
  inside it the link lock, which orders processes.
- A route reads the record, asks the ownership gate about what it read, and awaits Git,
  GitHub and prompts before it claims. The claim carries an *expectation* (current task
  and `taskStateRevision`) that the command checks, since what was read may be stale.
- A claim gives the task a *lease*, the `taskStateRevision` it committed. Its callbacks,
  which come whenever the agent ends, write through the lease or not at all.
- The host's job registry is shared by the controllers of one host process and dies with
  it. Agents are processes of their own and may live on.
- A write to GitHub or to a Git remote leaves a marker on the record before it is sent
  and is settled by what is read back. The record's queue and the remote Git scope nest in
  one order only, record first; a restore keeps the queues of its records while it waits
  up to 120 s for the scope.
- All requests to GitHub go through one gateway per process, which is closed with it.

### 1.3 What is hard

The `hazards` of `PROJECT.json` list forty places, each at its line: state read before an
await and used after it; callbacks of tasks that were stopped, superseded or lost their
host; the failure of one write in the middle of a handler; processes that die between two
file operations; calls whose outcome is unknown; timers that are not armed again.

## 2. The modules

| module | models | state and actions |
|---|---|---|
| `Mutex` | what a lock promises | the holders and the number of thefts; enter while there are no more holders than thefts, leave |
| `LinkLock` | `link-lock.ts` | files, processes, where each caller is; one action per await |
| `WorkflowRecord` | the record and what each command makes of it | operators: `Commit`, `Claimed`, `Stopped`, `DevFinished`, ... |
| `WorkflowStore` | the commands on one record, callers that read before and commit after | `record`, what each client has `seen`, expectations, leases |
| `TaskLifecycle` | tasks of one workflow from request to the end of the job | per request: where its code is, live task, job, agent, lease, stop; the record, the result file |
| `Preparation` | the transaction of `worktree.ts`, step by step | the worktree and refs as Git has them, the intent on the record, the command under way |
| `AutoRun` | the reconcile loop, timers, cooldown, fuse, budget | the run on the record, the pass and what it loaded, timers, the task |
| `Authorization` | preview, digest, consumption, the start of an action | live authorizations, requests and where each is |
| `GatewayCache` | cache, flights, write leases | maps of the cache, the current load of a key, lease set and queue |
| `GatewayLanes` | admission, pacing, budgets, circuit, close, terminals | where each step is, ledgers, loops, timers, the end of each request |
| `GithubWrite` | a write without a gateway: answers, readback, outcome | operators, used by the three modules below it |
| `Publication` | comment, approval and pull request of a delivery | markers on the record, where each writer is, what GitHub has |
| `MergeCleanup` | gates, merge, cleanup | pull request, base, contract; one attempt and its record |
| `Assessments` | the queue of assessments and its comments | runs in the file, drains, sessions, publications |
| `RemoteGit` | the coordinator and the actions that write through it | queue, active job, flights, remote refs, attempts |
| `LocalGit` | generation-bound single flight of samples | per scope a generation and a sample, flights |
| `LocalGitFacts` | what is made of the sections of one sampling | the scene, the exit codes, the facts |
| `ContractCapture` | capture and publication of contracts | captures, pointer, observers |
| `Streams` | log, history route, event stream, client | lines, queues, disk, connection, view |
| `V02Upgrade`, `UpgradeLock` | the upgrade of the layout and its lock | journal, each directory and file, the process |
| `RecoveryUpgrade` | the upgrade of the recovery state | root, staging, backups, journal |
| `NoValue` | | the value `None` |
| `MC*` | | constants of the runs; some compose several modules |
| `*Proofs` | | theorems, §4 |

They stack. `LinkLock` implements `Mutex`, hence a command on the record, which holds
the lock from its read to its write, is one step in `WorkflowStore`, for as long as no
recovery of the lock has acted on a token out of date (§5). `WorkflowStore`
shows what leases and expectations guarantee whoever calls; `TaskLifecycle` extends the
same `WorkflowRecord` and adds the callers. `AutoRun`, `Publication`, `Preparation` and
`Authorization` rely on the same shape (a commit is refused when the lease or the revision
has moved) and model what is written around it. `MergeCleanup`, `Publication` and
`Assessments` share `GithubWrite`. `GatewayLanes` and `GatewayCache` are two views of one
gateway: a step of the first is a load or a write of the second.

Names follow the code: `Settle` is `settle`, `FinishTask` is `finishTask`, `HoldsLease`
is the capability check of `mutateWorkflowForTask`. The `map` of `PROJECT.json` gives the
lines of each definition. A definition preceded by a comment "Mutant", or named only in
the `mutants` of `PROJECT.json`, is not part of the model: it is the broken form of the
definition after it against which a property is tested.

Abstractions worth knowing:

- *The lock*. A process may end at any await, in a release or a recovery too. A dead
  process's pid may be given to another; the code compares pids only.
- *The record*. Task ids are minted in the order of time (hazard at
  `workflow-persistence.ts:90`). Session ids are left out, but that a command changed one
  shows in `taskStateRevision`. `Prepare` of `WorkflowStore` is one step, and `Preparation`
  the transaction inside it.
- *Tasks*. A host that restarts is another host. Durable writes may fail: a claim, the
  recovery of earlier writes, a report, a stop.
- *The cache*. GitHub is the number of changes made there. A readback is exempt of leases
  and touches no cache. `publisher` names the load whose generation is still current.
- *The lanes*. Time is left open: a deadline check may find it passed, a timer may fire as
  soon as all that is synchronous is done (`Quiet`), and any eligible step may be taken, whatever
  its priority, age and repository turn. `paginate` asks one page. The bucket of a path is
  known beforehand. A primary rate limit publishes its bucket once. `DrainEnds` may come
  at any time, as the window of `close()` may be over at any time.
- *Delivery*. The text of comments is the marker in it. The review on the record judged
  head 1 on base 1 under contract 1; synchronisations and foreign commits make the others.
- *Remote Git*. One repository and remote, one scope. Commits of a branch are numbered,
  `Foreign` is any commit none of them contains.
- *Preparation*. One worktree and branch; a commit contains those below it. Nobody else
  touches the worktree meanwhile; a task runs in one step.
- *Snapshots*. A sample is the state at its first command; scopes exist from the start. In
  `LocalGitFacts` any required read and any optional one (ref probes, HEAD, the default
  branch) may fail or lose its section; to the parser a failed probe is an absent ref, and
  a count beyond another ref than the one that was meant is the number `OtherRef`.
- *Streams*. A line is its number; the request with a cursor and its place in the queue are
  one step; one client, one task.
- *Automatic runs*. Errors are told apart by their stack, as the fuse does; which action
  the state calls for is an input, and time is whether the deadline and the cooldown are over.
- *Authorization*. A digest is the record it is computed from.
- *Upgrades*. A runtime that is stopped stays stopped, users do not edit the configuration
  in the middle, a rename is atomic, power losses are left out. Plans are compared as
  one value; `Misread` names the states whose digest a recovery computes in another order
  than the plan did. The state and the Git scene may change at any time and back. A tree is
  `littered` when a death has left a temporary file in it.

## 3. The runs

`tlc -config <cfg> <module>`. Components that share no state are checked in one run: the
variable `part` is chosen at the start and the others stand still. Each property has its
mutant in `PROJECT.json`.

| run | instance | shows |
|---|---|---|
| `lock_queued` | 3 processes with a caller each, 3 acquisitions, 2 deaths at any step | refinement of `Mutex`, with one caller more inside for each misnamed recovery; a dead owner's lock is taken away unless its recovery was abandoned |
| `store` | two developments, a review, a metadata writer, 6 commits; or a development, a writer, two controllers, 4 commits, 2 runs; or a writer and two controllers, 5 commits, 2 runs; symmetric | leases, claims, verdicts; budget, halting, events |
| `tasks_one_host` | a development and two reviews in two controllers of one host, 1 stop, failing writes | one agent; the end of a job is proof of death; verdict from one's own run; a gate that stays closed has one of two causes, both before the launch (`Leaked`) |
| `tasks_two_hosts` | a development, whose recovery of earlier writes may throw, and a resumption on two mortal hosts, 2 stops | one working agent; launches hold leases; every open job ends, or that recovery threw (`Stranded`) |
| `gateway_cache` | a reader of panel and list, a reader of the issue, two writers with a common lease, 1 change of GitHub | freshness after an invalidation; forced reads; no lost wake-up |
| `delivery` | publication: casts out of four tasks (two review) and the creation of a pull request, 2 heads; gates and cleanup: 2 heads, 2 bases, a head that only merges the base; remote: casts of a fetcher and of four actions, 2 commits | a write is done once and recorded as it is; the merge is what was judged; a cleanup forgets nothing and removes nothing early; a remote branch loses no commit that nobody knew of |
| `storage` | the layout upgrade with 2 plans and 2 mishaps; 3 upgraders with 2 attempts; the recovery upgrade with 2 plans, 2 scenes, 3 crashes | nothing lost; no runtime on half a generation; no rollback after use; a live owner loses the lock only to a process that was overtaken; every upgrade can be ended but in the states `Misjudged` and `Hindered` |
| `assessments` | 2 processes; the queue with 2 runs and 1 death or failing write; the comment of one report with a death and a fault; 2 refused reports published again, one from both panels at once; 2 comments | one agent, proved reports, one comment and a true status for a report that was in one hand at a time, the queue moves |
| `auto_run` | 2 runs, 2 troubles, fuse at 2 | the fuse; a replaced run is silent; a run's budget ends |
| `views` | contract: 2 observers, 3 edits; snapshots: 2 viewers, 2 changes; facts: one read or probe that fails or is lost; preparation: 3 commits, 3 attempts, 2 troubles; authorization: 2 requests, 2 authorizations, limit 1, an edit, 2 changes of the task; streams: 4 lines, a buffer of 1, 2 openings, a fault; gateway: a read and an approval of a caller that reads two things back, caps 2 and 1, budget 1, a mishap | one invariant or property per part, below |
| `assessment_twice`, `history_gap` | | disagreements, §5 |

What the invariants of `views` say: `ContractHolds`, a contract that is answered is whole
and no older than what its observer fetched, and the pointer never goes back;
`SnapshotsAreFresh`, a viewer is shown nothing from before an invalidation;
`UnknownNeverClean`, what could not be read is not shown as clean or absent, nor as merged
unless it was a probe for a ref that failed;
`PreparationIsTrue`, what is ready is what Git has, and no command whose end is unknown is
repeated; `ConsentIsKept`, an action starts on what was shown, once;
`StreamIsTrue`, the view has each line once, in order, with a gap only where the log says so;
`LanesAreSafe`, the caps and budgets hold whatever sleeps between two admissions, no
waiting step is forgotten, a write is told and recorded as it ended, and a closed gateway
owes nothing.

Why these bounds. The lock hazards need an owner that releases and dies, a recoverer that
read its token and a third caller, or an owner and a recoverer that both die. Callers of a
process are queued, so that a second one in a process adds nothing but its turn. An unfenced
callback needs a predecessor, a successor and a late write; a lost allowance needs two
controllers with old copies and two runs, a revived halt two commits more. Two controllers
of one host race for a job; a second host judges a task whose host is dead. A stale cached
value needs a change of GitHub with a load on either side. A publication at fault needs a
marker, a crash and a successor that reads it back while the first writer may still be on
its way. A reader falls behind the log when more lines are written than the buffer keeps
while it is away. Each upgrade needs a crash in the upgrade and one in the recovery from it.
A loop that sleeps with an admitted step needs another step to take its place meanwhile:
caps of 2 and 1 and two requests reach that, and a budget of 1 its exhaustion. A fuse of 2
instead of 3 tells a count from its neighbours. Bounds are constants (`Max...`) that appear
as guards; the cfg files and the `CONSTANTS` of a module name them.

Controllers are interchangeable in `store`, which checks no liveness, so its
symmetry is sound. All runs but `gateway_cache` have `CHECK_DEADLOCK FALSE`: work may be
finished and bounds reached. The readers of `gateway_cache` can always ask again.

*Fairness.* In `LinkLock` a call in progress goes on; nobody need call, release, die or
restart. In `TaskLifecycle` handlers and callbacks run to their end, an armed timer goes off
and a killed agent exits. In `AutoRun` a pass goes on, timers that are armed go off, ended
tasks notify, and a panel is open (it is the refresh that arms timers again after a
restart). In `Assessments` a drain goes on while its process lives, and a client asks again
(`Wake`). In the upgrades a step of a living process is weakly fair; that it is tried again
is strongly fair, for an attempt is made as often as the user likes. Nothing else is fair:
users need not stop anything, agents need not end, hosts need not die. The gateway modules
assume none: who waits is shown to wait for something that is under way (`NobodyForgotten`,
`NobodyStalls`).

## 4. The proofs

`tlapm <module>.tla`. Each theorem holds for every value of the constants that the named
assumptions of the modules allow; bounds like `MaxFaults` are numbers of any size there.
The assumptions say what kind of thing a constant is, that `None` is none of the values it
stands beside, and that a cap or a fuse is at least one; hypotheses beyond that are in the
statements of the theorems, and named here.

**`LinkLockProofs`** assumes `Queued`: the callers of a process take their turns, as those of
`workflow-persistence.ts` do. Exclusion is not inductive, and does not hold without
exception. `LockInv` says that tokens are never shared (`TokensOwned`, `PendingOwned`), that
only one caller of a process is inside (`OnePerProcess`), and that a token with a stale link is
nobody's any more and was recovered by one recoverer (`RecoveryInv`). `Paid` counts on
top of it: of all who hold a token or are about to unlink its file, no more have lost
the file (`Losers`) than there are misnamed links, since an unlink that hits another file than
it meant passes the loss on to one caller, and the first of such a chain has left a link
under the name of one token with another one in it. It follows that the lock is
exclusive while there is no misnamed link (`LockMutualExclusion`), that each misnamed link
costs one holder at most (`LockTheftsLeaveTraces`) and, as a step simulation,
`LockImplementsMutex`.

**`WorkflowStoreProofs`** has no assumption but that clients of different sorts differ.
`StoreInv` is the conjunction of the types, `SeenInv` (a copy with the record's revision
is the record), `IdInv`, `ClaimInv` (the record names the last claim; no expectation is
ahead of it), `LeaseInv` (no lease is ahead of the record, a revoked one is behind it),
`VerdictInv` and `RunInv`. The heart is that `taskStateRevision` never decreases and that
every claim and every stop advances it, also one that changes no field. The theorems are
`StoreTypes`, `LeaseIsExclusive`, `CurrentTaskIsLastClaim`, `RevokedLeaseIsDead`,
`VerdictsHold`, `OneCooldown`, `TimelineKept` and `HaltedRunStaysHalted`.

**`TaskLifecycleProofs`** has two arguments. `TaskInv` is about a host: an agent lives only
while its task waits for it, a task that waits has an active job, and a host has one active
job of the workflow; `OneAgent` and `EndedJobIsProof` follow. `WorkInv` is about the record,
across hosts: a task whose agent works, or may still be launched, is the one the record
names and, while its host lives, has the lease of the record (`Own`); ids are minted once
(`Ids`); and who waits with a record that nobody changed since waits alone (`Alone`),
because its route has seen that the task before is over. `OneWorking`, `LaunchUnderLease`
and `GateAlwaysClosedForCause` follow. `VerdictIsOwn` (the result file a review reads was
written in its own run) follows the file from one clearing to the next and has a hypothesis:
all requests are of one host. It is needed, see §5.

**`GatewayCacheProofs`** assumes `GatewayAssumption` alone: what keys and leases cover, and
that no part has a part. `Loads` is the inductive invariant of the reads: types, that each
entry of `publisher`, `inFlight` and `forcedResources` names a load under way of its own
key (`EntriesLive`), and that a part is read only for a loader of the same reader that
waits for it (`FramesWell`). On top of it:

- `CachedResourcesAreFresh`: `FreshInv` adds that what the *current* load of a key has
  seen is no older than the last invalidation.
- `ForcedReadsAreFresh`: `ForcedInv` follows a forced load and the part it reads
  (`PartIsFresh`), which joins no load older than the call.
- `LeasesAreExclusive` and `NobodyIsForgotten`: `LeaseInv` says that the queue holds just
  who waits, each once, that its head clashes with a held lease, and that a parked read is
  covered. One lemma (`PumpStep`) shows that a pump restores it, whatever the queue was.

**`DeliveryProofs`** is about what is written to GitHub and its remote.

- *Publication.* `PubInv` says of each write that it is done or under way once (`Once`), of
  each marker what it may say in view of that (`MarkerTrue`), and of each task where it is in
  its own write or in the recovery of an earlier one (`TaskSound`). Three facts carry it: a
  marker says `none` until its task marks it, and never again; a recovery has only the
  markers that were unsettled when its task claimed the workflow, and nobody else settles
  them while it has it; a creation that finds its own marker goes on only when there is a
  pull request. `PublicationAlwaysTrue` and `SettledAlwaysStays` follow, for any number of
  tasks, reviews and heads.
- *Merge and cleanup.* `MergeInv` has two halves. Until the merge is recorded, what was sent
  has passed the gates and what was read as merged is merged (`GatesSound`, `EarlySound`).
  From then on, the record (`DiskSound`) and the copy an attempt works with (`LateSound`) say
  only what is so, though the attempt may die anywhere and its writes are executed late.
  `MergeAlwaysGated` and `CleanupAlwaysTrue` follow.
- *Remote Git.* `RemoteInv`: the queue holds just who waits, each once, and nobody is active
  beside a queue that stands still (`QueueSound`); a flight that callers may join is led by a
  fetch of its scope (`FetchSound`); what a caller is at (`JobOf`) and what its attempt marker
  says (`AttemptOf`) agree; an open attempt whose commit is at its branch has been seen there by
  whoever says so (`WitnessOf`); and nothing is on the wire without a marker, or with a lease
  on a commit nobody knew of (`WireSound`). `AttemptsAlwaysTrue` and the action
  property `RemoteAlwaysKept` (no commit that nobody knew of is lost) follow. A position of the
  queue is removed by index (`Without`): what `SelectSeq` computes is out of reach.

**`AutoRunProofs`** is about what drives agents unattended.

- *The controller.* A pass carries the id of the run it was begun for while the user may start
  another, so `RunsStayApart` alone is not inductive. `AutoInv` adds `PassServes`: the run of a
  pass is never later than the one on the record; at the steps that act for it (`Serving`), if
  it is the one on the record, that run is open; and a prepared commit that can still be taken
  is of that run and keeps its id. `RunsAlwaysApart` follows from two lemmas: the record changes
  by a new run or for the open run of the pass (`RecordMoves`), and a task is started for the
  run of the pass alone (`AgentStarts`). `FuseAlways` adds that the memory of failures is never
  behind the failures in a row (`FuseMemory`, a history variable), though it is cleared by
  commits and by user decisions, and that a pass beyond the fuse only prepares the pause.
  A record that speaks of a rate limit is exempt, and a cooldown grants one more retry.
- *Assessments.* `QueueInv` says of a drain, at each of its steps, what the file says of its
  run; hence the file claims one run at most, and `OneAgentAlways` and `EndedAlwaysStays` hold
  for any number of processes. What a drain still has to sweep or publish is a set: the order
  does not matter to any property. `AssessmentsAlwaysTrue` needs no hypothesis: the history
  variable `shared` notes the reports that two callers have had in hand at once, and of every
  other one the status is true and the comment single (`CommentInv`), whatever happens to the
  shared ones. For those the claim is false, which is the finding `assessment_twice`.

**`ViewsProofs`** is about what panel and agents rest on.

- *Contracts.* `CaptureInv` says what the holder of the lock still knows when it writes the
  pointer: its version is newer and its capture is there (`WorkIsSound`). `ContractAlwaysHolds`.
- *Authorization.* `ConsentInv`: a request that goes on carries the consent it took out of the
  store, which nobody else has (`GoingIsRight`), and what was started is what that consent
  showed (`StartedIsRight`). `ConsentAlwaysKept`. The store is a set of consents with their
  times, `ConsentBounds` says that its bounds are numbers.
- *Snapshots.* `SnapshotInv` follows the executions: one of the current generation began after
  the last notification and is the one in `inflight` (`ExecutionsSound`), a generation has one
  execution (`ExecutionsApart`), and who waits has an execution young enough (`Served`).
  Generations are unbounded. `SnapshotsStayFresh`.
- *Facts of a sampling.* `UnknownIsNeverClean`, for any scene and any failure of its required
  reads and probes.
  There is no state to strengthen: the proof goes through what `LocalGitFacts` makes of each
  exit code. It found that an earlier form of `BranchRef` had overlapping cases.
- *Preparation.* `PrepInv`: the record, the transaction in memory and Git agree at each step
  (`TxSound`, `BaseSound`, `CheckoutSound`), a command whose end is unknown is still in `sent`
  (`SentSound`), and a settlement is made from the record as it is (`SettlementSound`).
  `PreparationAlwaysTrue`.
- *The lanes of the gateway.* `LanesInv` has three parts. `LedgerInv`: a bucket allows what its
  ledger says is left, but for the steps under way that were sent under its last evidence
  (`Charging`), so a settlement without fresh evidence costs nothing and a response that
  publishes one starts a new count; the caps are those of a finite set that grows only after
  admission. `EndInv`: the promise of a step by where the step is (`StepSound`), the steps
  of a request by where the request is (`RequestSound`), and that a write told not to have
  happened can never land any more (`NeverLands`: its send is over, or the gateway has closed
  before it was sent). `NobodyStalls` is inductive beside them, since what makes a step wait is
  under way. `LanesAlwaysSafe`, for any requests, caps and budgets; the assumption added is
  that the absent value is no answer, result, terminal or budget (`AnswersAssumption`).
- *The log of a task and its stream.* `StreamInv` has four parts. `LogSound`: one line at most
  is at the file and those behind it are scheduled in order, so what is written or lost is
  always a beginning of the log. `ReadSound`: the cursor of a history and its place in the
  queue of the file are taken in one step, so what stands in front of a read reaches to its
  cursor but for what was scheduled. `FetchesApart` and `FetchSound`: an opening asks once, and
  nothing streams into it before its answer. `ViewSound`: a response carries the lines that
  follow the cursor of the view, then perhaps the end or the request to load the history
  (`GoesOn`). `StreamAlwaysTrue`, for a log of any length behind a memory of any size; the
  assumption is that the absent value is no number and not `"done"` (`LogAssumption`).

**`StorageProofs`** is about the upgrades of the state directory, for any number of plans,
attempts, crashes and deaths.

- *Recovery state.* `RecoveryInv`: everything that exists is of the plan the journal names
  (`JournalRules`), and at each step of its sequence a command may rely on what its earlier
  steps have made, whatever command was stopped before it (`WorkerSound`).
  `RecoveryAlwaysSafe` and `NoDowngradeEver`.
- *Layout.* `UpgradeInv`: plans are used in order, so an `apply` finds no trace of its own
  plan (`PlansSound`); what each phase of the journal says of the directories (`LayoutSound`);
  what a command has done before it is where it is (`PositionSound`, `CommandSound`). A runtime
  writes the new generation only once the upgrade is verified, which a rollback refuses.
  `GenerationsAlwaysSafe`.
- *Its lock.* `LockAlwaysKept`, without a hypothesis: a live owner's lock is removed only by a
  process under whom another removed the file it had looked at (`overtaken`, `lost`; §5).
- `LayoutAlwaysSafe` joins the last two into the invariant of the run `storage`.

Proved and not run, since the theorem says it for every instance: `MutualExclusion`,
`TheftsLeaveTraces`, `StoreTypes`, `LeaseNamesLastWriter`, `JoinsLiveLoad`,
`LeasesExclusive`, the types of the gateway.

Only model-checked: all liveness (it and `ENABLED` are out of the prover's reach), so also
`BudgetEnds`. Every safety invariant of a passing run has its theorem.
Induction over numbers is only possible through well-foundedness (`WFMin`), once the set is
given as a definition without parameters, and folds and `SelectSeq` stay opaque; where that
is not enough, operators were written so that no induction is needed (indices instead of
filters, sets instead of queues).

## 5. What does not hold

Two runs end in a violation; `findings` in `PROJECT.json` quotes the lines.

- `assessment_twice`: a drain and a user publish one report from one snapshot; the loser of
  the marker writes `failed` over the winner, and the next request comments again.
- `history_gap`: the history of a task is asked while appends are scheduled; lines before
  its cursor that were not yet written are neither in it nor in the stream that follows.

Met while modelling, stated in the modules or shown by a run of another instance, and kept
out of the list of runs to keep it short:

| where | what happens |
|---|---|
| `link-lock.ts:34` | an owner that releases and exits after a recoverer has read its token makes the recoverer unlink the lock of a live owner; each such recovery leaves a stale link whose name is not its content (`Misnamed`), and the properties of the lock count them. Without a queue in front, as in `assessment-store.ts` and `work-item-contract-store.ts`, two callers of a process finish the same pending release (`Queued = FALSE`, `link-lock.ts:13`) |
| `link-lock.ts:34` | a recoverer that dies between its link and its unlink, or whose unlink fails, leaves a lock that no later recovery removes (`Abandoned`, the exception of `DeadLockRecovered`) |
| `task-supervisor.ts:87` | a stop during the preparation of a prompt closes the task; its route then reserves a job that nothing settles (`ActiveJobMeansOpenTask`) |
| `prompt-resolution.ts:28` | a rate limit thrown through a route leaves its gate taken (`ReservationsEnd`) |
| `write-recovery.ts:140` | a failing write of `recoverUnsettledWrites` leaves an active job without an agent for ever (`Stranded`, the exception of `OpenJobsEnd`; `Leaked`, that of `GateClosedForCause`) |
| `local-git-sampler.ts:243`, 259–287 | a probe for HEAD, `main` or the base that fails is taken for an absent ref: `aheadOfMain` and `aheadOfBase` are 0 then, or count beyond the frozen base or `origin/main` instead of the base that was meant; unmerged commits are hidden (the `Amiss` of `UnknownNeverClean`) |
| `gateway-owner.ts:620` | the first load of a list is under way when a write invalidates it; what was read before is cached (`NoStaleCache`) |
| `gateway-owner.ts:184` | `pacing` is keyed by request: of two steps of a request that are paced at once (a readback of an approval, `writes.ts:400`) `close()` and `idle()` see one, and a requeue of one removes the other; the unseen one, woken after `close()`, notes `interrupted` for a write that was executed. So does a step of a readback that expires in the queue. `EndsAreTrue` names both exceptions; without either it is violated |
| `gateway-owner.ts:322` | of a successful response the rate fields are published after the settlement has charged the guessed bucket: the check of the observed resource never applies to successes, and old evidence that arrives late overwrites newer. A step of an exhausted bucket that goes back ends its loop, and keeps the others waiting until the next dispatch |
| `rest.ts:62` | a success whose response says that nothing remains is thrown away as a rate limit; of a write it is settled by the readback, which the same limit refuses |
| `auto-run-recovery.ts:410`, `auto-run.ts:217` | when the recovery cannot be committed, the schedule is cleared and the run stays `running` without a timer (`DeadlineArmed`; contrary to `docs/plans/2026-08-23-auto-run-controller-design.md:31`) until a panel is refreshed |
| `auto-run-pending.ts:16` | a pending failure of the kind of a rate limit does not blow the fuse (`FuseAlwaysHolds`) |
| `merge.ts` ~385–420 | an override of the gates is not bound to the head that was shown (`OverrideIsForShownHead`; `docs/plans/2026-08-23-merge-manual-override-design.md:15`) |
| `writes.ts:377` | an approval may be given to a head the review has not judged, when none is bound (`ApprovedWasReviewed`) |
| `create-pr.ts:56` | a creation that GitHub refuses leaves its marker pending |
| `remote-git.ts:42` | after a close and a reload a job of the closed coordinator may overlap one of the new coordinator on the same scope |
| `recovery-upgrade.ts:164` | a preview can show a new plan that `applyRecoveryUpgrade` refuses, since a journal exists (`NewPreviewGoesOn`) |
| `v02-upgrade-lock.ts:88`–93 | a stale lock is unlinked by name: of two recoverers the slower one removes the lock of a new owner (`lost` of `UpgradeLock`), which `docs/architecture/v02-upgrade-protocol.md:191` rules out |
| `v02-upgrade-recovery.ts:87`–104 | a recovery sorts the old state by name directory by directory, the plan (`v02-upgrade.ts:223`) by path: with a directory `a` beside a file `a.json` the digests differ, and both resume and rollback throw (`Misjudged`) |
| `v02-upgrade-durable.ts:34`–66 | a death inside `durableWriteExclusive` leaves a temporary file, which every later resume takes for drift (`recovery-upgrade.ts:88`–99); a rollback goes through, but no new plan can be applied then (`Hindered`) |
| `recovery-upgrade.ts:106`–109 | while state or Git scene differ from the plan's, neither resume nor rollback of an interrupted upgrade goes on (`Hindered`) |
| upgrades | a crash between `mkdir` and marker of the staged state makes every later resume fail (a rollback goes through); a crash before the backup of the configuration makes the rollback fail (a resume goes through); a second rollback overwrites a configuration edited since |

A claim that had to be narrowed in a proof: `VerdictFromOwnRun` fails when the requests are of
two hosts. The agent of a stopped review, killed but not yet gone, may still write its result file
(`review-flow.ts`) after its successor on another host has cleared it; TLC shows it on
`TaskLifecycle` with two hosts. It is checked and proved for one host.

Also to be known: `git branch -D` ignores commits that were not pushed; `auto-run-signal.ts`
loses the outcome of a task when a pass throws; a merge or a cleanup that succeeds
schedules nothing; a drain that dies in a living process leaves its run stuck until the
process ends; contracts with equal `updated_at` (one second) conflict until the next edit;
resumption, review and creation of pull requests are not bound to the contract or the task
state that was shown; a note of `task-supervisor.ts:471` after a failed settlement is not
streamed, and a history answered during the end of a task lacks its last lines until it is
opened again.

## 6. Not modelled

- *Derived state and views* (`workflow/derive*.ts`, `state-view.ts`): pure functions of a
  record and of facts; the models take what they decide as an input.
- *Baseline restore* beyond its push: the composition of several record queues with the
  scope. The order record before scope is kept everywhere in the source; a deadlock would
  need a caller that reverses it.
- *Repository identity, diagnostics, prompts, the panel* beyond `dev-stream.ts`: no state
  that other parts rest on.
- Of modelled parts: the capacity and retention of the live map, draining of lossy output,
  dry runs, a registry that fails, clocks that step back; the bucket of a path learned from
  responses, page bounds, priorities, the evidence sink; the local merge of a
  synchronisation and the repository-wide one; unreadable hooks, a deleted base branch and
  a race of a user with `git worktree remove --force`; several markers recovered in one
  pass; manual starts beside an automatic run; targets of merges and restores; splitting
  and parsing of text; power loss.

What would come next: `Preparation` as a refinement of `Prepare`; the refinement of
`WorkflowStore` by the routes of `TaskLifecycle`; the budget of a run (`BudgetEnds`) as a
ranking argument; `derive.ts` as operators against a reference definition.
