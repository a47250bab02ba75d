------------------------------- MODULE RemoteGit -------------------------------
(***************************************************************************)
(* The remote Git coordinator (src/infra/remote-git-coordinator.ts,        *)
(* remote-git-delete.ts, remote-git.ts) for one repository and remote, and *)
(* the actions that write through it: synchronisation and creation of a    *)
(* pull request push a branch, a restore puts a base branch back, a        *)
(* cleanup deletes a merged branch.                                        *)
(*                                                                         *)
(* A caller's work is a series of jobs.  Each waits in the queue of the    *)
(* scope and has it alone until it ends.  A write records its attempt on   *)
(* the workflow before it is sent and settles it by what it reads back.    *)
(*                                                                         *)
(* The remote answers with commits: those of a branch are numbered, and    *)
(* Foreign stands for any commit that none of them contains.  The process  *)
(* may crash and start again; the plugin may be unloaded, which closes the *)
(* coordinator, and be loaded again in the same process.                   *)
(***************************************************************************)
EXTENDS Integers, Sequences, NoValue

CONSTANTS
    Fetchers,  \* callers of remoteFetch that write nothing
    Actors,    \* actions, each of one kind on one workflow record
    Kind,      \* "sync", "pr", "restore" or "cleanup"
    Branches,
    Branch,    \* the remote branch an action writes
    Frozen,    \* the commit the record of a restore or a cleanup names
    Records,
    Locks,     \* the records an action has locked from its begin to its end
    MaxOid,    \* bound: commits of a branch
    Foreign, Error

Callers == Fetchers \cup Actors
Oids == 1..MaxOid
Values == Oids \cup {Foreign, None}
Attempts == [oid : Values, lease : Values]
Commands == [actor : Actors, oid : Values, lease : Values]

ASSUME RemoteGitAssumption ==
    /\ Fetchers \cap Actors = {}
    /\ Kind \in [Actors -> {"sync", "pr", "restore", "cleanup"}]
    /\ Branch \in [Actors -> Branches]
    /\ Frozen \in [Actors -> Oids]
    /\ Locks \in [Actors -> SUBSET Records]
    /\ MaxOid \in Nat \ {0}
    /\ Foreign \notin Nat /\ None \notin Nat /\ Error \notin Nat
    /\ Foreign \notin {None, Error} /\ None # Error
    /\ None \notin Callers \cup {"fetch", "recover", "write"}

VARIABLES
    ref,      \* what the remote holds, per branch; None for no branch
    tip,     \* the commit a worktree of the branch is at
    wire,      \* commands sent that may yet take effect
    mark,     \* the attempt on the record of an action
    cleaned,  \* delivery.cleanup.remoteBranch
    pc,
    job,      \* what a caller wants of the coordinator: "fetch", "recover", "write"
    plan,     \* the frozen attempt of an action
    seen,     \* what an action has read back
    queue,
    active,   \* the caller whose job has the scope
    flight,   \* the caller whose fetch others join
    leader,   \* the caller whose fetch a joined one waits for
    late,     \* callers whose job runs on in a coordinator that was closed
    witness,  \* history: the remote has held what the attempt is to bring about
    gone      \* history: branches to clean up that have been absent

scope == <<queue, active, flight, late>>
callers == <<pc, job, plan, seen, leader>>
records == <<mark, cleaned>>
gitHistory == <<witness, gone>>
rgvars == <<ref, tip, wire, records, callers, scope, gitHistory>>

NoPlan == [oid |-> None, lease |-> None]
\* The lease of an attempt is recorded too, but nobody reads it again.
NoMark == [oid |-> None, status |-> "none"]
Marked(p, status) == [oid |-> p.oid, status |-> status]

Active == {"fetching", "validating", "marking", "marked", "sent", "reading", "settling"}

RemoteTypeOK ==
    /\ ref \in [Branches -> Values]
    /\ tip \in [Branches -> Oids]
    /\ wire \in SUBSET Commands
    /\ mark \in [Actors -> [oid : Values,
                            status : {"none", "prepared", "confirmed", "unknown"}]]
    /\ cleaned \in [Actors -> BOOLEAN]
    /\ pc \in [Callers -> {"idle", "ready", "queued", "joined"} \cup Active]
    /\ job \in [Callers -> {"fetch", "recover", "write", None}]
    /\ plan \in [Actors -> Attempts]
    /\ seen \in [Actors -> Values \cup {Error}]
    /\ queue \in Seq(Callers)
    /\ active \in Callers \cup {None}
    /\ flight \in Callers \cup {None}
    /\ leader \in [Callers -> Callers \cup {None}]
    /\ late \in SUBSET Callers
    /\ witness \in [Actors -> BOOLEAN]
    /\ gone \in SUBSET Branches

\* A merged branch is there, a base that a restore is for is not.
RemoteInit ==
    /\ tip = [b \in Branches |-> 1]
    /\ ref = [b \in Branches |-> IF \E a \in Actors : Branch[a] = b /\ Kind[a] = "cleanup"
                                   THEN 1 ELSE None]
    /\ wire = {}
    /\ mark = [a \in Actors |-> NoMark]
    /\ cleaned = [a \in Actors |-> FALSE]
    /\ pc = [c \in Callers |-> "idle"]
    /\ job = [c \in Callers |-> None]
    /\ plan = [a \in Actors |-> NoPlan]
    /\ seen = [a \in Actors |-> None]
    /\ queue = <<>>
    /\ active = None
    /\ flight = None
    /\ leader = [c \in Callers |-> None]
    /\ late = {}
    /\ witness = [a \in Actors |-> FALSE]
    /\ gone = {}

-----------------------------------------------------------------------------
(* The remote, and whoever else uses it *)

Open(a) == mark[a].status = "prepared"

Pushes(a) == Kind[a] \in {"sync", "pr"}

\* What the remote makes of a command: a push must be a fast-forward, one with
\* a lease must find what the lease names.
Accepts(c) ==
    LET old == ref[Branch[c.actor]] IN
    IF Pushes(c.actor) THEN old = None \/ (old \in Oids /\ old <= c.oid)
                       ELSE old = c.lease

RefBecomes(b, value) ==
    /\ ref' = [ref EXCEPT ![b] = value]
    /\ witness' = [a \in Actors |->
                     witness[a] \/ (Branch[a] = b /\ Open(a) /\ mark[a].oid = value)]
    /\ gone' = IF value = None /\ \E a \in Actors : Kind[a] = "cleanup" /\ Branch[a] = b
                 THEN gone \cup {b} ELSE gone

LandGit(c) ==
    /\ c \in wire
    /\ wire' = wire \ {c}
    /\ IF Accepts(c) THEN RefBecomes(Branch[c.actor], c.oid) ELSE UNCHANGED <<ref, gitHistory>>
    /\ UNCHANGED <<tip, records, callers, scope>>

LoseGit(c) ==
    /\ c \in wire
    /\ wire' = wire \ {c}
    /\ UNCHANGED <<ref, tip, records, callers, scope, gitHistory>>

Elsewhere(b) ==
    /\ \E value \in {None, Foreign} \cup 1..tip[b] :
          value # ref[b] /\ RefBecomes(b, value)
    /\ UNCHANGED <<tip, wire, records, callers, scope>>

\* a commit or a merge in a worktree that is pushed, by hand or by an agent
CommitTo(b) ==
    /\ \E a \in Actors : Branch[a] = b /\ Pushes(a)
    /\ tip[b] < MaxOid
    /\ tip' = [tip EXCEPT ![b] = @ + 1]
    /\ UNCHANGED <<ref, wire, records, callers, scope, gitHistory>>

-----------------------------------------------------------------------------
(* What an action asks of the coordinator, one job after the other *)

\* The attempt an action is about to make.  A restore and a cleanup learn
\* the lease in the scope.
Candidate(a) ==
    [oid |-> CASE Pushes(a) -> tip[Branch[a]]
               [] Kind[a] = "restore" -> Frozen[a]
               [] OTHER -> None,
     lease |-> None]

Ready(a, next, attempt) ==
    /\ pc' = [pc EXCEPT ![a] = "ready"]
    /\ job' = [job EXCEPT ![a] = next]
    /\ plan' = [plan EXCEPT ![a] = attempt]
    /\ UNCHANGED <<seen, leader>>

Unlocked(a) ==
    \A b \in Actors \ {a} : pc[b] # "idle" => Locks[a] \cap Locks[b] = {}

BeginFetch(f) ==
    /\ f \in Fetchers
    /\ pc[f] = "idle"
    /\ pc' = [pc EXCEPT ![f] = "ready"]
    /\ job' = [job EXCEPT ![f] = "fetch"]
    /\ UNCHANGED <<ref, tip, wire, records, plan, seen, leader, scope, gitHistory>>

\* an attempt left open is settled by reading back, nothing else
BeginRecovery(a) ==
    /\ pc[a] = "idle" /\ ~cleaned[a]
    /\ Unlocked(a)
    /\ Open(a)
    /\ Ready(a, "recover", [oid |-> mark[a].oid, lease |-> None])
    /\ UNCHANGED <<ref, tip, wire, records, scope, gitHistory>>

\* the branch of a pull request is pushed already, or a deletion confirmed
Settled(a) ==
    /\ mark[a].status = "confirmed"
    /\ Kind[a] = "cleanup" \/ (Kind[a] = "pr" /\ mark[a].oid = tip[Branch[a]])

BeginWrite(a) ==
    /\ pc[a] = "idle" /\ ~cleaned[a]
    /\ Unlocked(a)
    /\ ~Open(a)
    /\ ~Settled(a)
    /\ IF Kind[a] \in {"sync", "restore"} THEN Ready(a, "fetch", NoPlan)
                                          ELSE Ready(a, "write", Candidate(a))
    /\ UNCHANGED <<ref, tip, wire, records, scope, gitHistory>>

\* a deletion confirmed earlier only has to be noted
NoteDeletion(a) ==
    /\ Kind[a] = "cleanup"
    /\ pc[a] = "idle" /\ ~cleaned[a]
    /\ Unlocked(a)
    /\ Settled(a)
    /\ cleaned' = [cleaned EXCEPT ![a] = TRUE]
    /\ UNCHANGED <<ref, tip, wire, mark, callers, scope, gitHistory>>

\* Does the caller go on to write, when its job ended well or not?
GoesOn(c, ok) ==
    /\ ok
    /\ c \in Actors
    /\ \/ job[c] = "fetch"
       \/ job[c] = "recover" /\ Kind[c] = "pr" /\ plan[c].oid # tip[Branch[c]]

-----------------------------------------------------------------------------
(* The queue of the scope *)

First(c) == CASE job[c] = "fetch" -> "fetching"
              [] job[c] = "recover" -> "reading"
              [] job[c] = "write" -> "validating"

Enqueue(c) ==
    /\ pc[c] = "ready"
    /\ ~(job[c] = "fetch" /\ flight # None)
    /\ flight' = IF job[c] = "fetch" THEN c ELSE flight
    /\ IF active = None
         THEN /\ active' = c
              /\ pc' = [pc EXCEPT ![c] = First(c)]
              /\ UNCHANGED queue
         ELSE /\ queue' = Append(queue, c)
              /\ pc' = [pc EXCEPT ![c] = "queued"]
              /\ UNCHANGED active
    /\ UNCHANGED <<ref, tip, wire, records, job, plan, seen, leader, late, gitHistory>>

JoinFetch(c) ==
    /\ pc[c] = "ready"
    /\ job[c] = "fetch" /\ flight # None
    /\ pc' = [pc EXCEPT ![c] = "joined"]
    /\ leader' = [leader EXCEPT ![c] = flight]
    /\ UNCHANGED <<ref, tip, wire, records, job, plan, seen, scope, gitHistory>>

\* The callers in "ended" have their outcome, those who joined them too, and
\* the job of "started" has the scope now.
Leave(ended, ok, started) ==
    LET all == ended \cup {c \in Callers : pc[c] = "joined" /\ leader[c] \in ended} IN
    /\ pc' = [c \in Callers |->
                IF c \in all THEN (IF GoesOn(c, ok) THEN "ready" ELSE "idle")
                ELSE IF c \in started THEN First(c) ELSE pc[c]]
    /\ job' = [c \in Callers |->
                IF c \in all THEN (IF GoesOn(c, ok) THEN "write" ELSE None) ELSE job[c]]
    /\ plan' = [a \in Actors |->
                IF a \in all THEN (IF GoesOn(a, ok) THEN Candidate(a) ELSE NoPlan) ELSE plan[a]]
    /\ seen' = [a \in Actors |-> IF a \in all THEN None ELSE seen[a]]
    /\ leader' = [c \in Callers |-> IF c \in all THEN None ELSE leader[c]]

Resolve(ended, ok, started) ==
    /\ Leave(ended, ok, started)
    /\ flight' = IF flight \in ended THEN None ELSE flight

\* A job ends and the next in the queue begins; one of a closed coordinator
\* has no queue behind it.
Finish(c, ok) ==
    LET on == c = active /\ queue # <<>> IN
    /\ Resolve({c}, ok, IF on THEN {Head(queue)} ELSE {})
    /\ active' = IF c # active THEN active ELSE IF on THEN Head(queue) ELSE None
    /\ queue' = IF on THEN Tail(queue) ELSE queue
    /\ late' = late \ {c}

\* The queue without the entry at a place.
Without(i) == [j \in 1..(Len(queue) - 1) |-> IF j < i THEN queue[j] ELSE queue[j + 1]]

QueueTimeout(c) ==
    /\ pc[c] = "queued"
    /\ Resolve({c}, FALSE, {})
    /\ \E i \in DOMAIN queue : queue[i] = c /\ queue' = Without(i)
    /\ UNCHANGED <<ref, tip, wire, records, active, late, gitHistory>>

\* The plugin is unloaded: what waits is interrupted, the job at work goes on
\* by itself, and the next caller makes a new coordinator.
CloseCoordinator ==
    /\ Leave({c \in Callers : pc[c] = "queued"}, FALSE, {})
    /\ flight' = None
    /\ queue' = <<>>
    /\ active' = None
    /\ late' = late \cup ({active} \ {None})
    /\ UNCHANGED <<ref, tip, wire, records, gitHistory>>

-----------------------------------------------------------------------------
(* A job at work *)

\* the command, the invalidation of the snapshots, the rereading of the refs
FetchEnds(c, ok) ==
    /\ pc[c] = "fetching"
    /\ Finish(c, ok)
    /\ UNCHANGED <<ref, tip, wire, records, gitHistory>>

\* a push is of the commit its caller has seen, if that is still the head
ValidatePush(a) ==
    /\ pc[a] = "validating"
    /\ Pushes(a)
    /\ tip[Branch[a]] = plan[a].oid
    /\ pc' = [pc EXCEPT ![a] = "marking"]
    /\ UNCHANGED <<ref, tip, wire, records, job, plan, seen, leader, scope, gitHistory>>

\* Mutant: the deletion takes whatever it observes as its lease.
PreReadAny(a) ==
    /\ pc[a] = "validating"
    /\ ~Pushes(a)
    /\ Kind[a] = "cleanup" => ref[Branch[a]] # None
    /\ plan' = [plan EXCEPT ![a].lease = ref[Branch[a]]]
    /\ pc' = [pc EXCEPT ![a] = "marking"]
    /\ UNCHANGED <<ref, tip, wire, records, job, seen, leader, scope, gitHistory>>

\* a restore finds its base absent or as it should be; a cleanup finds the
\* branch at the head that was merged; what they find is the lease
PreRead(a) ==
    LET observed == ref[Branch[a]] IN
    /\ pc[a] = "validating"
    /\ ~Pushes(a)
    /\ observed = Frozen[a] \/ (Kind[a] = "restore" /\ observed = None)
    /\ plan' = [plan EXCEPT ![a].lease = observed]
    /\ pc' = [pc EXCEPT ![a] = "marking"]
    /\ UNCHANGED <<ref, tip, wire, records, job, seen, leader, scope, gitHistory>>

\* the branch is gone already, no write is needed; noting it may fail
AlreadyGone(a) ==
    /\ pc[a] = "validating"
    /\ Kind[a] = "cleanup"
    /\ ref[Branch[a]] = None
    /\ Finish(a, TRUE)
    /\ cleaned' \in {cleaned, [cleaned EXCEPT ![a] = TRUE]}
    /\ UNCHANGED <<ref, tip, wire, mark, gitHistory>>

\* an expired credential, an unexpected commit, a command that fails
Refuse(a) ==
    /\ pc[a] = "validating"
    /\ Finish(a, FALSE)
    /\ UNCHANGED <<ref, tip, wire, records, gitHistory>>

Record(a, attempt) ==
    /\ mark' = [mark EXCEPT ![a] = attempt]
    /\ witness' = [witness EXCEPT ![a] =
                     CASE attempt.status = "prepared" -> ref[Branch[a]] = attempt.oid
                       [] attempt.status = "confirmed" -> @
                       [] OTHER -> FALSE]

\* A cleanup that fails writes the delivery with its attempt once more.
Leftover(a, attempt) ==
    \/ UNCHANGED <<mark, witness>>
    \/ Kind[a] = "cleanup" /\ Record(a, attempt)

Persist(a) ==
    /\ pc[a] = "marking"
    /\ Record(a, Marked(plan[a], "prepared"))
    /\ pc' = [pc EXCEPT ![a] = "marked"]
    /\ UNCHANGED <<ref, tip, wire, cleaned, job, plan, seen, leader, scope, gone>>

PersistFails(a) ==
    /\ pc[a] = "marking"
    /\ Leftover(a, Marked(plan[a], "prepared"))
    /\ Finish(a, FALSE)
    /\ UNCHANGED <<ref, tip, wire, cleaned, gone>>

SendGit(a) ==
    /\ pc[a] = "marked"
    /\ wire' = wire \cup {[actor |-> a, oid |-> plan[a].oid, lease |-> plan[a].lease]}
    /\ pc' = [pc EXCEPT ![a] = "sent"]
    /\ UNCHANGED <<ref, tip, records, job, plan, seen, leader, scope, gitHistory>>

\* The command ends, well or not, or is given up while it may yet take
\* effect; what it says is not relied upon.
CommandEnds(a) ==
    /\ pc[a] = "sent"
    /\ pc' = [pc EXCEPT ![a] = "reading"]
    /\ UNCHANGED <<ref, tip, wire, records, job, plan, seen, leader, scope, gitHistory>>

ReadRef(a) ==
    /\ pc[a] = "reading"
    /\ seen' \in {[seen EXCEPT ![a] = ref[Branch[a]]], [seen EXCEPT ![a] = Error]}
    /\ pc' = [pc EXCEPT ![a] = "settling"]
    /\ UNCHANGED <<ref, tip, wire, records, job, plan, leader, scope, gitHistory>>

\* Mutant: a readback that failed counts as an empty one.
ConfirmedUnread(a) == plan[a].oid = IF seen[a] = Error THEN None ELSE seen[a]

Confirmed(a) == seen[a] # Error /\ seen[a] = plan[a].oid

AttemptOutcome(a) == Marked(plan[a], IF Confirmed(a) THEN "confirmed" ELSE "unknown")

Settle(a) ==
    /\ pc[a] = "settling"
    /\ Record(a, AttemptOutcome(a))
    /\ cleaned' \in {cleaned} \cup
                    (IF Confirmed(a) /\ Kind[a] = "cleanup"
                       THEN {[cleaned EXCEPT ![a] = TRUE]} ELSE {})
    /\ Finish(a, Confirmed(a))
    /\ UNCHANGED <<ref, tip, wire, gone>>

SettleFails(a) ==
    /\ pc[a] = "settling"
    /\ Leftover(a, AttemptOutcome(a))
    /\ Finish(a, FALSE)
    /\ UNCHANGED <<ref, tip, wire, cleaned, gone>>

GitCrash ==
    /\ pc' = [c \in Callers |-> "idle"]
    /\ job' = [c \in Callers |-> None]
    /\ plan' = [a \in Actors |-> NoPlan]
    /\ seen' = [a \in Actors |-> None]
    /\ leader' = [c \in Callers |-> None]
    /\ queue' = <<>>
    /\ active' = None
    /\ flight' = None
    /\ late' = {}
    /\ UNCHANGED <<ref, tip, wire, records, gitHistory>>

-----------------------------------------------------------------------------
FetchStep(c) == Enqueue(c) \/ JoinFetch(c) \/ FetchEnds(c, TRUE) \/ FetchEnds(c, FALSE)

WriteStep(a) ==
    \/ ValidatePush(a) \/ PreRead(a) \/ AlreadyGone(a) \/ Refuse(a)
    \/ Persist(a) \/ PersistFails(a) \/ SendGit(a) \/ CommandEnds(a)
    \/ ReadRef(a) \/ Settle(a) \/ SettleFails(a)

\* What the process does by itself once it was asked.
GoOn(c) == FetchStep(c) \/ (c \in Actors /\ WriteStep(c))

RemoteNext ==
    \/ \E c \in Callers : GoOn(c) \/ QueueTimeout(c)
    \/ \E a \in Actors : BeginWrite(a) \/ BeginRecovery(a) \/ NoteDeletion(a)
    \/ \E f \in Fetchers : BeginFetch(f)
    \/ \E c \in wire : LandGit(c) \/ LoseGit(c)
    \/ \E b \in Branches : CommitTo(b) \/ Elsewhere(b)
    \/ CloseCoordinator
    \/ GitCrash

RemoteSpec == RemoteInit /\ [][RemoteNext]_rgvars

-----------------------------------------------------------------------------
\* The record knows of every command before it is sent, so that whoever finds
\* the record after a crash knows of those that may yet take effect
\* (persistAttempt before execute, in push and in the deletion).
WriteAhead ==
    /\ \A a \in Actors : pc[a] = "sent" => mark[a] = Marked(plan[a], "prepared")
    /\ \A c \in wire : mark[c.actor].status # "none"

\* An attempt is confirmed on the record only if the remote has held what the
\* attempt was to bring about since it was recorded, however the command ended
\* and whoever settles the attempt, also after a crash or a failed readback.
ConfirmedWasSeen == \A a \in Actors : mark[a].status = "confirmed" => witness[a]

\* The cleanup of a remote branch is noted only if the branch has been absent.
CleanedWasGone == \A a \in Actors : cleaned[a] => Branch[a] \in gone

\* No attempt is made over one whose outcome was never read back: after a
\* crash an open attempt is settled first, and never sent again.
SettledFirst ==
    \A a \in Actors :
        pc[a] = "marking" /\ pc'[a] = "marked" => mark[a].status # "prepared"

\* No command of the program takes away a commit of somebody else, also one
\* that takes effect long after its action was given up.
ForeignIsKept ==
    \A b \in Branches : ref[b] = Foreign /\ ref'[b] # Foreign => wire' = wire

\* Both, of every step.
RemoteIsKept == [][SettledFirst /\ ForeignIsKept]_rgvars

\* Nobody waits for good: behind whoever is in the queue a job has the scope,
\* and whoever joined a fetch joined one that is under way or in the queue,
\* whatever fails, closes or times out.  (Commands have time limits.)
NobodyStranded ==
    /\ \A c \in Callers :
          /\ pc[c] = "queued" <=> \E i \in DOMAIN queue : queue[i] = c
          /\ pc[c] = "joined" => /\ leader[c] # None
                                 /\ pc[leader[c]] \in {"queued", "fetching"}
          /\ pc[c] \in Active <=> c = active \/ c \in late
    /\ queue # <<>> => active # None

\* The attempts on the record are true to the remote: written down before they are
\* sent, confirmed and cleaned only by what was read, and nobody waits for one for good.
AttemptsAreTrue ==
    RemoteTypeOK /\ WriteAhead /\ ConfirmedWasSeen /\ CleanedWasGone /\ NobodyStranded
=============================================================================
