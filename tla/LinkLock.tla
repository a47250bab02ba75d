------------------------------ MODULE LinkLock ------------------------------
(***************************************************************************)
(* src/infra/link-lock.ts: a lock file made by hard-linking a candidate,   *)
(* shared by clients (calls of acquireLinkLock) of several processes.      *)
(* One lock path is modelled.  Every await of the code ends a step, so     *)
(* what was read before it may be stale when it is used.                   *)
(*                                                                         *)
(* Tokens are numbers, fresh per acquisition as the random bytes make      *)
(* them; 0 stands for "no file" and "no token".  A process may die at any  *)
(* point and a later one may get its pid back: only its pid is compared.   *)
(***************************************************************************)
EXTENDS Naturals, Sequences, FiniteSets

CONSTANTS
    Procs,        \* process ids
    Clients,      \* concurrent callers
    ProcOf,       \* the process a client runs in
    MaxTokens,    \* bound: acquisitions in one behaviour
    MaxDeaths,    \* bound: process deaths in one behaviour
    Queued        \* TRUE: the callers of a process are queued one after the
                  \* other (workflow-persistence.ts); FALSE: they are not
                  \* (assessment-store.ts, work-item-contract-store.ts)

ASSUME LockAssumption ==
    /\ ProcOf \in [Clients -> Procs]
    /\ MaxTokens \in Nat
    /\ MaxDeaths \in Nat
    /\ Queued \in BOOLEAN
    /\ IsFiniteSet(Clients)

Token == 1..MaxTokens   \* those above Len(owner) are not issued yet
None == 0

VARIABLES
    lockFile,   \* the token in the lock file, None when there is no file
    stale,      \* stale[t]: the token in the file linked as <lock>.stale-t,
                \* None when there is no such link
    owner,      \* owner[t]: the pid written beside token t; Len(owner) issued
    alive,      \* alive[p]: process.kill(p, 0) finds p
    deaths,     \* how many processes have died (bound only)
    pending,    \* pendingReleases of a process for this path
    pc,         \* where a client is
    token,      \* the token a client acquires with
    seen        \* the token a client read, or the one it is finishing

vars == <<lockFile, stale, owner, alive, deaths, pending, pc, token, seen>>
disk == <<lockFile, stale>>
procs == <<alive, deaths>>

Label == {"idle", "finRead", "finUnlink", "try", "recRead", "recCheck",
          "recLink", "recUnlink", "held", "relRead", "relUnlink"}

TypeOK ==
    /\ lockFile \in Token \cup {None}
    /\ stale \in [Token -> Token \cup {None}]
    /\ owner \in Seq(Procs)
    /\ Len(owner) <= MaxTokens
    /\ alive \in [Procs -> BOOLEAN]
    /\ deaths \in 0..MaxDeaths
    /\ pending \in [Procs -> Token \cup {None}]
    /\ pc \in [Clients -> Label]
    /\ token \in [Clients -> Token \cup {None}]
    /\ seen \in [Clients -> Token \cup {None}]

Init ==
    /\ lockFile = None
    /\ stale = [t \in Token |-> None]
    /\ owner = <<>>
    /\ alive = [p \in Procs |-> TRUE]
    /\ deaths = 0
    /\ pending = [p \in Procs |-> None]
    /\ pc = [c \in Clients |-> "idle"]
    /\ token = [c \in Clients |-> None]
    /\ seen = [c \in Clients |-> None]

Goto(c, l) == pc' = [pc EXCEPT ![c] = l]

Step(c, from) == alive[ProcOf[c]] /\ pc[c] = from

\* The candidate file of a new token is on disk: the client starts to try.
WriteCandidate(c) ==
    /\ Len(owner) < MaxTokens
    /\ owner' = Append(owner, ProcOf[c])
    /\ token' = [token EXCEPT ![c] = Len(owner) + 1]

-----------------------------------------------------------------------------
(* acquireLinkLock *)

QueueAllows(c) ==
    Queued => \A d \in Clients \ {c} : ProcOf[d] = ProcOf[c] => pc[d] = "idle"

\* A call with nothing to finish writes its candidate; otherwise it first
\* finishes the release its process left behind.
Begin(c) ==
    /\ Step(c, "idle")
    /\ QueueAllows(c)
    /\ \/ /\ pending[ProcOf[c]] = None
          /\ WriteCandidate(c)
          /\ Goto(c, "try")
          /\ UNCHANGED seen
       \/ /\ pending[ProcOf[c]] # None
          /\ seen' = [seen EXCEPT ![c] = pending[ProcOf[c]]]
          /\ Goto(c, "finRead")
          /\ UNCHANGED <<owner, token>>
    /\ UNCHANGED <<disk, procs, pending>>

\* link(candidate, lockPath) succeeds when there is no lock file.
TryLink(c) ==
    /\ Step(c, "try")
    /\ \/ /\ lockFile = None
          /\ lockFile' = token[c]
          /\ Goto(c, "held")
       \/ /\ lockFile # None
          /\ Goto(c, "recRead")
          /\ UNCHANGED lockFile
    /\ UNCHANGED <<stale, owner, procs, pending, token, seen>>

\* After recoverDeadLock the deadline is checked: another round, or give up.
AfterRecovery(c) == \/ Goto(c, "try") /\ UNCHANGED token
                    \/ Goto(c, "idle") /\ token' = [token EXCEPT ![c] = None]

-----------------------------------------------------------------------------
(* recoverDeadLock: each of its failures is swallowed by the catch *)

RecoverRead(c) ==
    /\ Step(c, "recRead")
    /\ seen' = [seen EXCEPT ![c] = lockFile]
    /\ IF lockFile = None THEN AfterRecovery(c)
                          ELSE Goto(c, "recCheck") /\ UNCHANGED token
    /\ UNCHANGED <<disk, owner, procs, pending>>

\* Mutant: the owner's process is not probed.
RecoverUnchecked(c) ==
    /\ Step(c, "recCheck")
    /\ Goto(c, "recLink")
    /\ UNCHANGED <<disk, owner, procs, pending, token, seen>>

\* Mutant: the deadline is looked at before the recovery goes on.
RecoverCheckGivesUp(c) ==
    /\ Step(c, "recCheck")
    /\ AfterRecovery(c)
    /\ UNCHANGED <<disk, owner, procs, pending, seen>>

RecoverCheck(c) ==
    /\ Step(c, "recCheck")
    /\ IF alive[owner[seen[c]]] THEN AfterRecovery(c)
                                    ELSE Goto(c, "recLink") /\ UNCHANGED token
    /\ UNCHANGED <<disk, owner, procs, pending, seen>>

\* link(lockPath, stale-token): whatever file is at lockPath now is linked,
\* under the name of the token that was read.
RecoverLink(c) ==
    /\ Step(c, "recLink")
    /\ IF lockFile = None \/ stale[seen[c]] # None
       THEN AfterRecovery(c) /\ UNCHANGED stale
       ELSE /\ stale' = [stale EXCEPT ![seen[c]] = lockFile]
            /\ Goto(c, "recUnlink")
            /\ UNCHANGED token
    /\ UNCHANGED <<lockFile, owner, procs, pending, seen>>

\* unlink(lockPath): by name too; its failure is swallowed.
RecoverUnlink(c) ==
    /\ Step(c, "recUnlink")
    /\ lockFile' \in {None, lockFile}
    /\ AfterRecovery(c)
    /\ UNCHANGED <<stale, owner, procs, pending, seen>>

-----------------------------------------------------------------------------
(* release, and finishPendingRelease as release and acquire call it *)

Release(c) ==
    /\ Step(c, "held")
    /\ pending' = [pending EXCEPT ![ProcOf[c]] = token[c]]
    /\ seen' = [seen EXCEPT ![c] = token[c]]
    /\ Goto(c, "relRead")
    /\ UNCHANGED <<disk, owner, procs, token>>

\* finishPendingRelease returned: a release is over, an acquisition goes on.
Finished(c) ==
    /\ pending' = [pending EXCEPT ![ProcOf[c]] = None]
    /\ \/ /\ pc[c] \in {"relRead", "relUnlink"}
          /\ Goto(c, "idle")
          /\ token' = [token EXCEPT ![c] = None]
          /\ UNCHANGED owner
       \/ /\ pc[c] \in {"finRead", "finUnlink"}
          /\ WriteCandidate(c)
          /\ Goto(c, "try")

\* The read or the unlink failed for a reason other than a missing file: the
\* call throws, and the pending release stays for the next one.
FinishFails(c) ==
    /\ Goto(c, "idle")
    /\ token' = [token EXCEPT ![c] = None]
    /\ UNCHANGED <<lockFile, owner, pending>>

FinishRead(c) ==
    /\ Step(c, "finRead") \/ Step(c, "relRead")
    /\ \/ /\ lockFile # seen[c]
          /\ Finished(c)
       \/ /\ lockFile = seen[c]
          /\ Goto(c, IF pc[c] = "relRead" THEN "relUnlink" ELSE "finUnlink")
          /\ UNCHANGED <<owner, pending, token>>
       \/ FinishFails(c)
    /\ UNCHANGED <<disk, procs, seen>>

FinishUnlink(c) ==
    /\ Step(c, "finUnlink") \/ Step(c, "relUnlink")
    /\ \/ lockFile' = None /\ Finished(c)
       \/ FinishFails(c)
    /\ UNCHANGED <<stale, procs, seen>>

-----------------------------------------------------------------------------
(* Processes *)

\* A process dies: its clients and its pendingReleases map are gone.
Die(p) ==
    /\ alive[p]
    /\ deaths < MaxDeaths
    /\ alive' = [alive EXCEPT ![p] = FALSE]
    /\ deaths' = deaths + 1
    /\ pending' = [pending EXCEPT ![p] = None]
    /\ pc' = [c \in Clients |-> IF ProcOf[c] = p THEN "idle" ELSE pc[c]]
    /\ token' = [c \in Clients |-> IF ProcOf[c] = p THEN None ELSE token[c]]
    /\ UNCHANGED <<disk, owner, seen>>

\* A new process is given the pid of a dead one.
Restart(p) ==
    /\ ~alive[p]
    /\ alive' = [alive EXCEPT ![p] = TRUE]
    /\ UNCHANGED <<disk, owner, deaths, pending, pc, token, seen>>

Recover(c) == RecoverRead(c) \/ RecoverCheck(c) \/ RecoverLink(c) \/ RecoverUnlink(c)

Finish(c) == FinishRead(c) \/ FinishUnlink(c)

Next ==
    \/ \E c \in Clients : Begin(c) \/ TryLink(c) \/ Recover(c) \/ Release(c) \/ Finish(c)
    \/ \E p \in Procs : Die(p) \/ Restart(p)

Spec == Init /\ [][Next]_vars

\* A call in progress goes on; nothing makes a client call, a holder release,
\* or a process die or come back.
FairSpec == Spec /\ \A c \in Clients : WF_vars(TryLink(c) \/ Recover(c) \/ Finish(c))

-----------------------------------------------------------------------------
(* Properties *)

Held == {c \in Clients : pc[c] = "held"}

\* The names of the links a recovery has made of another file than the one it
\* had read: its owner was seen dead, but had released before it died, and the
\* lock was somebody else's by then.
Misnamed == {t \in Token : stale[t] \notin {None, t}}

\* Holders whose lock file was taken away from them.
Robbed == {c \in Held : lockFile # token[c]}

\* Callers about to unlink a lock file that is not there any more.
Astray == {c \in Clients : /\ pc[c] \in {"recUnlink", "relUnlink", "finUnlink"}
                           /\ lockFile # seen[c]}

\* No lock is taken away from a living holder but by a recovery that acted on
\* a token out of date.  Each such recovery costs one holder at most, and it
\* has left a link whose name is not its content.
TheftsLeaveTraces == Cardinality(Robbed \cup Astray) <= Cardinality(Misnamed)

\* Two callers are never both between acquireLinkLock and release, unless there
\* was such a recovery: the read, the check and the write of a workflow command
\* are one critical section.
MutualExclusion ==
    Misnamed = {} => \A c, d \in Held : c = d /\ lockFile = token[c]

M == INSTANCE Mutex WITH holders <- Held, thefts <- Cardinality(Misnamed)

\* The section between acquireLinkLock and its release is a mutex, for as long
\* as there was no such recovery; and after k of them k + 1 callers at most are
\* inside.
ImplementsMutex == M!Spec

\* A recoverer has linked the file of token t and then died, or failed to
\* unlink it: every later one takes the link for a recovery that is done.
Abandoned(t) ==
    /\ lockFile = t
    /\ stale[t] # None
    /\ \A c \in Clients : ~(pc[c] = "recUnlink" /\ seen[c] = t)

\* A caller that meets the lock of a dead process sees it gone, also when it is
\* at its deadline, unless it dies itself, a recovery of that lock was abandoned
\* half way, or the pid is in use again.
DeadLockRecovered ==
    \A c \in Clients, t \in Token :
        (pc[c] = "try" /\ lockFile = t /\ ~alive[owner[t]])
            ~> (lockFile # t \/ Abandoned(t) \/ alive[owner[t]] \/ ~alive[ProcOf[c]])
=============================================================================
