----------------------------- MODULE ContractCapture -----------------------------
(***************************************************************************)
(* The contract of a work item as it is kept on disk                       *)
(* (src/infra/work-item-contract-store.ts,                                 *)
(* src/workflow/work-item-contract-repository.ts).  An observation of the  *)
(* Issue is fetched, and published under the link lock of current.json:    *)
(* first the capture, which never changes again, then the pointer to it.   *)
(* Every write may be the last one of a process.                           *)
(*                                                                         *)
(* An observation has the version that the provider gives the Issue, the   *)
(* canonical contract, and the evidence (comments, checkboxes, time of     *)
(* capture) that is neither.                                               *)
(***************************************************************************)
EXTENDS Integers, NoValue

CONSTANTS
    Observers,
    MaxEdits,      \* bound: versions of the Issue
    MaxEvidence,   \* bound: evidence beside them
    MaxLosses      \* bound: crashes, failures and damages

ASSUME ContractAssumption ==
    /\ MaxEdits \in Nat \ {0} /\ MaxEvidence \in Nat \ {0} /\ MaxLosses \in Nat
    /\ None \notin Observers

VARIABLES
    issue,      \* the Issue at the provider
    captures,   \* complete captures on disk
    current,    \* the capture that current.json names
    damaged,    \* current.json or its capture cannot be read
    locked,     \* the observer that holds the link lock
    cstep,      \* where an observer is
    fetched,    \* what it has fetched
    answer,     \* what it was answered last
    losses      \* crashes, failures and damages so far

cvars == <<issue, captures, current, damaged, locked, cstep, fetched, answer, losses>>

Captures == [version : 1..MaxEdits, contract : 1..MaxEdits, evidence : 1..MaxEvidence]

ContractTypeOK ==
    /\ issue \in Captures
    /\ captures \subseteq Captures
    /\ current \in Captures \cup {None}
    /\ damaged \in BOOLEAN
    /\ locked \in Observers \cup {None}
    /\ cstep \in [Observers -> {"idle", "fetched", "locked", "staged", "captured", "pointed"}]
    /\ fetched \in [Observers -> Captures \cup {None}]
    /\ answer \in [Observers -> Captures \cup {None}]
    /\ losses \in 0..MaxLosses
    /\ \A o \in Observers :
          cstep[o] \in {"locked", "staged", "captured", "pointed"} <=> locked = o

ContractInit ==
    /\ issue = [version |-> 1, contract |-> 1, evidence |-> 1]
    /\ captures = {} /\ current = None /\ damaged = FALSE
    /\ locked = None
    /\ cstep = [o \in Observers |-> "idle"]
    /\ fetched = [o \in Observers |-> None] /\ answer = [o \in Observers |-> None]
    /\ losses = 0

Proceeds(o, step) == cstep' = [cstep EXCEPT ![o] = step]

\* An edit has a new version, unless it follows the last one within its second;
\* a comment has none, and nothing of the contract in it.
IssueChanges ==
    /\ \/ \E version \in {issue.version, issue.version + 1} :
             /\ issue.contract < MaxEdits /\ version <= MaxEdits
             /\ issue' = [issue EXCEPT !.version = version, !.contract = @ + 1]
       \/ issue.evidence < MaxEvidence /\ issue' = [issue EXCEPT !.evidence = @ + 1]
    /\ UNCHANGED <<captures, current, damaged, locked, cstep, fetched, answer, losses>>

\* observeCurrentIssueContract: nothing is kept of a fetch that fails.
Fetch(o) ==
    /\ cstep[o] = "idle"
    /\ fetched' = [fetched EXCEPT ![o] = issue]
    /\ answer' = [answer EXCEPT ![o] = None]
    /\ Proceeds(o, "fetched")
    /\ UNCHANGED <<issue, captures, current, damaged, locked, losses>>

Acquire(o) ==
    /\ cstep[o] = "fetched" /\ locked = None
    /\ locked' = o
    /\ Proceeds(o, "locked")
    /\ UNCHANGED <<issue, captures, current, damaged, fetched, answer, losses>>

\* The publication ends: the observer knows a contract or does not.
Concludes(o, known) ==
    /\ answer' = [answer EXCEPT ![o] = known]
    /\ locked' = None
    /\ Proceeds(o, "idle")

\* The current capture gives way to a newer version, and to other evidence of
\* the same version for the same contract.
Newer(mine) ==
    current # None =>
        \/ current.version < mine.version
        \/ current.version = mine.version /\ current.contract = mine.contract

\* Mutant: a conflict within one version is answered with what is current.
KnownAtLeast(mine) == IF current.version >= mine.version THEN current ELSE None

\* A newer version is an answer; another contract of the same version is none.
Known(mine) == IF current.version > mine.version THEN current ELSE None

Refuse(o) ==
    /\ cstep[o] = "locked"
    /\ \/ damaged /\ Concludes(o, None)
       \/ /\ ~damaged /\ ~Newer(fetched[o])
          /\ Concludes(o, Known(fetched[o]))
       \/ ~damaged /\ current = fetched[o] /\ Concludes(o, current)
    /\ UNCHANGED <<issue, captures, current, damaged, fetched, losses>>

\* In a directory of its own that nobody reads.
Stage(o) ==
    /\ cstep[o] = "locked" /\ ~damaged
    /\ Newer(fetched[o]) /\ current # fetched[o]
    /\ Proceeds(o, "staged")
    /\ UNCHANGED <<issue, captures, current, damaged, locked, fetched, answer, losses>>

\* An earlier observer may have left the same capture.
Capture(o) ==
    /\ cstep[o] = "staged"
    /\ captures' = captures \cup {fetched[o]}
    /\ Proceeds(o, "captured")
    /\ UNCHANGED <<issue, current, damaged, locked, fetched, answer, losses>>

\* Once the capture has been read back.
Point(o) ==
    /\ cstep[o] = "captured"
    /\ fetched[o] \in captures
    /\ current' = fetched[o]
    /\ Proceeds(o, "pointed")
    /\ UNCHANGED <<issue, captures, damaged, locked, fetched, answer, losses>>

Readable(c) == ~damaged /\ c \in captures

AnswerCurrent(o) ==
    /\ cstep[o] = "pointed"
    /\ Concludes(o, IF Readable(current) THEN current ELSE None)
    /\ UNCHANGED <<issue, captures, current, damaged, fetched, losses>>

\* readCurrentIssueContract: without the lock, at any time.
ReadCurrent(o) ==
    /\ cstep[o] = "idle" /\ current # None
    /\ answer' = [answer EXCEPT ![o] = IF Readable(current) THEN current ELSE None]
    /\ fetched' = [fetched EXCEPT ![o] = None]
    /\ UNCHANGED <<issue, captures, current, damaged, locked, cstep, losses>>

\* The process dies, or a write fails: what is on disk stays, the lock does not.
Loses(o) ==
    /\ losses < MaxLosses /\ cstep[o] # "idle"
    /\ losses' = losses + 1
    /\ answer' = [answer EXCEPT ![o] = None]
    /\ locked' = IF locked = o THEN None ELSE locked
    /\ Proceeds(o, "idle")
    /\ UNCHANGED <<issue, captures, current, damaged, fetched>>

\* Somebody else damages the files.
Damage ==
    /\ losses < MaxLosses /\ current # None /\ ~damaged
    /\ losses' = losses + 1 /\ damaged' = TRUE
    /\ UNCHANGED <<issue, captures, current, locked, cstep, fetched, answer>>

ContractNext ==
    \/ IssueChanges \/ Damage
    \/ \E o \in Observers : \/ Fetch(o) \/ Acquire(o) \/ Refuse(o) \/ Stage(o) \/ Capture(o)
                            \/ Point(o) \/ AnswerCurrent(o) \/ ReadCurrent(o) \/ Loses(o)

ContractSpec == ContractInit /\ [][ContractNext]_cvars

-----------------------------------------------------------------------------
(* Properties *)

\* Wherever a publication was cut off, the pointer names a complete capture.
PointerIsWhole == current # None => current \in captures

\* An observer is answered what it fetched, or something newer; never another
\* contract for the version it fetched.
AnswerIsFresh ==
    \A o \in Observers : cstep[o] = "idle" /\ answer[o] # None /\ fetched[o] # None =>
        \/ answer[o].version > fetched[o].version
        \/ answer[o].version = fetched[o].version /\ answer[o].contract = fetched[o].contract

\* The contract an action rests on: captured whole, and never older than what its
\* observer fetched.
ContractIsWhole == ContractTypeOK /\ PointerIsWhole /\ AnswerIsFresh

\* What is current never goes back to an earlier version, and no two contracts
\* are ever current for one version: a slow observer cannot undo a newer one.
CurrentAdvances ==
    \/ current = None
    \/ current'.version > current.version
    \/ current'.version = current.version /\ current'.contract = current.contract

\* Every step of an observer, of the Issue or of a crash leaves what is kept and
\* what was answered whole, and moves the current contract only forward.
ContractHolds == [][ContractIsWhole' /\ CurrentAdvances]_cvars
=============================================================================
