------------------------------ MODULE UpgradeLock ------------------------------
(***************************************************************************)
(* The lock file that admits one upgrader (src/infra/v02-upgrade-lock.ts): *)
(* taken by a hard link, given back by its owner, and taken away from an   *)
(* owner that is certainly gone.  Every system call between which another  *)
(* process may come is a step.  A token belongs to one attempt.            *)
(***************************************************************************)
EXTENDS Integers, NoValue

CONSTANTS
    Upgraders,   \* processes that want the lock
    MaxAttempts  \* 3 in the code

ASSUME LockAssumption == None \notin Upgraders /\ MaxAttempts \in Nat \ {0}

VARIABLES
    owner,    \* whose token the lock file holds, or None
    dead,     \* processes that have ended
    lstep,    \* where a process is
    read,     \* the owner it has read
    claimed,  \* the file it has linked, by its owner
    tries,    \* attempts it has made
    overtaken,  \* history: processes whose file another has removed since they looked
    lost        \* history: owners whose file an overtaken process removed

lockvars == <<owner, dead, lstep, read, claimed, tries, overtaken, lost>>

LockSteps == {"idle", "link", "look", "judge", "claim", "compare", "verify", "unlink",
              "held", "releasing", "over"}

LockTypeOK ==
    /\ owner \in Upgraders \cup {None}
    /\ dead \subseteq Upgraders
    /\ lstep \in [Upgraders -> LockSteps]
    /\ read \in [Upgraders -> Upgraders \cup {None}]
    /\ claimed \in [Upgraders -> Upgraders \cup {None}]
    /\ tries \in [Upgraders -> 0..MaxAttempts]
    /\ overtaken \subseteq Upgraders /\ lost \subseteq Upgraders

LockInit ==
    /\ owner = None /\ dead = {}
    /\ lstep = [p \in Upgraders |-> "idle"]
    /\ read = [p \in Upgraders |-> None]
    /\ claimed = [p \in Upgraders |-> None]
    /\ tries = [p \in Upgraders |-> 0]
    /\ overtaken = {} /\ lost = {}

\* What the system tells of the process of an owner.  An owner that wrote the
\* old schema, or whose identity cannot be read, is ambiguous while its pid lives.
Views(p) == IF p \in dead THEN {"gone", "zombie", "reused", "ambiguous"}
            ELSE {"running", "ambiguous"}

Stale(view) == view \in {"gone", "zombie", "reused"}

Live(p) == p \notin dead

Turns(p, next) ==
    /\ Live(p)
    /\ lstep' = [lstep EXCEPT ![p] = next]
    /\ UNCHANGED dead

\* A process looks at the file that it may remove.
Looks(p) == overtaken' = overtaken \ {p} /\ UNCHANGED lost

\* It removes the name, whatever file that is by now.
Removes(p) ==
    /\ owner' = None
    /\ overtaken' = overtaken \cup
          {q \in Upgraders \ {p} : lstep[q] \in {"verify", "unlink", "releasing"}}
    /\ lost' = IF p \in overtaken THEN lost \cup ({owner} \ {None, p}) ELSE lost

\* A new attempt, unless it was the last.
Again(p) == IF tries[p] < MaxAttempts THEN "link" ELSE "over"

AcquireBegins(p) ==
    /\ lstep[p] = "idle" /\ Turns(p, "link")
    /\ UNCHANGED <<owner, read, claimed, tries, overtaken, lost>>

Link(p) ==
    /\ lstep[p] = "link"
    /\ tries' = [tries EXCEPT ![p] = @ + 1]
    /\ IF owner = None THEN owner' = p /\ Turns(p, "held")
                       ELSE UNCHANGED owner /\ Turns(p, "look")
    /\ UNCHANGED <<read, claimed, overtaken, lost>>

\* A file that is gone by now ends the attempt with an error.
LookAtOwner(p) ==
    /\ lstep[p] = "look"
    /\ read' = [read EXCEPT ![p] = owner]
    /\ Turns(p, IF owner = None THEN "over" ELSE "judge")
    /\ UNCHANGED <<owner, claimed, tries, overtaken, lost>>

Judge(p) ==
    /\ lstep[p] = "judge"
    /\ \E view \in Views(read[p]) : Turns(p, IF Stale(view) THEN "claim" ELSE "over")
    /\ UNCHANGED <<owner, read, claimed, tries, overtaken, lost>>

ClaimFile(p) ==
    /\ lstep[p] = "claim"
    /\ claimed' = [claimed EXCEPT ![p] = owner]
    /\ Turns(p, IF owner = None THEN Again(p) ELSE "compare")
    /\ UNCHANGED <<owner, read, tries, overtaken, lost>>

\* Both names are looked at: a missing lock counts as taken away.
CompareFiles(p) ==
    /\ lstep[p] = "compare"
    /\ Turns(p, IF owner = claimed[p] THEN "verify" ELSE Again(p))
    /\ Looks(p)
    /\ UNCHANGED <<owner, read, claimed, tries>>

VerifyClaim(p) ==
    /\ lstep[p] = "verify"
    /\ \E view \in Views(claimed[p]) :
          Turns(p, IF claimed[p] = read[p] /\ Stale(view) THEN "unlink" ELSE Again(p))
    /\ UNCHANGED <<owner, read, claimed, tries, overtaken, lost>>

\* By name: it takes away whatever is there now.
UnlinkStale(p) ==
    /\ lstep[p] = "unlink"
    /\ Removes(p)
    /\ Turns(p, Again(p))
    /\ UNCHANGED <<read, claimed, tries>>

ReleaseReads(p) ==
    /\ lstep[p] = "held"
    /\ Turns(p, IF owner = p THEN "releasing" ELSE "over")
    /\ Looks(p)
    /\ UNCHANGED <<owner, read, claimed, tries>>

ReleaseUnlinks(p) ==
    /\ lstep[p] = "releasing"
    /\ Removes(p)
    /\ Turns(p, "over")
    /\ UNCHANGED <<read, claimed, tries>>

UpgraderDies(p) ==
    /\ Live(p) /\ lstep[p] \notin {"idle", "over"}
    /\ dead' = dead \cup {p}
    /\ UNCHANGED <<owner, lstep, read, claimed, tries, overtaken, lost>>

LockStep(p) ==
    \/ AcquireBegins(p) \/ Link(p) \/ LookAtOwner(p) \/ Judge(p) \/ ClaimFile(p)
    \/ CompareFiles(p) \/ VerifyClaim(p) \/ UnlinkStale(p)
    \/ ReleaseReads(p) \/ ReleaseUnlinks(p) \/ UpgraderDies(p)

LockNext == \E p \in Upgraders : LockStep(p)

LockSpec == LockInit /\ [][LockNext]_lockvars

-----------------------------------------------------------------------------
(* Properties *)

\* A live owner keeps the lock file, unless it is removed by a process under whom
\* another process removed the file that it had looked at: the unlink is by name,
\* so that it takes "the lock of a new owner" then, which a recovery "must not
\* delete" (docs/architecture/v02-upgrade-protocol.md:191).
LiveLockStays ==
    \A p \in Upgraders :
        lstep[p] \in {"held", "releasing"} /\ Live(p) => owner = p \/ p \in lost
=============================================================================
