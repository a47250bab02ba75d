------------------------------ MODULE MCDelivery ------------------------------
(***************************************************************************)
(* Delivery in three parts that share no state but GitHub's: what is       *)
(* published while the work goes on, the merge with its cleanup, and the   *)
(* writes to the remote repository.                                        *)
(*                                                                         *)
(* Publication has four casts: a review that a development takes over, a   *)
(* development that a review takes over, and the creation of the pull      *)
(* request beside either.  The merge has two: everything that can change   *)
(* up to the record of the merge, and a cleanup that may fail or die at    *)
(* every step.  The remote has four: a synchronisation and the pull      *)
(* request of one workflow; the cleanup of another beside the restore of a *)
(* base that nobody else touches; a synchronisation, and a restore, whose  *)
(* fetch the panel's joins.                                                *)
(***************************************************************************)
EXTENDS Publication, MergeCleanup, RemoteGit

VARIABLES
    part,   \* "publication", "gates", "cleanup" or "remote"
    crew    \* the writers of a publication, the callers of the coordinator

MCSyncOf == [h \in 1..MaxMerge |-> IF h = 2 THEN 2 ELSE 0]

MCKind == [a \in Actors |-> a]
MCBranch == [a \in Actors |-> CASE a = "cleanup" -> "merged"
                                [] a = "restore" -> "base"
                                [] OTHER -> "topic"]
MCFrozen == [a \in Actors |-> 1]
MCLocks == [a \in Actors |-> CASE a = "cleanup" -> {2}
                               [] a = "restore" -> {3}
                               [] OTHER -> {1}]

Crews == {{1, 2}, {3, 4}, {Creation, 1}, {Creation, 3}}

Casts == {{"sync", "pr"}, {"cleanup", "restore"}, {"sync", "panel"}, {"restore", "panel"}}

MCInit ==
    /\ Init /\ MergeInit /\ RemoteInit
    /\ \/ /\ part = "publication" /\ crew \in Crews
          /\ Creation \in crew => ~prNumber
          /\ judged /\ autoRun = "none" /\ worktree = "clean"
       \/ /\ part = "gates" /\ crew = {}
          /\ ~prNumber /\ worktree = "clean"
       \/ /\ part = "cleanup" /\ crew = {}
          /\ ~prNumber /\ judged
       \/ /\ part = "remote" /\ crew \in Casts
          /\ ~prNumber
          /\ judged /\ autoRun = "none" /\ worktree = "clean"

Publishes ==
    /\ part = "publication" /\ Next
    /\ \A x \in Writers \ crew : step'[x] = "idle"
    /\ UNCHANGED <<mvars, rgvars, part, crew>>

Merges ==
    /\ part \in {"gates", "cleanup"} /\ MergeNext
    /\ part = "gates" => at' \notin Steps /\ issue' = issue
    /\ part = "cleanup" => base' = base /\ contract' = contract /\ pr'.head = pr.head
    /\ UNCHANGED <<vars, rgvars, part, crew>>

\* Only the cast begins anything, and only its branches change.  A cleanup and a
\* restore compare commits for equality alone: any other one is as good as Foreign,
\* so only the branch of a push gets commits.
Pushing ==
    /\ part = "remote" /\ RemoteNext
    /\ \A c \in Callers \ crew : pc'[c] = "idle" /\ (c \in Actors => ~cleaned'[c])
    /\ \A b \in Branches :
          \/ ref'[b] = ref[b]
          \/ /\ \E a \in Actors \cap crew : Branch[a] = b
             /\ b = "base" /\ "cleanup" \in crew => wire' # wire
    /\ \A b \in Branches :
          tip'[b] # tip[b] => \E a \in Actors \cap crew : Branch[a] = b /\ Pushes(a)
    /\ UNCHANGED <<vars, mvars, part, crew>>

MCSpec == MCInit /\ [][Publishes \/ Merges \/ Pushing]_<<vars, mvars, rgvars, part, crew>>
=============================================================================
