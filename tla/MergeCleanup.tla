------------------------------ MODULE MergeCleanup ------------------------------
(***************************************************************************)
(* The merge of a pull request and the cleanup after it                    *)
(* (src/workflow/merge.ts, merge-gates.ts).  One attempt at a time has the *)
(* workflow: it checks the gates against what GitHub says now, merges by   *)
(* compare-and-swap of the head, reads back that the pull request is       *)
(* merged, records that, and only then removes what the work has left      *)
(* behind, one recorded step after the other.  An attempt may fail or die  *)
(* anywhere; the next one goes on from the record.                         *)
(*                                                                         *)
(* The review on the record judged head 1 on base 1 under contract 1.  The *)
(* attempt against the remote branch is that of RemoteGit.                 *)
(***************************************************************************)
EXTENDS Integers, FiniteSets, GithubWrite

CONSTANTS
    MaxMerge,  \* bound: heads of the pull request
    SyncOf,    \* the base a head merges into the reviewed one, and nothing else; or 0
    MaxBase    \* bound: commits of the base branch

Heads == 1..MaxMerge
Gates == {"review-hash", "review-base", "review-contract-missing",
          "contract-unreadable", "contract-changed"}

ASSUME MergeAssumption ==
    /\ MaxMerge \in Nat \ {0} /\ MaxBase \in Nat \ {0}
    /\ SyncOf \in [Heads -> 0..MaxBase]
    /\ None \notin Nat

VARIABLES
    \* GitHub and the machine
    pr,        \* the pull request: state and head; the head it was merged at stays
    base,      \* the commit of the base branch
    contract,  \* what the issue asks for
    issue,     \* "OPEN" or "CLOSED"
    comments,  \* closing comments GitHub has executed
    flying,    \* writes dispatched that may yet be executed
    worktree,  \* "clean", "dirty", "loose" (a path Git does not know) or "gone"
    local,     \* the local branch exists
    remote,    \* the head of the remote branch, 0 for none
    \* the record
    judged,   \* the record holds a passed review of head 1
    delivery,  \* None until the merge is confirmed
    autoRun,   \* "none", "running" or "completed"
    \* the server
    auth,      \* an authorization that was granted and not yet used
    at,        \* where the attempt is
    run,       \* the authorization the attempt runs under
    fact,      \* the pull request as the attempt has read it
    mem,       \* its copy of the delivery
    reply,     \* the answer to its last write
    \* history
    gated,     \* heads that passed the gates, or whose failures were overridden
    strayed,   \* heads sent to merge under an override that was shown another
    ours       \* our write has merged

world == <<pr, base, contract, issue, comments, worktree, local, remote>>
disk == <<judged, delivery, autoRun>>
server == <<auth, at, run, fact, mem, reply>>
history == <<gated, strayed, ours>>
mvars == <<world, flying, disk, server, history>>

Grants == [head : Heads \cup {0}, base : (1..MaxBase) \cup {0}, skipped : SUBSET Gates]
\* What an auto-run merges under: it is shown no target and may skip nothing.
Unattended == [head |-> 0, base |-> 0, skipped |-> {}]
Facts == [state : {"OPEN", "MERGED"}, head : Heads, base : 1..MaxBase]
Steps == {"worktree", "local", "remote", "issue"}
Deliveries == [head : Heads, done : SUBSET Steps, archived : BOOLEAN,
               comment : {"none", "pending", "confirmed"}]

ASSUME DeliveryAssumption == None \notin Deliveries

Merge(h) == <<"merge", h>>
Closing == <<"comment", 0>>
Close == <<"close", 0>>
MergeWrites == {Merge(h) : h \in Heads} \cup {Closing, Close}
Places == {"idle", "looked", "merge", "sent", "answered", "confirm", "freeze",
           "worktree", "local", "remote", "issue", "comment", "comment sent",
           "comment answered", "close", "close sent",
           "close answered", "close refused", "issue done", "archive"}

MergeTypeOK ==
    /\ pr \in [state : {"OPEN", "CLOSED", "MERGED"}, head : Heads]
    /\ base \in 1..MaxBase /\ contract \in {1, 2}
    /\ issue \in {"OPEN", "CLOSED"} /\ comments \in Nat
    /\ flying \subseteq MergeWrites
    /\ worktree \in {"clean", "dirty", "loose", "gone"}
    /\ local \in BOOLEAN /\ remote \in 0..MaxMerge
    /\ judged \in BOOLEAN /\ autoRun \in {"none", "running", "completed"}
    /\ delivery \in Deliveries \cup {None}
    /\ auth \in Grants \cup {None} /\ run \in Grants \cup {None}
    /\ at \in Places
    /\ fact \in Facts \cup {None}
    /\ mem \in Deliveries \cup {None}
    /\ reply \in Answers \cup {None}
    /\ gated \subseteq Heads /\ strayed \subseteq Heads /\ ours \in BOOLEAN

MergeInit ==
    /\ pr = [state |-> "OPEN", head |-> 1] /\ base = 1 /\ contract = 1
    /\ issue = "OPEN" /\ comments = 0 /\ flying = {}
    /\ worktree \in {"clean", "dirty"} /\ local = TRUE /\ remote = 1
    /\ judged \in BOOLEAN /\ delivery = None /\ autoRun \in {"none", "running"}
    /\ auth = None /\ at = "idle" /\ run = None /\ fact = None
    /\ mem = None /\ reply = None
    /\ gated = {} /\ strayed = {} /\ ours = FALSE

-----------------------------------------------------------------------------
(* The gates *)

\* The head is the clean merge of the reviewed commit with a commit of its base;
\* with the base of the review unchanged, with the one the pull request has.
SyncEquivalent(h, b) == judged /\ SyncOf[h] # 0 /\ SyncOf[h] = b

\* Everything that speaks against a merge of head h on base b; the contract is
\* read now, and may be unreadable.
Failures(h, b, readable) ==
    LET exact == judged /\ h = 1 IN
    (IF exact \/ SyncEquivalent(h, b) THEN {} ELSE {"review-hash"})
    \cup (IF (judged /\ b = 1) \/ (~exact /\ SyncEquivalent(h, b)) THEN {} ELSE {"review-base"})
    \cup (IF ~judged THEN {"review-contract-missing"}
          ELSE IF ~readable THEN {"contract-unreadable"}
          ELSE IF contract # 1 THEN {"contract-changed"} ELSE {})

\* The user is shown the head, the base and what speaks against them, and may
\* skip exactly that.
Authorize ==
    /\ auth = None /\ pr.state # "CLOSED"
    /\ \E readable \in BOOLEAN :
          auth' = [head |-> pr.head, base |-> base,
                   skipped |-> IF delivery = None
                                 THEN Failures(pr.head, base, readable) ELSE {}]
    /\ UNCHANGED <<world, flying, disk, at, run, fact, mem, reply, history>>

-----------------------------------------------------------------------------
(* An attempt: up to the merge *)

Quits ==
    /\ at' = "idle"
    /\ run' = None /\ fact' = None /\ mem' = None /\ reply' = None

GoesTo(place) ==
    /\ at' = place
    /\ UNCHANGED <<run, fact, mem, reply>>

\* With a record of the merge the cleanup goes on, without one the gates come
\* first.  A refusal uses the authorization up, too.
Begin(grant) ==
    /\ at = "idle"
    /\ \/ grant = auth /\ auth # None /\ auth' = None
       \/ grant = Unattended /\ autoRun = "running" /\ UNCHANGED auth
    /\ \/ /\ pr.state # "CLOSED"
          /\ delivery # None => pr.state = "MERGED" /\ ~delivery.archived
          /\ grant.base \in {0, base}
          /\ at' = IF delivery = None THEN "looked" ELSE "worktree"
          /\ run' = grant
          /\ fact' = [state |-> pr.state, head |-> pr.head, base |-> base]
          /\ mem' = delivery
          /\ UNCHANGED reply
       \/ Quits
    /\ UNCHANGED <<world, flying, disk, history>>

\* What speaks against the head must have been shown and skipped.  What is
\* skipped is put on the record first, which may fail.
CheckGates ==
    /\ at = "looked"
    /\ \/ \E readable \in BOOLEAN :
             /\ Failures(fact.head, fact.base, readable) \subseteq run.skipped
             /\ gated' = gated \cup {fact.head}
             /\ GoesTo(IF fact.state = "MERGED" THEN "freeze" ELSE "merge")
       \/ Quits /\ UNCHANGED gated
    /\ UNCHANGED <<world, flying, disk, auth, strayed, ours>>

Dispatch(w, from, next) ==
    /\ at = from
    /\ flying' = flying \cup {w}
    /\ GoesTo(next)
    /\ UNCHANGED <<world, disk, auth, gated, ours>>

\* Mutant: the merge names no head.
TakesAnyHead(w) == w[1] = "merge" => pr.state = "OPEN"

\* What GitHub makes of a write: a merge takes only the head it names.
Takes(w) == w[1] = "merge" => pr.state = "OPEN" /\ pr.head = w[2]

Executes(w) ==
    /\ w \in flying
    /\ flying' = flying \ {w}
    /\ Takes(w)
    /\ pr' = IF w[1] = "merge" THEN [pr EXCEPT !.state = "MERGED"] ELSE pr
    /\ comments' = IF w = Closing THEN comments + 1 ELSE comments
    /\ issue' = IF w = Close THEN "CLOSED" ELSE issue
    /\ ours' = (ours \/ w[1] = "merge")
    /\ UNCHANGED <<base, contract, worktree, local, remote, disk, server, gated, strayed>>

Vanishes(w) ==
    /\ w \in flying
    /\ flying' = flying \ {w}
    /\ UNCHANGED <<world, disk, server, history>>

\* The predicate of the readback: the very head is merged.
IsSo(w) ==
    CASE w[1] = "merge" -> pr.state = "MERGED" /\ pr.head = w[2]
      [] w = Closing    -> comments > 0
      [] w = Close      -> issue = "CLOSED"

\* The answer to a write; refused, the transaction is over.
Answered(w, from, next, refused) ==
    /\ at = from
    /\ \E a \in Answers :
          /\ a = "accepted" => w \notin flying /\ IsSo(w)
          /\ NeverHappened(a) => w \in flying
          /\ flying' = IF NeverHappened(a) THEN flying \ {w} ELSE flying
          /\ IF ~NeverHappened(a)
               THEN at' = next /\ reply' = a /\ UNCHANGED <<run, fact, mem>>
               ELSE refused
    /\ UNCHANGED <<world, disk, auth, history>>

SendMerge ==
    /\ Dispatch(Merge(fact.head), "merge", "sent")
    /\ strayed' = IF run.skipped # {} /\ run.head # fact.head
                    THEN strayed \cup {fact.head} ELSE strayed
MergeAnswered == Answered(Merge(fact.head), "sent", "answered", Quits)

MergeReadBack ==
    /\ at = "answered"
    /\ \E s \in Readings(IsSo(Merge(fact.head))) :
          IF Outcome(reply, s) = "confirmed" THEN GoesTo("confirm") ELSE Quits
    /\ UNCHANGED <<world, flying, disk, auth, history>>

\* The pull request is read once more, as a fact.
Confirm ==
    /\ at = "confirm"
    /\ \/ /\ pr.state = "MERGED"
          /\ fact' = [fact EXCEPT !.state = "MERGED", !.head = pr.head]
          /\ at' = "freeze"
          /\ UNCHANGED <<run, mem, reply>>
       \/ Quits
    /\ UNCHANGED <<world, flying, disk, auth, history>>

\* The commit of a step succeeds; or it fails, and so ends the attempt, whose
\* last commit may save what the step did.
Commit(copy, next) ==
    \/ /\ delivery' = copy /\ mem' = copy /\ at' = next
       /\ UNCHANGED <<run, fact, reply>>
    \/ /\ delivery' \in {delivery, copy}
       /\ Quits

Freeze ==
    /\ at = "freeze"
    /\ LET frozen == [head |-> fact.head, done |-> {}, archived |-> FALSE, comment |-> "none"] IN
       \/ /\ delivery' = frozen /\ mem' = frozen /\ at' = "worktree"
          /\ UNCHANGED <<run, fact, reply>>
       \/ Quits /\ UNCHANGED delivery
    /\ UNCHANGED <<world, flying, judged, autoRun, auth, history>>

-----------------------------------------------------------------------------
(* An attempt: the cleanup *)

\* A step fails: the attempt ends, and its last commit saves what it knows.
Fails ==
    /\ at = "close refused" \/ (at \in Steps /\ at \notin mem.done)
    /\ delivery' \in {delivery, mem}
    /\ Quits
    /\ UNCHANGED <<world, flying, judged, autoRun, auth, history>>

Marks(step) == [mem EXCEPT !.done = @ \cup {step}]

Skip ==
    /\ at \in Steps /\ at \in mem.done
    /\ GoesTo(CASE at = "worktree" -> "local"
                [] at = "local"    -> "remote"
                [] at = "remote"   -> "issue"
                [] at = "issue"    -> "archive")
    /\ UNCHANGED <<world, flying, disk, auth, history>>

\* Git removes a registered worktree that is clean; a path that it does not
\* know must not exist.
CleanWorktree ==
    /\ at = "worktree" /\ "worktree" \notin mem.done
    /\ worktree \in {"clean", "gone"}
    /\ worktree' = "gone"
    /\ Commit(Marks("worktree"), "local")
    /\ UNCHANGED <<pr, base, contract, issue, comments, local, remote, flying,
                   judged, autoRun, auth, history>>

CleanLocal ==
    /\ at = "local" /\ "local" \notin mem.done
    /\ local' = FALSE
    /\ Commit(Marks("local"), "remote")
    /\ UNCHANGED <<pr, base, contract, issue, comments, worktree, remote, flying,
                   judged, autoRun, auth, history>>

\* The lease of the deletion is the merged head.
CleanRemote ==
    /\ at = "remote" /\ "remote" \notin mem.done
    /\ remote \in {0, mem.head}
    /\ remote' = 0
    /\ Commit(Marks("remote"), "issue")
    /\ UNCHANGED <<pr, base, contract, issue, comments, worktree, local, flying,
                   judged, autoRun, auth, history>>

\* A command that fails may have taken effect.
CommandUnknown ==
    /\ at \in {"worktree", "local", "remote"} /\ at \notin mem.done
    /\ \/ at = "worktree" /\ worktree = "clean" /\ worktree' = "gone" /\ UNCHANGED <<local, remote>>
       \/ at = "local" /\ local' = FALSE /\ UNCHANGED <<worktree, remote>>
       \/ at = "remote" /\ remote = mem.head /\ remote' = 0 /\ UNCHANGED <<worktree, local>>
    /\ delivery' \in {delivery, mem}
    /\ Quits
    /\ UNCHANGED <<pr, base, contract, issue, comments, flying, judged, autoRun, auth, history>>

\* Mutant: a comment whose fate is open is sent again.
LookAtIssueAgain ==
    /\ at = "issue" /\ "issue" \notin mem.done
    /\ GoesTo(IF issue = "CLOSED" THEN "issue done"
              ELSE IF mem.comment = "confirmed" THEN "close" ELSE "comment")
    /\ UNCHANGED <<world, flying, disk, auth, history>>

\* An open issue gets its closing comment, once; a comment whose fate is open
\* is only looked for.
LookAtIssue ==
    /\ at = "issue" /\ "issue" \notin mem.done
    /\ GoesTo(IF issue = "CLOSED" THEN "issue done"
              ELSE CASE mem.comment = "none"      -> "comment"
                     [] mem.comment = "pending"   -> "comment answered"
                     [] mem.comment = "confirmed" -> "close")
    /\ UNCHANGED <<world, flying, disk, auth, history>>

\* The marker is in the copy even when its commit fails, and then not sent.
SendComment ==
    /\ at = "comment"
    /\ mem' = [mem EXCEPT !.comment = "pending"]
    /\ \/ /\ delivery' = mem' /\ flying' = flying \cup {Closing} /\ at' = "comment sent"
       \/ /\ UNCHANGED <<delivery, flying>> /\ at' = "close"
    /\ UNCHANGED <<world, judged, autoRun, auth, run, fact, reply, history>>

CommentAnswered ==
    Answered(Closing, "comment sent", "comment answered", GoesTo("close"))

\* After the answer, or in place of a dispatch.  Unconfirmed, the marker stays.
CommentReadBack ==
    /\ at = "comment answered"
    /\ \E s \in Readings(IsSo(Closing)) :
          IF Recovered(s) = "confirmed"
            THEN Commit([mem EXCEPT !.comment = "confirmed"], "close")
            ELSE GoesTo("close") /\ UNCHANGED delivery
    /\ UNCHANGED <<world, flying, judged, autoRun, auth, history>>

SendClose == Dispatch(Close, "close", "close sent") /\ UNCHANGED strayed
CloseAnswered == Answered(Close, "close sent", "close answered", GoesTo("close refused"))

CloseReadBack ==
    /\ at = "close answered"
    /\ \E s \in Readings(IsSo(Close)) :
          IF Outcome(reply, s) = "confirmed"
            THEN GoesTo("issue done") /\ UNCHANGED delivery
            ELSE delivery' \in {delivery, mem} /\ Quits
    /\ UNCHANGED <<world, flying, judged, autoRun, auth, history>>

IssueDone ==
    /\ at = "issue done"
    /\ Commit(Marks("issue"), "archive")
    /\ UNCHANGED <<world, flying, judged, autoRun, auth, history>>

\* The run that asked for the merge is over when the workflow is archived; when
\* that fails, the copy takes both back before its last commit.
Archive ==
    /\ at = "archive"
    /\ \/ /\ delivery' = [mem EXCEPT !.archived = TRUE]
          /\ autoRun' = IF autoRun = "running" THEN "completed" ELSE autoRun
       \/ /\ delivery' \in {delivery, mem}
          /\ UNCHANGED autoRun
    /\ Quits
    /\ UNCHANGED <<world, flying, judged, auth, history>>

-----------------------------------------------------------------------------
(* Whoever else is there *)

SomebodyActs ==
    /\ \/ /\ pr.state = "OPEN" /\ pr.head < MaxMerge
          /\ pr' = [pr EXCEPT !.head = @ + 1] /\ remote' = pr.head + 1
          /\ UNCHANGED <<base, contract, issue, worktree>>
       \/ /\ pr.state = "OPEN"
          /\ pr' \in {[pr EXCEPT !.state = s] : s \in {"CLOSED", "MERGED"}}
          /\ UNCHANGED <<base, contract, issue, worktree, remote>>
       \/ /\ base < MaxBase /\ base' = base + 1
          /\ UNCHANGED <<pr, contract, issue, worktree, remote>>
       \/ /\ contract = 1 /\ contract' = 2
          /\ UNCHANGED <<pr, base, issue, worktree, remote>>
       \/ /\ worktree = "dirty" /\ worktree' \in {"clean", "loose"}
          /\ UNCHANGED <<pr, base, contract, issue, remote>>
       \/ /\ worktree = "loose" /\ delivery # None /\ worktree' = "gone"
          /\ UNCHANGED <<pr, base, contract, issue, remote>>
       \/ /\ pr.state = "MERGED"    \* GitHub may close and delete by itself
          /\ issue' \in {issue, "CLOSED"}
          /\ remote' \in {remote, IF remote = pr.head THEN 0 ELSE remote}
          /\ UNCHANGED <<pr, base, contract, worktree>>
    /\ UNCHANGED <<comments, local, flying, disk, server, history>>

Dies ==
    /\ at # "idle"
    /\ Quits
    /\ auth' = None
    /\ UNCHANGED <<world, flying, disk, history>>

ToMerge ==
    \/ \E grant \in {auth, Unattended} : Begin(grant)
    \/ CheckGates \/ SendMerge \/ MergeAnswered \/ MergeReadBack \/ Confirm \/ Freeze

Cleanup ==
    \/ Skip \/ Fails \/ CleanWorktree \/ CleanLocal \/ CleanRemote \/ CommandUnknown
    \/ LookAtIssue \/ SendComment \/ CommentAnswered \/ CommentReadBack
    \/ SendClose \/ CloseAnswered \/ CloseReadBack \/ IssueDone \/ Archive

MergeNext ==
    \/ Authorize \/ ToMerge \/ Cleanup
    \/ \E w \in MergeWrites : Executes(w) \/ Vanishes(w)
    \/ SomebodyActs \/ Dies

MergeSpec == MergeInit /\ [][MergeNext]_mvars

-----------------------------------------------------------------------------
(* Properties *)

\* What our write merges is a head that the gates let pass, whatever is pushed
\* between the gates and the merge.
MergedWasGated == ours => pr.head \in gated

\* Nothing that the merge would make superfluous is gone, and the issue has no
\* closing comment, before the record names the merged head.
NothingGoneBeforeMerge ==
    worktree = "gone" \/ ~local \/ comments > 0 \/ Closing \in flying =>
        /\ delivery # None
        /\ pr.state = "MERGED" /\ delivery.head = pr.head

\* A step the record calls done is done, and the archive holds only workflows
\* whose cleanup is complete.
StepsAreDone ==
    delivery # None =>
        /\ "worktree" \in delivery.done => worktree = "gone"
        /\ "local" \in delivery.done => ~local
        /\ "remote" \in delivery.done => remote = 0
        /\ "issue" \in delivery.done => issue = "CLOSED"
        /\ delivery.archived => delivery.done = Steps /\ autoRun # "running"

\* However often the cleanup is tried, the issue gets one closing comment.
ClosingOnce == comments + (IF Closing \in flying THEN 1 ELSE 0) <= 1

\* A run that merges on its own is completed with the archive, never before.
RunEndsWithArchive == autoRun = "completed" => delivery # None /\ delivery.archived

\* Who skips a gate does so for the head that was shown ("确认后新增的门禁失败(如新推送
\* 提交导致哈希再次不一致)不被旧确认覆盖", docs/plans/2026-08-23-merge-manual-override-design.md:15).
OverrideIsForShownHead == ours => pr.head \notin strayed

\* The irreversible steps come in their order: gates, merge, record of the merge, and
\* only then whatever takes something away.
MergeIsGated == MergeTypeOK /\ MergedWasGated /\ NothingGoneBeforeMerge

\* A cleanup that failed, died and was resumed anywhere has done what it says, has
\* commented once, and completes a run with the archive.
CleanupIsTrue == StepsAreDone /\ ClosingOnce /\ RunEndsWithArchive
=============================================================================
