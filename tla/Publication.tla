------------------------------ MODULE Publication ------------------------------
(***************************************************************************)
(* The writes of one workflow that GitHub does not undo by repetition: the *)
(* comment of a delivery, the approval of a passed review, the pull        *)
(* request.  Each leaves a marker on the workflow before it is dispatched; *)
(* what a crash, a stop or a lost answer leaves unsettled is settled by    *)
(* reading alone (src/workflow/delivery-publish.ts, review-flow.ts,        *)
(* write-recovery.ts, create-pr.ts, src/github/pr.ts).                     *)
(*                                                                         *)
(* Tasks are numbered in the order they claim the workflow.  A commit of a *)
(* task needs the lease its claim was given, and waits while a creation    *)
(* has the workflow locked.                                                *)
(***************************************************************************)
EXTENDS Integers, FiniteSets, GithubWrite

CONSTANTS
    Tasks,    \* the tasks of the workflow, 1..n
    Reviews,  \* those that review
    MaxHead   \* bound: commits of the branch

Creation == 0    \* the action that creates the pull request
Writers == Tasks \cup {Creation}
Comment(t) == <<"comment", t>>
Approval(t) == <<"approve", t>>
Pr == <<"create", Creation>>
Writes == ({"comment", "approve"} \X Tasks) \cup {Pr}

ASSUME PublicationAssumption ==
    /\ Tasks = 1..Cardinality(Tasks)
    /\ Reviews \subseteq Tasks
    /\ MaxHead \in Nat \ {0}
    /\ None \notin Nat

VARIABLES
    holder,     \* the task whose lease the record carries, or None
    events,     \* the tasks whose event the record holds
    passed,     \* the reviews among them that passed
    pub,        \* publication.status of an event; "linked": posted, with the URL
    appr,       \* approvalAttempt.status of a review event
    prMarker,   \* prCreate is pending
    prNumber,   \* the record names the pull request
    locked,     \* a creation has the workflow
    step,       \* where a writer is
    write,      \* the write it is at
    answer,     \* the answer to it
    result,     \* its outcome
    todo,       \* markers a recovery has yet to read back
    found,      \* what it has read, per marker
    reviewed,   \* the commit a review has judged
    head,       \* the head of the pull request's branch
    prs,        \* how many pull requests of the branch are open
    done,       \* how often GitHub has executed a write
    on,         \* the head GitHub put an approval on
    edited,     \* reviews whose comment carries a later remark
    air         \* writes dispatched that may yet be executed

record == <<holder, events, passed, pub, appr, prMarker, prNumber>>
writers == <<step, write, answer, result, todo, found, reviewed>>
github == <<head, prs, done, on, edited, air>>
vars == <<record, locked, writers, github>>

Busy == {"recover", "work", "lookup", "push", "ready", "marked", "sent",
         "answered", "store", "edit"}

TypeOK ==
    /\ holder \in Tasks \cup {None}
    /\ events \subseteq Tasks /\ passed \subseteq events \cap Reviews
    /\ pub \in [Tasks -> {"none", "pending", "posted", "linked", "failed", "unknown"}]
    /\ appr \in [Tasks -> {"none", "pending"} \cup Outcomes]
    /\ prMarker \in BOOLEAN /\ prNumber \in BOOLEAN /\ locked \in BOOLEAN
    /\ step \in [Writers -> {"idle", "done"} \cup Busy]
    /\ write \in [Writers -> Writes \cup {None}]
    /\ answer \in [Writers -> Answers \cup {None}]
    /\ result \in [Writers -> Outcomes \cup {None}]
    /\ todo \in [Tasks -> SUBSET Writes]
    /\ found \in [Tasks -> SUBSET (Writes \X Outcomes)]
    /\ reviewed \in [Tasks -> 0..MaxHead]
    /\ head \in 1..MaxHead
    /\ prs \in Nat /\ done \in [Writes -> Nat]
    /\ on \in [Tasks -> 0..MaxHead]
    /\ edited \subseteq Reviews
    /\ air \subseteq Writes

Init ==
    /\ holder = None /\ events = {} /\ passed = {}
    /\ pub = [t \in Tasks |-> "none"]
    /\ appr = [t \in Tasks |-> "none"]
    /\ prMarker = FALSE /\ prNumber \in BOOLEAN /\ locked = FALSE
    /\ step = [x \in Writers |-> "idle"]
    /\ write = [x \in Writers |-> None]
    /\ answer = [x \in Writers |-> None]
    /\ result = [x \in Writers |-> None]
    /\ todo = [t \in Tasks |-> {}]
    /\ found = [t \in Tasks |-> {}]
    /\ reviewed = [t \in Tasks |-> 0]
    /\ head = 1 /\ prs = IF prNumber THEN 1 ELSE 0
    /\ done = [w \in Writes |-> 0]
    /\ on = [t \in Tasks |-> 0]
    /\ edited = {} /\ air = {}

-----------------------------------------------------------------------------
(* GitHub, and whoever else uses it *)

\* The predicate a readback applies to what it reads, per family.
Sees(w) ==
    CASE w[1] = "comment" -> done[w] > 0 /\ w[2] \notin edited
      [] w[1] = "approve" -> done[w] > 0 /\ on[w[2]] = reviewed[w[2]]
      [] w[1] = "create"  -> prs > 0

\* The approval names no commit: GitHub puts it on the head it has.
Land(w) ==
    /\ w \in air
    /\ air' = air \ {w}
    /\ done' = [done EXCEPT ![w] = @ + 1]
    /\ prs' = IF w = Pr THEN prs + 1 ELSE prs
    /\ on' = IF w[1] = "approve" THEN [on EXCEPT ![w[2]] = head] ELSE on
    /\ UNCHANGED <<record, locked, writers, head, edited>>

Drop(w) ==
    /\ w \in air
    /\ air' = air \ {w}
    /\ UNCHANGED <<record, locked, writers, head, prs, done, on, edited>>

SomebodyPushes ==
    /\ head < MaxHead
    /\ head' = head + 1
    /\ UNCHANGED <<record, locked, writers, prs, done, on, edited, air>>

SomebodyOpens ==
    /\ prs = 0
    /\ prs' = 1
    /\ UNCHANGED <<record, locked, writers, head, done, on, edited, air>>

-----------------------------------------------------------------------------
(* Tasks: claim, recovery, report *)

Unsettled ==
    {Comment(t) : t \in {u \in events : pub[u] \in {"pending", "unknown"}}}
    \cup {Approval(t) : t \in {u \in events : prNumber /\ appr[u] \in {"pending", "unknown"}}}

Holds(t) == holder = t

Goes(x, s) == step' = [step EXCEPT ![x] = s]

Claim(t) ==
    /\ step[t] = "idle" /\ \A u \in Tasks : u > t => step[u] = "idle"
    /\ ~locked
    /\ holder # None => step[holder] = "done"
    /\ holder' = t
    /\ todo' = [todo EXCEPT ![t] = Unsettled]
    /\ reviewed' = [reviewed EXCEPT ![t] = IF t \in Reviews THEN head ELSE 0]
    /\ Goes(t, IF Unsettled = {} THEN "work" ELSE "recover")
    /\ UNCHANGED <<events, passed, pub, appr, prMarker, prNumber, locked,
                   write, answer, result, found, github>>

\* One marker is read back.  A body that cannot be built again is passed over;
\* a marker that is known to be unknown stays as it is.
ReadMarker(t) ==
    /\ step[t] = "recover"
    /\ \E w \in todo[t] :
          /\ todo' = [todo EXCEPT ![t] = @ \ {w}]
          /\ \/ \E seen \in Readings(Sees(w)) :
                   LET o == Recovered(seen)
                       old == IF w[1] = "comment" THEN pub[w[2]] ELSE appr[w[2]] IN
                   found' = IF o = "confirmed" \/ old = "pending"
                              THEN [found EXCEPT ![t] = @ \cup {<<w, o>>}] ELSE found
             \/ w[1] = "comment" /\ w[2] \notin Reviews /\ UNCHANGED found
    /\ UNCHANGED <<record, locked, step, write, answer, result, reviewed, github>>

Applied(status, t, family, yes) ==
    [u \in Tasks |-> IF <<<<family, u>>, "confirmed">> \in found[t] THEN yes
                     ELSE IF <<<<family, u>>, "unknown">> \in found[t] THEN "unknown"
                     ELSE status[u]]

SaveRecovery(t) ==
    /\ step[t] = "recover" /\ todo[t] = {} /\ ~locked
    /\ IF Holds(t)
         THEN /\ pub' = Applied(pub, t, "comment", "posted")
              /\ appr' = Applied(appr, t, "approve", "confirmed")
         ELSE UNCHANGED <<pub, appr>>
    /\ found' = [found EXCEPT ![t] = {}]
    /\ Goes(t, "work")
    /\ UNCHANGED <<holder, events, passed, prMarker, prNumber, locked,
                   write, answer, result, todo, reviewed, github>>

Stop(t) ==
    /\ holder = t /\ step[t] \notin {"idle", "done"} /\ ~locked
    /\ holder' = None
    /\ UNCHANGED <<events, passed, pub, appr, prMarker, prNumber, locked, writers, github>>

\* A development also looks for a pull request, a review comes to its verdict.
Report(t) ==
    /\ step[t] = "work" /\ ~locked
    /\ \/ /\ Holds(t)
          /\ events' = events \cup {t}
          /\ \E verdict \in IF t \in Reviews THEN BOOLEAN ELSE {FALSE} :
                passed' = IF verdict THEN passed \cup {t} ELSE passed
          /\ \E detected \in IF t \in Reviews \/ prs = 0 THEN {FALSE} ELSE BOOLEAN :
                prNumber' = (prNumber \/ detected)
          /\ write' = [write EXCEPT ![t] = Comment(t)]
          /\ Goes(t, "ready")
       \/ /\ Goes(t, "done")
          /\ UNCHANGED <<events, passed, prNumber, write>>
    /\ UNCHANGED <<holder, pub, appr, prMarker, locked, answer, result,
                   todo, found, reviewed, github>>

-----------------------------------------------------------------------------
(* The write transaction of a task or of a creation *)

Ends(x, outcome) ==
    /\ result' = [result EXCEPT ![x] = outcome]
    /\ Goes(x, "store")

Mark(x) ==
    /\ step[x] = "ready" /\ (x = Creation \/ ~locked)
    /\ \/ /\ x = Creation \/ Holds(x)
          /\ pub' = IF write[x] = Comment(x) THEN [pub EXCEPT ![x] = "pending"] ELSE pub
          /\ appr' = IF write[x] = Approval(x) /\ appr[x] = "none"
                       THEN [appr EXCEPT ![x] = "pending"] ELSE appr
          /\ prMarker' = (prMarker \/ x = Creation)
          /\ Goes(x, "marked")
          /\ UNCHANGED result
       \/ /\ Ends(x, "failed")    \* the lease is lost, or the commit fails
          /\ UNCHANGED <<pub, appr, prMarker>>
    /\ UNCHANGED <<holder, events, passed, prNumber, locked, write, answer,
                   todo, found, reviewed, github>>

Send(x) ==
    /\ step[x] = "marked"
    /\ \/ /\ air' = air \cup {write[x]}
          /\ Goes(x, "sent")
          /\ UNCHANGED result
       \/ /\ Ends(x, Outcome("closed", "error"))
          /\ UNCHANGED air
    /\ UNCHANGED <<record, locked, write, answer, todo, found, reviewed,
                   head, prs, done, on, edited>>

Answer(x) ==
    /\ step[x] = "sent"
    /\ \E a \in Answers \ {"closed"} :
          /\ a = "accepted" => write[x] \notin air /\ done[write[x]] > 0
          /\ a = "rejected" => write[x] \in air
          /\ air' = IF a = "rejected" THEN air \ {write[x]} ELSE air
          /\ answer' = [answer EXCEPT ![x] = a]
          /\ IF NeverHappened(a) THEN Ends(x, Outcome(a, "error"))
                                 ELSE Goes(x, "answered") /\ UNCHANGED result
    /\ UNCHANGED <<record, locked, write, todo, found, reviewed, head, prs, done, on, edited>>

ReadBack(x) ==
    /\ step[x] = "answered"
    /\ \E seen \in Readings(Sees(write[x])) : Ends(x, Outcome(answer[x], seen))
    /\ UNCHANGED <<record, locked, write, answer, todo, found, reviewed, github>>

\* publication.status of an outcome; only the answer brings the URL.
Status(x) ==
    IF result[x] # "confirmed" THEN result[x]
    ELSE IF answer[x] = "accepted" THEN "linked" ELSE "posted"

\* An approval follows the comment of a review that passed.
Approves(t) ==
    t \in passed /\ prNumber /\ Holds(t) /\ write[t] = Comment(t)

\* Mutant: the outcome is stored whoever has the workflow now.
StoreUnfenced(t) ==
    /\ step[t] = "store" /\ ~locked
    /\ pub' = IF write[t] = Comment(t) THEN [pub EXCEPT ![t] = Status(t)] ELSE pub
    /\ appr' = IF write[t] = Approval(t) /\ appr[t] # "none"
                 THEN [appr EXCEPT ![t] = result[t]] ELSE appr
    /\ Goes(t, "done")
    /\ UNCHANGED <<holder, events, passed, prMarker, prNumber, locked, write,
                   answer, result, todo, found, reviewed, github>>

Store(t) ==
    /\ step[t] = "store" /\ ~locked
    /\ pub' = IF Holds(t) /\ write[t] = Comment(t) THEN [pub EXCEPT ![t] = Status(t)] ELSE pub
    /\ appr' = IF Holds(t) /\ write[t] = Approval(t) /\ appr[t] # "none"
                 THEN [appr EXCEPT ![t] = result[t]] ELSE appr
    /\ write' = [write EXCEPT ![t] = IF Approves(t) THEN Approval(t) ELSE None]
    /\ answer' = [answer EXCEPT ![t] = None]
    /\ result' = [result EXCEPT ![t] = None]
    /\ Goes(t, IF Approves(t) THEN "ready" ELSE IF t \in Reviews THEN "done" ELSE "edit")
    /\ UNCHANGED <<holder, events, passed, prMarker, prNumber, locked,
                   todo, found, reviewed, github>>

\* A rework marks the comment of the last failed review as answered, if it
\* knows the comment; the edit may be repeated and leaves no marker.
Remark(t) ==
    /\ step[t] = "edit"
    /\ LET failed == {u \in events \cap Reviews : u < t /\ u \notin passed}
           last == {u \in failed : \A v \in failed : v <= u /\ pub[u] = "linked"} IN
       \E marked \in {{}, last} : edited' = edited \cup marked
    /\ Goes(t, "done")
    /\ UNCHANGED <<record, locked, write, answer, result, todo, found, reviewed,
                   head, prs, done, on, air>>

-----------------------------------------------------------------------------
(* The creation of the pull request, under the lock of the workflow *)

CreationGoes(next, a, r) ==
    /\ Goes(Creation, next)
    /\ locked' = TRUE
    /\ write' = [write EXCEPT ![Creation] = Pr]
    /\ answer' = [answer EXCEPT ![Creation] = a]
    /\ result' = [result EXCEPT ![Creation] = r]
    /\ UNCHANGED <<todo, found, reviewed, github>>

Leaves ==
    /\ Goes(Creation, "idle")
    /\ locked' = FALSE
    /\ write' = [write EXCEPT ![Creation] = None]
    /\ answer' = [answer EXCEPT ![Creation] = None]
    /\ result' = [result EXCEPT ![Creation] = None]
    /\ UNCHANGED <<todo, found, reviewed, github>>

\* Mutant: a creation that finds its own marker starts over.
CreationStartsOver ==
    /\ step[Creation] = "idle" /\ ~locked
    /\ CreationGoes("lookup", None, None)
    /\ UNCHANGED record

CreationBegins ==
    /\ step[Creation] = "idle" /\ ~locked
    /\ CreationGoes(IF prMarker THEN "recover" ELSE "lookup", None, None)
    /\ UNCHANGED record

\* With a marker left, the readback alone decides whether to go on.
CreationRecovers ==
    /\ step[Creation] = "recover"
    /\ \E seen \in Readings(Sees(Pr)) :
          IF Recovered(seen) = "confirmed" THEN CreationGoes("lookup", None, None) ELSE Leaves
    /\ UNCHANGED record

\* Before the write, and after one whose answer brought no number.  Before it,
\* the branch is pushed.  The lookup and the push may fail.
CreationLooks ==
    /\ step[Creation] = "lookup"
    /\ \/ prs > 0 /\ CreationGoes("store", "accepted", "confirmed")
       \/ prs = 0 /\ result[Creation] = None /\ CreationGoes("ready", None, None)
       \/ Leaves
    /\ UNCHANGED record

CreationStores ==
    /\ step[Creation] = "store"
    /\ LET numbered == result[Creation] = "confirmed" /\ answer[Creation] = "accepted" IN
       \/ /\ numbered
          /\ prNumber' = TRUE /\ prMarker' = FALSE
          /\ Leaves
       \/ /\ result[Creation] = "confirmed" /\ ~numbered
          /\ CreationGoes("lookup", None, "confirmed")
          /\ UNCHANGED <<prNumber, prMarker>>
       \/ /\ Leaves       \* unconfirmed, or the commit fails
          /\ UNCHANGED <<prNumber, prMarker>>
    /\ UNCHANGED <<holder, events, passed, pub, appr>>

-----------------------------------------------------------------------------
\* The process dies; what it has dispatched goes on.
Crash ==
    /\ \E x \in Writers : step[x] \in Busy
    /\ step' = [x \in Writers |-> IF x = Creation THEN "idle"
                                  ELSE IF step[x] = "idle" THEN "idle" ELSE "done"]
    /\ locked' = FALSE
    /\ write' = [x \in Writers |-> None]
    /\ answer' = [x \in Writers |-> None]
    /\ result' = [x \in Writers |-> None]
    /\ todo' = [t \in Tasks |-> {}]
    /\ found' = [t \in Tasks |-> {}]
    /\ UNCHANGED <<record, reviewed, github>>

TaskStep(t) ==
    \/ Claim(t) \/ ReadMarker(t) \/ SaveRecovery(t) \/ Report(t)
    \/ Store(t) \/ Remark(t) \/ Stop(t)

CreationStep == CreationBegins \/ CreationRecovers \/ CreationLooks \/ CreationStores

Next ==
    \/ \E t \in Tasks : TaskStep(t)
    \/ CreationStep
    \/ \E x \in Writers : Mark(x) \/ Send(x) \/ Answer(x) \/ ReadBack(x)
    \/ \E w \in Writes : Land(w) \/ Drop(w)
    \/ SomebodyPushes \/ SomebodyOpens \/ Crash

Spec == Init /\ [][Next]_vars

-----------------------------------------------------------------------------
(* Properties *)

\* GitHub executes a comment, an approval or a creation at most once, whatever
\* crashes, is stopped or gets lost in between.
OnceAtGithub == \A w \in Writes : done[w] + (IF w \in air THEN 1 ELSE 0) <= 1

\* What has been or may yet be executed has left its trace on the record: the
\* marker, what became of it, or the number of the pull request.
TraceLeft ==
    \A w \in Writes :
        w \in air \/ done[w] > 0 =>
            CASE w[1] = "comment" -> pub[w[2]] # "none"
              [] w[1] = "approve" -> appr[w[2]] # "none"
              [] w[1] = "create"  -> prMarker \/ prNumber

\* What the record says is done is there: a posted comment, a confirmed
\* approval of the commit that was judged, a pull request.
DoneIsThere ==
    /\ \A t \in Tasks : pub[t] \in {"posted", "linked"} => done[Comment(t)] > 0
    /\ \A t \in Tasks : appr[t] = "confirmed" =>
                            done[Approval(t)] > 0 /\ on[t] = reviewed[t]
    /\ prNumber => prs > 0

\* What the record says has failed has not happened and will not.
FailedNeverHappens ==
    \A t \in Tasks :
        /\ pub[t] = "failed" => done[Comment(t)] = 0 /\ Comment(t) \notin air
        /\ appr[t] = "failed" => done[Approval(t)] = 0 /\ Approval(t) \notin air

\* A settled marker is never unsettled again: not by the late answer of a task
\* that has lost the workflow, nor by a recovery.
SettledStays ==
    [][\A t \in Tasks :
          /\ pub[t] \in {"posted", "linked"} => pub'[t] = pub[t]
          /\ appr[t] = "confirmed" => appr'[t] = appr[t]]_vars

\* An approval on GitHub is on the commit that was reviewed ("the approval
\* confirms the commit the review covered, never another head", writes.ts:377).
ApprovedWasReviewed == \A t \in Tasks : done[Approval(t)] > 0 => on[t] = reviewed[t]

\* The record and GitHub never drift apart: what is published happens at most once,
\* leaves its trace before it is sent, is there when the record says so, and has not
\* happened when the record says that it failed.
PublicationIsTrue ==
    TypeOK /\ OnceAtGithub /\ TraceLeft /\ DoneIsThere /\ FailedNeverHappens
=============================================================================
