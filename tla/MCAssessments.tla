----------------------------- MODULE MCAssessments -----------------------------
(***************************************************************************)
(* Two panels on one project, in three parts.  The queue of assessments is *)
(* followed without its comments; the comment of a single report is        *)
(* followed through deaths and faults, in one hand at a time; and two      *)
(* reports whose comments GitHub has refused are published again by the    *)
(* users, one of them from both panels at once.                            *)
(***************************************************************************)
EXTENDS Assessments, FiniteSetsExt

MCMaxComments == 2    \* bound: comments, on their way or there

VARIABLE part    \* "queue", "comment" or "reports"

Refused ==
    /\ runs = [r \in Runs |-> [input |-> 1, phase |-> "completed", owner |-> None,
                               status |-> "failed"]]
    /\ session = [r \in Runs |-> "finished"]
    /\ alive = Processes /\ closed = {} /\ aborted = {} /\ shared = {}
    /\ drain = [p \in Processes |-> Asleep]
    /\ pub = [w \in Publishers |-> NotPublishing]
    /\ comments = [r \in Runs |-> 0] /\ late = {}
    /\ fails = [deaths |-> 0, faults |-> 0]

MCInit ==
    \/ part \in {"queue", "comment"} /\ Watched
    \/ part = "reports" /\ Refused

Plain ==
    /\ \A w \in Publishers : /\ pub[w].at \notin {"look", "report", "catch"}
                             /\ w[2] = "user" => pub[w].run = 0
    /\ fails.deaths + fails.faults <= 1

\* Every panel is there, no drain is awake, and the second report is published by one.
Reports ==
    /\ alive = Processes /\ closed = {} /\ fails = [deaths |-> 0, faults |-> 0]
    /\ \A p \in Processes : drain[p].at = "asleep"
    /\ pub[<<2, "user">>].run # 2

Sent == MapThenSumSet(LAMBDA r : comments[r], Runs) + Cardinality(late)

MCNext ==
    /\ Watches
    /\ UNCHANGED part
    /\ part = "queue" => Plain'
    /\ part = "comment" => Len(runs') <= 1
    /\ part = "reports" => Reports'
    /\ part # "queue" => Sent' <= MCMaxComments

MCSpec ==
    /\ MCInit /\ [][MCNext /\ (part = "comment" => shared' = {})]_<<avars, shared, part>>
    /\ AssessmentFairness

\* Two callers may hold the single report.
SharedSpec == MCInit /\ part = "comment" /\ [][MCNext]_<<avars, shared, part>>
=============================================================================
