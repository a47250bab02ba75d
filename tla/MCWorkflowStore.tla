-------------------------- MODULE MCWorkflowStore --------------------------
(***************************************************************************)
(* One record in three parts: every task with a metadata writer and no     *)
(* automatic run, one task with a writer and two controllers, and a writer *)
(* and the controllers for long enough that commits follow a halt.         *)
(***************************************************************************)
EXTENDS WorkflowStore, TLC

CONSTANTS
    d1, d2, r1, w1, c1, c2,
    BudgetRev,   \* bound: commits where controllers work beside a task
    HaltRev      \* bound: commits where they go on after a halt

VARIABLE part    \* "tasks", "budget" or "halt"

MCKindOf == [s \in Starts |-> IF s = r1 THEN "review" ELSE "dev"]

Cast ==
    CASE part = "tasks" -> Starts \cup Writers
      [] part = "budget" -> {d1} \cup Writers \cup Controllers
      [] part = "halt" -> Writers \cup Controllers

MCInit == Init /\ part \in {"tasks", "budget", "halt"}

MCNext ==
    /\ Next
    /\ UNCHANGED part
    /\ \A c \in Clients \ Cast : pc'[c] = "idle"
    /\ part = "budget" => record'.rev <= BudgetRev
    /\ part = "halt" => record'.rev <= HaltRev

MCSpec == MCInit /\ [][MCNext]_<<vars, part>>

\* Controllers are alike.
MCSymmetry == Permutations(Controllers)
=============================================================================
