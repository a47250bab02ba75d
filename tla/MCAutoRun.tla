------------------------------- MODULE MCAutoRun -------------------------------
(***************************************************************************)
(* Runs of two kinds, each with its own bound on failures: one run with    *)
(* enough of them to blow the fuse again after its cooldown, and a run     *)
(* that the user replaces while the controller works for it.               *)
(***************************************************************************)
EXTENDS AutoRun

VARIABLE part    \* "failing run" or "replaced run"

MCInit == AutoInit /\ part \in {"failing run", "replaced run"}

MCNext ==
    /\ AutoNext
    /\ UNCHANGED part
    /\ part = "failing run" => autorun'.run <= 1
    /\ part = "replaced run" => troubles' <= 1

MCSpec == MCInit /\ [][MCNext]_<<runvars, part>> /\ AutoFairness
=============================================================================
