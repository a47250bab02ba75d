-------------------------------- MODULE MCViews --------------------------------
(***************************************************************************)
(* What the panel and the agents it starts rest on, in parts that share no *)
(* state: the contract of a work item, the local Git snapshots, the facts  *)
(* read from one sample, the worktree prepared for an agent, the two-phase *)
(* authorization of its start, the log of its task, and the gateway that   *)
(* lets all its requests to GitHub through.                                *)
(***************************************************************************)
EXTENDS ContractCapture, LocalGit, LocalGitFacts, Preparation, Authorization, Streams,
        GatewayLanes

VARIABLE part

Parts == {"contract", "snapshots", "facts", "preparation", "authorization", "streams",
          "gateway"}

\* A read of the repository, and an approval, which sends a review and reads back the
\* reviews of the repository and the user who is signed in.
MCRepo == [s \in {"read", "approve"} \X (0..2) |->
              IF s = <<"approve", 2>> THEN "user" ELSE "repository"]
MCBucket == [s \in {"read", "approve"} \X (0..2) |-> "core"]

\* A development asks for the agent that the workflow was not begun with.
OtherAgent ==
    \A r \in Requests : request'[r].step = "contract" => request'[r].input.agent = "claude"

MCInit ==
    /\ ContractInit /\ LocalGitInit /\ LocalFactsInit
    /\ PreparationInit /\ AuthorizationInit /\ StreamsInit /\ LanesInit
    /\ part \in Parts

MCNext ==
    /\ UNCHANGED part
    /\ \/ part = "contract" /\ ContractNext
          /\ UNCHANGED <<lgvars, lfvars, prepvars, authvars, svars, lanevars>>
       \/ part = "snapshots" /\ LocalGitNext
          /\ UNCHANGED <<cvars, lfvars, prepvars, authvars, svars, lanevars>>
       \/ part = "facts" /\ LocalFactsNext
          /\ UNCHANGED <<cvars, lgvars, prepvars, authvars, svars, lanevars>>
       \/ part = "preparation" /\ PreparationNext
          /\ UNCHANGED <<cvars, lgvars, lfvars, authvars, svars, lanevars>>
       \/ part = "authorization" /\ AuthorizationNext /\ OtherAgent
          /\ UNCHANGED <<cvars, lgvars, lfvars, prepvars, svars, lanevars>>
       \/ part = "streams" /\ StreamsNext
          /\ UNCHANGED <<cvars, lgvars, lfvars, prepvars, authvars, lanevars>>
       \/ part = "gateway" /\ LanesNext
          /\ UNCHANGED <<cvars, lgvars, lfvars, prepvars, authvars, svars>>

MCSpec ==
    MCInit /\ [][MCNext]_<<cvars, lgvars, lfvars, prepvars, authvars, svars, lanevars, part>>
=============================================================================
